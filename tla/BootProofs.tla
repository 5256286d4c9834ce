----------------------------- MODULE BootProofs -----------------------------
EXTENDS Boot, RingProofs

-----------------------------------------------------------------------------
(* Stacks are sequences of words of any kind.                              *)

Words(s) == \E X : s \in Seq(X)

LEMMA WordsSeq == ASSUME NEW X, NEW s \in Seq(X) PROVE Words(s)
BY DEF Words

(* Named, so that a fact about some sequences is not applied to its own    *)
(* result.                                                                 *)
Sized(s, n)       == Words(s) /\ Len(s) = n
Sizes(s, n, u, m) == Sized(s, n) /\ Sized(u, m)

LEMMA Joined ==
  ASSUME NEW s, NEW n, NEW u, NEW m, Sizes(s, n, u, m)
  PROVE  /\ Words(s \o u) /\ n \in Nat /\ m \in Nat /\ Len(s \o u) = n + m
         /\ \A i \in 1..n : (s \o u)[i] = s[i]
         /\ \A i \in 1..m : (s \o u)[n + i] = u[i]
<1>1. PICK X : s \in Seq(X)
  BY DEF Words, Sizes, Sized
<1>2. PICK Y : u \in Seq(Y)
  BY DEF Words, Sizes, Sized
<1> DEFINE Z == X \cup Y
<1>3. s \in Seq(Z) /\ u \in Seq(Z)
  BY <1>1, <1>2
<1> HIDE DEF Z
<1>4. s \o u \in Seq(Z)
  BY <1>3
<1>5. Len(s) = n /\ Len(u) = m
  BY DEF Sizes, Sized
<1> QED BY <1>3, <1>4, <1>5 DEF Words

LEMMA Prefix ==
  ASSUME NEW s, NEW m, NEW n \in 0..m, Sized(s, m)
  PROVE  /\ Words(SubSeq(s, 1, n)) /\ m \in Nat /\ Len(SubSeq(s, 1, n)) = n
         /\ \A i \in 1..n : SubSeq(s, 1, n)[i] = s[i]
<1>1. PICK X : s \in Seq(X)
  BY DEF Words, Sized
<1> QED BY <1>1 DEF Words, Sized

LEMMA WordsFrom ==
  ASSUME NEW n \in Nat, NEW f, f = [k \in 1..n |-> f[k]]
  PROVE  Sized(f, n)
<1> DEFINE X == {f[k] : k \in 1..n}
<1>1. f \in [1..n -> X]
  OBVIOUS
<1>2. f \in Seq(X) /\ Len(f) = n
  <2> HIDE DEF X
  <2> QED BY <1>1
<1> QED BY <1>2 DEF Sized, Words

LEMMA WordsOf ==
  /\ Words(<<>>)
  /\ \A x : Words(<<x>>) /\ Len(<<x>>) = 1 /\ <<x>>[1] = x
  /\ \A a, b, c, d, e : LET s == <<a, b, c, d, e>>
       IN  Words(s) /\ Len(s) = 5 /\ s[1] = a /\ s[2] = b /\ s[3] = c /\ s[4] = d /\ s[5] = e
<1>1. Words(<<>>)
  BY DEF Words
<1>2. \A x : Words(<<x>>) /\ Len(<<x>>) = 1 /\ <<x>>[1] = x
  <2> TAKE x
  <2>1. <<x>> \in Seq({x})
    OBVIOUS
  <2> QED BY <2>1 DEF Words
<1>3. ASSUME NEW a, NEW b, NEW c, NEW d, NEW e
      PROVE  LET s == <<a, b, c, d, e>>
             IN  Words(s) /\ Len(s) = 5 /\ s[1] = a /\ s[2] = b /\ s[3] = c /\ s[4] = d /\ s[5] = e
  <2>1. <<a, b, c, d, e>> \in Seq({a, b, c, d, e})
    OBVIOUS
  <2> QED BY <2>1 DEF Words
<1> QED BY <1>1, <1>2, <1>3

-----------------------------------------------------------------------------
(* The tables of names.                                                    *)

LEMMA Names ==
  /\ Len(CommonPushes) = 15 /\ Len(CommonPops) = 15 /\ DOMAIN CommonPushes = 1..15
  /\ DOMAIN CommonPops = 1..15
  /\ \A k \in 1..15 : CommonPops[k] = CommonPushes[16 - k] /\ CommonPops[k] \in Registers
  /\ \A j, k \in 1..15 : CommonPops[j] = CommonPops[k] => j = k
  /\ \A r \in Registers : \E k \in 1..15 : CommonPops[k] = r
BY DEF CommonPushes, CommonPops, Registers

LEMMA YieldNames ==
  /\ Len(YieldPushes) = 6 /\ Len(YieldPops) = 6 /\ DOMAIN YieldPushes = 1..6
  /\ DOMAIN YieldPops = 1..6
  /\ YieldPops[6] = "rbx" /\ YieldPops[5] = "rbp" /\ YieldPushes[1] = "rbx" /\ YieldPushes[2] = "rbp"
  /\ \A j, k \in 1..6 : YieldPops[j] = YieldPops[k] => j = k
BY DEF YieldPushes, YieldPops

LEMMA InfoNames ==
  /\ Len(interrupt_info) = 21 /\ DOMAIN interrupt_info = 1..21
  /\ interrupt_info[17] = "interrupt_id" /\ interrupt_info[20] = "cs" /\ interrupt_info[19] = "rip"
  /\ \A j, k \in 1..21 : interrupt_info[j] = interrupt_info[k] => j = k
BY DEF interrupt_info

LEMMA PoppedIs ==
  ASSUME NEW s, NEW names, NEW n \in Nat, Len(names) = n, DOMAIN names = 1..n,
         \A j, k \in 1..n : names[j] = names[k] => j = k
  PROVE  /\ Popped(s, names) = [r \in Registers |-> Popped(s, names)[r]]
         /\ \A k \in 1..n : names[k] \in Registers => Popped(s, names)[names[k]] = s[Len(s) + 1 - k]
<1>1. Popped(s, names) = [r \in Registers |-> Popped(s, names)[r]]
  BY DEF Popped
<1>2. ASSUME NEW k \in 1..n, names[k] \in Registers
      PROVE  Popped(s, names)[names[k]] = s[Len(s) + 1 - k]
  <2>1. Contains(names, names[k])
    BY DEF Contains
  <2>2. (CHOOSE j \in DOMAIN names : names[j] = names[k]) = k
    OBVIOUS
  <2> QED BY <1>2, <2>1, <2>2 DEF Popped, FromTop
<1> QED BY <1>1, <1>2

LEMMA InfoIs ==
  LET s == stacks[current]
  IN  /\ Info("interrupt_id") = s[Len(s) - 16]
      /\ Info("cs") = s[Len(s) - 19]
      /\ Info("rip") = s[Len(s) - 18]
<1> DEFINE s == stacks[current]
<1>1. ASSUME NEW k \in 1..21
      PROVE  Info(interrupt_info[k]) = s[Len(s) + 1 - k]
  <2>1. (CHOOSE j \in DOMAIN interrupt_info : interrupt_info[j] = interrupt_info[k]) = k
    BY InfoNames
  <2> QED BY <2>1 DEF Info, FromTop
<1>2. /\ Info("interrupt_id") = s[Len(s) + 1 - 17] /\ Info("cs") = s[Len(s) + 1 - 20]
      /\ Info("rip") = s[Len(s) + 1 - 19]
  BY <1>1, InfoNames
<1> QED BY <1>2

-----------------------------------------------------------------------------
(* The processor finds the stub of the vector.                             *)

LEMMA ModIs ==
  ASSUME NEW x \in Nat, NEW w \in Nat \ {0}
  PROVE  x \div w \in Nat /\ x % w \in 0..(w-1) /\ x = w * (x \div w) + (x % w)
BY SMT

LEMMA DivideIs ==
  ASSUME NEW w \in Nat \ {0}, NEW q \in Nat, NEW r \in 0..(w-1)
  PROVE  (w * q + r) \div w = q /\ (w * q + r) % w = r
<1> DEFINE x == w * q + r
<1>1. x \in Nat /\ q * w <= x /\ x < (q + 1) * w
  BY SMT
<1>2. x = w * q + r
  OBVIOUS
<1> HIDE DEF x
<1>3. x \div w = q
  BY <1>1, SMT
<1>4. x % w \in 0..(w-1) /\ x = w * (x \div w) + (x % w)
  BY <1>1, ModIs
<1>5. x % w = r
  <2> DEFINE y == w * q
             m == x % w
  <2>1. y \in Nat /\ m \in 0..(w-1) /\ x = y + m /\ x = y + r
    <3>1. y \in Nat
      BY SMT
    <3> QED BY <1>2, <1>3, <1>4, <3>1
  <2> HIDE DEF y, m
  <2>2. m = r
    BY <2>1
  <2> QED BY <2>2 DEF m
<1> QED BY <1>3, <1>5 DEF x

LEMMA DividedTwice ==
  ASSUME NEW x \in Nat, NEW w \in Nat \ {0}, NEW u \in Nat \ {0}
  PROVE  x \div (u * w) = (x \div w) \div u
<1> DEFINE q == x \div w
           r == x % w
           p == q \div u
           m == q % u
<1>1. q \in Nat /\ r \in 0..(w-1) /\ x = w * q + r
  BY ModIs
<1>2. p \in Nat /\ m \in 0..(u-1) /\ q = u * p + m
  <2> HIDE DEF q
  <2> QED BY <1>1, ModIs
<1> HIDE DEF q, r, p, m
<1>3. x = (u * w) * p + (w * m + r)
  BY <1>1, <1>2, SMT
<1>4. w * m + r \in 0..(u * w - 1)
  BY <1>1, <1>2, SMT
<1>6. u * w \in Nat \ {0}
  BY SMT
<1> DEFINE d == u * w
           f == w * m + r
<1>7. x = d * p + f /\ f \in 0..(d-1) /\ d \in Nat \ {0}
  BY <1>3, <1>4, <1>6
<1> HIDE DEF d, f
<1>8. x \div d = p
  BY <1>2, <1>7, DivideIs
<1> QED BY <1>8 DEF d, p, q

LEMMA TargetIs ==
  ASSUME NEW o \in Nat
  PROVE  Target(descriptor(o)) = o
<1> DEFINE w == HALF
           q == o \div w
<1>1. w \in Nat \ {0}
  BY InterruptConstants
<1>2. Target(descriptor(o)) = (o % w) + w * ((q % w) + w * (o \div (w * w)))
  BY DEF Target, descriptor
<1> HIDE DEF w
<1>3. o \div (w * w) = q \div w
  BY <1>1, DividedTwice
<1>4. q \in Nat /\ o % w \in Nat /\ o = w * q + (o % w)
  BY <1>1, ModIs
<1> DEFINE m == o % w
<1> HIDE DEF q, m
<1>5. q = w * (q \div w) + (q % w) /\ q \div w \in Nat /\ q % w \in Nat
  <2>1. q \in Nat
    BY <1>4
  <2> QED BY <1>1, <2>1, ModIs
<1> DEFINE k == q \div w
           n == q % w
           p == w * k
           z == w * q
<1>6. k \in Nat /\ n \in Nat /\ q = p + n
  BY <1>5
<1>7. Target(descriptor(o)) = m + w * (n + p)
  BY <1>2, <1>3 DEF m
<1>8. o = z + m
  BY <1>4 DEF m
<1>9. m \in Nat
  BY <1>4 DEF m
<1> HIDE DEF k, n
<1>10. p \in Nat /\ z \in Nat
  <2>1. \A x \in Nat : w * x \in Nat
    BY <1>1
  <2> QED BY <1>4, <1>6, <2>1
<1> HIDE DEF p
<1>11. n + p = q
  BY <1>6, <1>10
<1>12. Target(descriptor(o)) = m + z
  BY <1>7, <1>11
<1> HIDE DEF z
<1> QED BY <1>8, <1>9, <1>10, <1>12

-----------------------------------------------------------------------------
(* What the stacks hold.  A code of a thread is what an interrupt may      *)
(* come back to; g are the registers, b the words on the stack below.      *)

Codes  == {"main", "work", "idle_thread", "thread_entry", "busy"}
Inside == {"int_handler", "timer", "timer_yield", "pop", "fault_handler"}

AtCode(t, code, b, g) ==
  /\ code \in Codes /\ b \in 0..1
  /\ g = [r \in Registers |-> g[r]]
  /\ code = "main" => t = Main
  /\ code \in {"main", "work"} => g = Own(t)
  /\ code = "thread_entry" =>
       b = 0 /\ g["rbx"] = Arg(t) /\ g["rbp"] \in {"idle_thread", "busy"}
  /\ code = "busy" => g["rdi"] = Arg(t)

(* The words that the processor pushes.                                    *)
Pushed(t, s, b, code, g) ==
  /\ Words(s) /\ AtCode(t, code, b, g)
  /\ s[b+2] = b /\ s[b+3] = TRUE /\ s[b+4] = "cs" /\ s[b+5] = code

Entered(t, s, g, v) ==
  \E b \in 0..1, code \in Codes :
    Pushed(t, s, b, code, g) /\ Len(s) = b + 5 + (IF v \in ErrorCodes THEN 1 ELSE 0)

(* The registers above the first n words.                                  *)
Saved(s, n, g) == \A k \in 1..15 : s[n + k] = g[CommonPushes[k]]

(* The whole of struct interrupt_info.                                     *)
Framed(t, s, v) ==
  \E g : \E b \in 0..1, code \in Codes :
    /\ Pushed(t, s, b, code, g) /\ Len(s) = b + 23
    /\ s[b+7] = v /\ s[b+8] = b + 7
    /\ Saved(s, b + 8, g)

(* What yield finds on the stack of a thread: it goes on in an interrupt,  *)
(* in its first function, or in the loop of the idle thread.               *)
SuspendedAt(t, s, n) ==
  /\ Words(s) /\ n \in Nat /\ Len(s) = n + 8
  /\ \/ s[n+1] = "pop" /\ s[n+2] = FALSE /\ \E v : Framed(t, SubSeq(s, 1, n), v)
     \/ /\ s[n+1] = "thread_entry" /\ s[n+2] = TRUE /\ n = 0
        /\ s[n+3] = Arg(t) /\ s[n+4] \in {"idle_thread", "busy"}
     \/ s[n+1] = "idle_thread" /\ s[n+2] = TRUE /\ n \in 0..1

Suspended(t, s) == SuspendedAt(t, s, Len(s) - 8)

-----------------------------------------------------------------------------
(* The invariant.                                                          *)

Present == {current} \cup Members(ready)

Queue ==
  /\ current \in Threads /\ ready \in Seq(Threads)
  /\ Distinct(ready) /\ current \notin Members(ready)

Stacked ==
  /\ stacks = [t \in Threads |-> stacks[t]]
  /\ \A t \in Members(ready) : Suspended(t, stacks[t])
  /\ \A t \in Threads \ Present : stacks[t] = <<>>

(* The current thread.                                                     *)
Running ==
  LET s == stacks[current]
  IN  /\ rip \in Codes \cup Inside \cup {"entry", "hlt"}
      /\ Words(s) /\ Len(s) <= 24
      /\ rip \in Codes => AtCode(current, rip, Len(s), regs)
      /\ rip = "entry" => /\ taken.vector \in Vectors
                          /\ taken.entry = int_handlers_asm[taken.vector]
                          /\ Entered(current, s, regs, taken.vector)
      /\ rip \in Inside =>
           \E v : Framed(current, s, v) /\ (rip = "int_handler" => v = taken.vector)

(* The interrupt flag, and what may be delivered.                          *)
Enabled ==
  /\ rip \in Codes => intr = (line > 110)
  /\ rip \in Inside \cup {"entry"} => intr = FALSE
  /\ rip = "hlt" => intr = FALSE \/ line = 113
  /\ rip \in {"entry", "int_handler"} =>
       (taken.vector >= LPIC_MASTER_ICW => taken.vector \in DOMAIN handlers)

(* How far main() has come.                                                *)
Program ==
  /\ line \in {94, 99, 102, 103, 106, 110, 113, 116, 120, 122, 125, 126, 127}
  /\ line <= 110 => rip = "main"
  /\ line >= 102 => idt = [v \in Vectors |-> descriptor(int_handlers_asm[v])]
  /\ \A v \in DOMAIN handlers : handlers[v] \in {"timer", "fault_handler"}
  /\ line >= 122 => PIT_INTERRUPT \in DOMAIN handlers
  /\ line <= 116 => Idle \notin Present
  /\ line <= 125 => Thread1 \notin Present
  /\ line <= 126 => Thread2 \notin Present

(* The master controller after the first k words.                          *)
MasterAfter(m, k) ==
  /\ m \in [next : Nat, base : Nat, mask : SUBSET Lines]
  /\ m.next = IF k = 1 THEN 2 ELSE IF k = 2 THEN 3 ELSE IF k = 3 THEN 4 ELSE 0
  /\ k >= 2 => m.base = LPIC_MASTER_ICW
  /\ k >= 9 => m.mask = Lines

Controller ==
  /\ pic = [chip \in {"master", "slave"} |-> pic[chip]]
  /\ irr \subseteq Devices /\ writes \in Nat
  /\ line < 106 => writes = 0
  /\ line <= 106 => writes <= 9 /\ MasterAfter(pic["master"], writes)
  /\ line > 106 => MasterAfter(pic["master"], 4)
  /\ line \in 110..122 => pic["master"].mask = Lines
  /\ line >= 125 => pic["master"].mask = Lines \ {0}

BootInv == Queue /\ Stacked /\ Running /\ Enabled /\ Program /\ Controller

-----------------------------------------------------------------------------
(* One lemma for each action.                                              *)

LEMMA OthersKeep ==
  ASSUME Queue, Stacked, UNCHANGED <<current, ready>>, NEW s,
         stacks' = [stacks EXCEPT ![current] = s]
  PROVE  /\ Queue' /\ Stacked' /\ stacks'[current] = s /\ current' = current
         /\ Present' = Present /\ current \in Threads
<1>1. current \in Threads /\ current \notin Members(ready) /\ Queue' /\ Present' = Present
  BY DEF Queue, Present
<1>2. stacks'[current] = s /\ \A t \in Threads \ {current} : stacks'[t] = stacks[t]
  BY <1>1 DEF Stacked
<1>3. stacks' = [t \in Threads |-> stacks'[t]]
  BY DEF Stacked
<1>4. ASSUME NEW t \in Members(ready)
      PROVE  Suspended(t, stacks'[t])
  <2>1. t \in Threads /\ t # current
    BY <1>1 DEF Queue, Members
  <2>2. Suspended(t, stacks[t])
    BY DEF Stacked
  <2> QED BY <1>2, <2>1, <2>2
<1>5. \A t \in Threads \ Present : stacks'[t] = <<>>
  BY <1>1, <1>2 DEF Stacked, Present
<1>6. Members(ready)' = Members(ready)
  OBVIOUS
<1> QED BY <1>1, <1>2, <1>3, <1>4, <1>5, <1>6 DEF Stacked

LEMMA InterruptedKeeps ==
  ASSUME BootInv, NEW v \in Vectors, rip \in Codes, intr, Interrupted(v),
         v >= LPIC_MASTER_ICW => v \in DOMAIN handlers,
         UNCHANGED <<current, ready, regs, handlers, line>>
  PROVE  /\ Queue' /\ Stacked' /\ Running' /\ Enabled' /\ Present' = Present
         /\ line > 110
<1> DEFINE s == stacks[current]
           b == Len(s)
           w == <<"ss", b, intr, "cs", rip>>
           x == IF v \in ErrorCodes THEN <<"error">> ELSE <<>>
           u == s \o w \o x
<1>1. /\ Words(s) /\ AtCode(current, rip, b, regs) /\ b \in 0..1 /\ intr = TRUE /\ line > 110
  BY DEF BootInv, Running, Enabled, AtCode
<1>2. stacks' = [stacks EXCEPT ![current] = u] /\ rip' = "entry" /\ taken'.vector = v
      /\ taken'.entry = Target(idt[v]) /\ intr' = (intr /\ idt[v].type # InterruptGate)
  BY DEF Interrupted
<1>3. Words(w) /\ Len(w) = 5 /\ w[2] = b /\ w[3] = TRUE /\ w[4] = "cs" /\ w[5] = rip
  BY <1>1, WordsOf
<1>4. Words(x) /\ Len(x) = IF v \in ErrorCodes THEN 1 ELSE 0
  BY WordsOf
<1> HIDE DEF w, x, s
<1>5. /\ Words(s \o w) /\ Len(s \o w) = b + 5
      /\ (s \o w)[b+2] = b /\ (s \o w)[b+3] = TRUE /\ (s \o w)[b+4] = "cs" /\ (s \o w)[b+5] = rip
  <2>1. Words(s \o w) /\ Len(s \o w) = b + 5 /\ \A i \in 1..5 : (s \o w)[b+i] = w[i]
    <3>1. Sizes(s, b, w, 5)
      BY <1>1, <1>3 DEF Sizes, Sized
    <3> HIDE DEF b
    <3>2. 5 \in Nat /\ b \in Nat /\ Words(s \o w) /\ Len(s \o w) = b + 5
      BY <3>1, Joined
    <3>3. \A i \in 1..5 : (s \o w)[b+i] = w[i]
      BY <3>1, Joined
    <3> QED BY <3>2, <3>3
  <2> QED BY <1>3, <2>1
<1>6. /\ Words(u) /\ Len(u) = b + 5 + Len(x)
      /\ u[b+2] = b /\ u[b+3] = TRUE /\ u[b+4] = "cs" /\ u[b+5] = rip
  <2>1. Words(u) /\ Len(u) = b + 5 + Len(x) /\ \A i \in 1..(b+5) : u[i] = (s \o w)[i]
    <3> DEFINE y == s \o w
    <3>1. Sizes(y, b + 5, x, Len(x))
      BY <1>4, <1>5 DEF Sizes, Sized
    <3> HIDE DEF y, b
    <3>2. /\ Words(y \o x) /\ Len(y \o x) = b + 5 + Len(x)
          /\ \A i \in 1..(b+5) : (y \o x)[i] = y[i]
      BY <3>1, Joined
    <3> QED BY <3>2 DEF y
  <2>2. b+2 \in 1..(b+5) /\ b+3 \in 1..(b+5) /\ b+4 \in 1..(b+5) /\ b+5 \in 1..(b+5)
    <3> HIDE DEF b
    <3> QED BY <1>1
  <2> QED BY <1>5, <2>1, <2>2
<1> HIDE DEF u, b
<1>7. Queue' /\ Stacked' /\ stacks'[current] = u /\ current' = current /\ Present' = Present
  BY <1>2, OthersKeep DEF BootInv
<1>8. Entered(current, u, regs, v)
  BY <1>1, <1>4, <1>6 DEF Entered, Pushed
<1>9. /\ idt[v].type = InterruptGate
      /\ Target(idt[v]) = int_handlers_asm[v]
  <2>1. idt[v] = descriptor(int_handlers_asm[v])
    BY <1>1 DEF BootInv, Program
  <2>2. int_handlers_asm[v] \in Nat
    BY InterruptConstants
  <2> QED BY <2>1, <2>2, TargetIs DEF descriptor
<1>10. Running'
  <2>1. Len(u) <= 24 /\ Words(u)
    BY <1>1, <1>4, <1>6
  <2> QED BY <1>2, <1>7, <1>8, <1>9, <2>1 DEF Running, Codes, Inside
<1>11. Enabled'
  BY <1>2, <1>9 DEF Enabled, Codes, Inside
<1> QED BY <1>1, <1>7, <1>10, <1>11

LEMMA StubKeeps ==
  ASSUME BootInv, Stub, UNCHANGED line
  PROVE  Queue' /\ Stacked' /\ Running' /\ Enabled' /\ Present' = Present
<1>1. PICK id \in Vectors :
        /\ rip = "entry" /\ taken.entry = int_handlers_asm[id]
        /\ LET s == stacks[current] \o StubPushes(id)
           IN  stacks' = [stacks EXCEPT ![current] = s \o <<Len(s)>>
                 \o [k \in DOMAIN CommonPushes |-> regs[CommonPushes[k]]]]
        /\ rip' = "int_handler"
        /\ UNCHANGED <<current, ready, regs, intr, idt, handlers, picVars, taken>>
  BY DEF Stub
<1> DEFINE s == stacks[current]
           v == taken.vector
<1>2. /\ v \in Vectors /\ taken.entry = int_handlers_asm[v] /\ Entered(current, s, regs, v)
      /\ intr = FALSE /\ (v >= LPIC_MASTER_ICW => v \in DOMAIN handlers)
  BY <1>1 DEF BootInv, Running, Enabled
<1>3. id = v
  BY <1>1, <1>2, InterruptConstants DEF IsInjective
<1>4. PICK b \in 0..1, code \in Codes :
        Pushed(current, s, b, code, regs) /\ Len(s) = b + 5 + (IF v \in ErrorCodes THEN 1 ELSE 0)
  BY <1>2 DEF Entered
<1> DEFINE x == StubPushes(id)
           y == s \o x
           n == Len(y)
           z == y \o <<n>>
           f == [k \in DOMAIN CommonPushes |-> regs[CommonPushes[k]]]
           u == z \o f
           m == Len(s)
<1>5. stacks' = [stacks EXCEPT ![current] = u]
  BY <1>1
<1>6. /\ Sized(x, Len(x)) /\ Len(x) = (IF v \in ErrorCodes THEN 1 ELSE 2) /\ x[Len(x)] = v
  <2>1. CASE id \in ErrorCodes
    <3>1. x = <<id>>
      BY <2>1 DEF StubPushes
    <3> HIDE DEF x
    <3> QED BY <2>1, <3>1, <1>3, WordsOf DEF Sized
  <2>2. CASE id \notin ErrorCodes
    <3>1. x = <<0, id>>
      BY <2>2 DEF StubPushes
    <3>2. <<0, id>> \in Seq({0, id})
      OBVIOUS
    <3> HIDE DEF x
    <3>3. Words(x) /\ Len(x) = 2 /\ x[2] = id
      BY <3>1, <3>2, WordsSeq
    <3> QED BY <2>2, <3>3, <1>3 DEF Sized
  <2> QED BY <2>1, <2>2
<1>7. Sized(f, 15) /\ \A k \in 1..15 : f[k] = regs[CommonPushes[k]]
  <2>1. f = [k \in 1..15 |-> f[k]]
    BY Names
  <2>2. \A k \in 1..15 : f[k] = regs[CommonPushes[k]]
    BY Names
  <2> HIDE DEF f
  <2> QED BY <2>1, <2>2, WordsFrom
<1>8. Sized(s, m) /\ m = b + 5 + (IF v \in ErrorCodes THEN 1 ELSE 0)
      /\ AtCode(current, code, b, regs)
      /\ s[b+2] = b /\ s[b+3] = TRUE /\ s[b+4] = "cs" /\ s[b+5] = code
  BY <1>4 DEF Sized, Pushed
<1> HIDE DEF f, x, s, v, m
<1>9. /\ Sized(y, n) /\ n = b + 7 /\ y[b+7] = v
      /\ \A i \in 1..(b+5) : y[i] = s[i]
  <2> DEFINE l == Len(x)
  <2>1. Sizes(s, m, x, l) /\ l = (IF v \in ErrorCodes THEN 1 ELSE 2) /\ x[l] = v
    BY <1>6, <1>8 DEF Sizes
  <2> HIDE DEF l
  <2>2. Words(y) /\ n = m + l /\ m \in Nat /\ l \in Nat
    BY <2>1, Joined
  <2>3. \A i \in 1..m : y[i] = s[i]
    BY <2>1, Joined
  <2>4. \A i \in 1..l : y[m+i] = x[i]
    BY <2>1, Joined
  <2> HIDE DEF y
  <2>5. m + l = b + 7 /\ l \in 1..l /\ b + 5 <= m
    BY <1>8, <2>1, <2>2
  <2>6. y[m+l] = v
    BY <2>1, <2>4, <2>5
  <2>7. \A i \in 1..(b+5) : i \in 1..m
    BY <2>2, <2>5
  <2> QED BY <2>2, <2>3, <2>5, <2>6, <2>7 DEF Sized
<1> HIDE DEF y, n
<1>10. /\ Sized(z, b + 8) /\ z[b+7] = v /\ z[b+8] = b + 7
       /\ \A i \in 1..(b+5) : z[i] = s[i]
  <2>1. Sizes(y, b + 7, <<n>>, 1) /\ <<n>>[1] = b + 7
    BY <1>9, WordsOf DEF Sizes, Sized
  <2>2. Words(z) /\ Len(z) = b + 7 + 1
    BY <2>1, Joined, SMTT(30)
  <2>3. \A i \in 1..(b+7) : z[i] = y[i]
    BY <2>1, Joined
  <2>4. \A i \in 1..1 : z[b+7+i] = <<n>>[i]
    BY <2>1, Joined
  <2> HIDE DEF z
  <2> QED BY <1>9, <2>1, <2>2, <2>3, <2>4 DEF Sized
<1> HIDE DEF z
<1>11. /\ Sized(u, b + 23) /\ u[b+7] = v /\ u[b+8] = b + 7
       /\ \A i \in 1..(b+5) : u[i] = s[i]
       /\ Saved(u, b + 8, regs)
  <2>1. Sizes(z, b + 8, f, 15)
    BY <1>7, <1>10 DEF Sizes
  <2>2. Words(u) /\ Len(u) = b + 8 + 15
    <3>1. Words(z \o f) /\ Len(z \o f) = b + 8 + 15
      <4> DEFINE l == b + 8
      <4>1. Sizes(z, l, f, 15)
        BY <2>1
      <4> HIDE DEF l
      <4>2. Words(z \o f) /\ Len(z \o f) = l + 15
        BY <4>1, Joined
      <4> QED BY <4>2 DEF l
    <3> QED BY <3>1
  <2>3. (\A i \in 1..(b+8) : u[i] = z[i]) /\ (\A i \in 1..15 : u[b+8+i] = f[i])
    <3> DEFINE l == b + 8
    <3>1. Sizes(z, l, f, 15)
      BY <2>1
    <3> HIDE DEF l
    <3>2. \A i \in 1..l : (z \o f)[i] = z[i]
      BY <3>1, Joined
    <3>3. \A i \in 1..15 : (z \o f)[l + i] = f[i]
      BY <3>1, Joined
    <3> QED BY <3>2, <3>3 DEF l
  <2> HIDE DEF u
  <2>4. Saved(u, b + 8, regs)
    BY <1>7, <2>3 DEF Saved
  <2>5. Sized(u, b + 23)
    BY <2>2 DEF Sized
  <2>6. u[b+7] = v /\ u[b+8] = b + 7 /\ \A i \in 1..(b+5) : u[i] = s[i]
    <3>1. \A i \in 1..(b+5) : i \in 1..(b+8)
      OBVIOUS
    <3>2. b+7 \in 1..(b+8) /\ b+8 \in 1..(b+8)
      OBVIOUS
    <3> QED BY <1>10, <2>3, <3>1, <3>2
  <2> QED BY <2>4, <2>5, <2>6
<1> HIDE DEF u
<1>12. Framed(current, u, v)
  <2>1. Words(u) /\ Len(u) = b + 23
    BY <1>11 DEF Sized
  <2>2. u[b+2] = b /\ u[b+3] = TRUE /\ u[b+4] = "cs" /\ u[b+5] = code
    BY <1>8, <1>11
  <2>3. Pushed(current, u, b, code, regs)
    BY <1>8, <2>1, <2>2 DEF Pushed
  <2> QED BY <1>11, <2>1, <2>3 DEF Framed
<1>13. Queue' /\ Stacked' /\ stacks'[current] = u /\ current' = current /\ Present' = Present
  BY <1>1, <1>5, OthersKeep DEF BootInv
<1>14. Running'
  <2>1. Len(u) <= 24 /\ Words(u)
    BY <1>11 DEF Sized
  <2>2. taken'.vector = v
    BY <1>1 DEF v
  <2> QED BY <1>1, <1>12, <1>13, <2>1, <2>2 DEF Running, Codes, Inside
<1>15. Enabled'
  <2>1. taken' = taken /\ handlers' = handlers /\ intr' = FALSE /\ rip' = "int_handler"
    BY <1>1, <1>2
  <2> QED BY <1>2, <2>1 DEF Enabled, Codes, Inside, v
<1> QED BY <1>13, <1>14, <1>15

LEMMA HandlerKeeps ==
  ASSUME BootInv, int_handler, UNCHANGED line
  PROVE  Queue' /\ Stacked' /\ Running' /\ Enabled' /\ Present' = Present
<1>1. /\ rip = "int_handler" /\ rip' \in {"timer", "fault_handler", "pop"}
      /\ UNCHANGED <<current, ready, stacks, intr, idt, handlers, taken>>
  BY DEF int_handler, BootInv, Program
<1>2. Queue' /\ Stacked' /\ Present' = Present
  BY <1>1 DEF BootInv, Queue, Stacked, Present
<1>3. Running'
  BY <1>1 DEF BootInv, Running, Codes, Inside
<1>4. Enabled'
  BY <1>1 DEF BootInv, Enabled, Codes, Inside
<1> QED BY <1>2, <1>3, <1>4

(* What the pops find in the frame.                                        *)
LEMMA FramePops ==
  ASSUME NEW s, NEW b \in 0..1, NEW g, Len(s) = b + 23,
         g = [r \in Registers |-> g[r]],
         Saved(s, b + 8, g)
  PROVE  Popped(s, CommonPops) = g
<1> DEFINE h == Popped(s, CommonPops)
<1>1. /\ h = [r \in Registers |-> h[r]]
      /\ \A k \in 1..15 : CommonPops[k] \in Registers => h[CommonPops[k]] = s[Len(s) + 1 - k]
  <2> DEFINE n == 15
  <2>1. /\ n \in Nat /\ Len(CommonPops) = n /\ DOMAIN CommonPops = 1..n
        /\ \A j, k \in 1..n : CommonPops[j] = CommonPops[k] => j = k
    BY Names
  <2> HIDE DEF n
  <2>2. /\ h = [r \in Registers |-> h[r]]
        /\ \A k \in 1..n : CommonPops[k] \in Registers => h[CommonPops[k]] = s[Len(s) + 1 - k]
    BY <2>1, PoppedIs
  <2> QED BY <2>2 DEF n
<1> HIDE DEF h
<1>2. ASSUME NEW k \in 1..15
      PROVE  h[CommonPops[k]] = g[CommonPops[k]]
  <2> DEFINE l == Len(s)
             j == 16 - k
  <2>1. j \in 1..15 /\ l + 1 - k = b + 8 + j
    <3>1. l = b + 23
      OBVIOUS
    <3>2. j \in 1..15
      OBVIOUS
    <3> HIDE DEF l
    <3>3. l + 1 - k = b + 8 + j
      BY <3>1
    <3> QED BY <3>2, <3>3
  <2>2. s[l + 1 - k] = g[CommonPushes[j]]
    <3> HIDE DEF l, j
    <3> QED BY <2>1 DEF Saved
  <2>3. CommonPops[k] = CommonPushes[j] /\ CommonPops[k] \in Registers
    BY Names
  <2> QED BY <1>1, <2>2, <2>3
<1>3. \A r \in Registers : h[r] = g[r]
  <2> TAKE r \in Registers
  <2>1. PICK k \in 1..15 : CommonPops[k] = r
    BY Names
  <2> QED BY <1>2, <2>1
<1>4. h = g
  BY <1>1, <1>3
<1> QED BY <1>4 DEF h

(* How a stack goes on in an interrupt.                                    *)
LEMMA FrameReturns ==
  ASSUME NEW t, NEW s, NEW v, Framed(t, s, v)
  PROVE  \E b \in 0..1, code \in Codes :
           LET frame == Dropped(SubSeq(s, 1, FromTop(s, Len(CommonPops) + 1)), 2)
           IN  /\ AtCode(t, code, b, Popped(s, CommonPops))
               /\ FromTop(frame, 1) = code /\ FromTop(frame, 3) = TRUE
               /\ FromTop(frame, 4) = b
               /\ Sized(SubSeq(s, 1, FromTop(frame, 4)), b)
<1>1. PICK g : \E b \in 0..1, code \in Codes :
        /\ Pushed(t, s, b, code, g) /\ Len(s) = b + 23
        /\ s[b+7] = v /\ s[b+8] = b + 7
        /\ Saved(s, b + 8, g)
  BY DEF Framed
<1>2. PICK b \in 0..1, code \in Codes :
        /\ Pushed(t, s, b, code, g) /\ Len(s) = b + 23
        /\ s[b+7] = v /\ s[b+8] = b + 7
        /\ Saved(s, b + 8, g)
  BY <1>1
<1>3. /\ Words(s) /\ AtCode(t, code, b, g)
      /\ s[b+2] = b /\ s[b+3] = TRUE /\ s[b+4] = "cs" /\ s[b+5] = code
  BY <1>2 DEF Pushed
<1>4. Popped(s, CommonPops) = g
  <2>1. g = [r \in Registers |-> g[r]]
    BY <1>3 DEF AtCode
  <2> QED BY <1>2, <2>1, FramePops
<1> DEFINE up    == SubSeq(s, 1, FromTop(s, Len(CommonPops) + 1))
           frame == Dropped(up, 2)
           m     == b + 23
<1>5. Sized(s, m)
  BY <1>2, <1>3 DEF Sized
<1>6. up = SubSeq(s, 1, b + 7)
  <2>1. FromTop(s, Len(CommonPops) + 1) = s[b+8]
    BY <1>2, Names DEF FromTop
  <2> QED BY <1>2, <2>1
<1> DEFINE l == b + 7
<1>7. Sized(up, l) /\ \A i \in 1..l : up[i] = s[i]
  <2>0. l \in 0..m
    OBVIOUS
  <2>1. l \in 0..m /\ up = SubSeq(s, 1, l)
    BY <1>6, <2>0
  <2> HIDE DEF up, l, m
  <2> QED BY <1>5, <2>1, Prefix DEF Sized
<1> HIDE DEF up
<1>8. Sized(frame, b + 5) /\ \A i \in 1..(b+5) : frame[i] = s[i]
  <2> DEFINE k == b + 5
  <2>1. k \in 0..l /\ Len(up) = l /\ k = l - 2 /\ \A i \in 1..k : i \in 1..l
    BY <1>7 DEF Sized
  <2>2. frame = SubSeq(up, 1, k)
    BY <2>1 DEF Dropped
  <2> HIDE DEF k, l, frame
  <2>3. Sized(frame, k) /\ \A i \in 1..k : frame[i] = up[i]
    BY <1>7, <2>1, <2>2, Prefix DEF Sized
  <2>4. Sized(frame, k) /\ \A i \in 1..k : frame[i] = s[i]
    BY <1>7, <2>1, <2>3
  <2> QED BY <2>4 DEF k
<1> HIDE DEF frame
<1>9. FromTop(frame, 1) = code /\ FromTop(frame, 3) = TRUE /\ FromTop(frame, 4) = b
  <2>1. Len(frame) = b + 5
    BY <1>8 DEF Sized
  <2>2. /\ FromTop(frame, 1) = frame[b+5] /\ FromTop(frame, 3) = frame[b+3]
        /\ FromTop(frame, 4) = frame[b+2]
    BY <2>1 DEF FromTop
  <2> QED BY <1>3, <1>8, <2>2
<1>10. Sized(SubSeq(s, 1, b), b)
  <2>1. b \in 0..m
    OBVIOUS
  <2> HIDE DEF m
  <2> QED BY <1>5, <2>1, Prefix DEF Sized
<1>11. /\ AtCode(t, code, b, Popped(s, CommonPops))
       /\ Sized(SubSeq(s, 1, FromTop(frame, 4)), b)
  BY <1>3, <1>4, <1>9, <1>10
<1> QED BY <1>9, <1>11 DEF frame, up

LEMMA IretqKeeps ==
  ASSUME BootInv, Iretq, UNCHANGED line, line > 110
  PROVE  Queue' /\ Stacked' /\ Running' /\ Enabled' /\ Present' = Present
<1> DEFINE s     == stacks[current]
           frame == Dropped(SubSeq(s, 1, FromTop(s, Len(CommonPops) + 1)), 2)
           u     == SubSeq(s, 1, FromTop(frame, 4))
<1>1. /\ rip = "pop" /\ regs' = Popped(s, CommonPops) /\ rip' = FromTop(frame, 1)
      /\ intr' = FromTop(frame, 3) /\ stacks' = [stacks EXCEPT ![current] = u]
      /\ UNCHANGED <<current, ready, idt, handlers, picVars, taken>>
  BY DEF Iretq
<1>2. \E v : Framed(current, s, v)
  BY <1>1 DEF BootInv, Running, Inside
<1>3. PICK b \in 0..1, code \in Codes :
        /\ AtCode(current, code, b, Popped(s, CommonPops))
        /\ FromTop(frame, 1) = code /\ FromTop(frame, 3) = TRUE
        /\ FromTop(frame, 4) = b /\ Sized(u, b)
  BY <1>2, FrameReturns
<1> HIDE DEF frame, u, s
<1>4. Queue' /\ Stacked' /\ stacks'[current] = u /\ current' = current /\ Present' = Present
  BY <1>1, OthersKeep DEF BootInv
<1>5. Words(u) /\ Len(u) = b /\ rip' = code /\ intr' = TRUE /\ line' > 110
  BY <1>1, <1>3 DEF Sized
<1>6. rip' \notin Inside /\ rip' \notin {"entry", "hlt"}
  BY <1>5 DEF Codes, Inside
<1>7. Running'
  <2>1. AtCode(current, code, b, regs')
    BY <1>1, <1>3
  <2> QED BY <1>3, <1>4, <1>5, <1>6, <2>1 DEF Running
<1>8. Enabled'
  BY <1>5, <1>6 DEF Enabled, Inside
<1> QED BY <1>4, <1>7, <1>8

-----------------------------------------------------------------------------
(* yield.                                                                  *)

LEMMA PrefixIs ==
  ASSUME NEW s, NEW n, NEW u, NEW m, Sizes(s, n, u, m)
  PROVE  SubSeq(s \o u, 1, n) = s
<1>1. PICK X : s \in Seq(X)
  BY DEF Words, Sizes, Sized
<1>2. PICK Y : u \in Seq(Y)
  BY DEF Words, Sizes, Sized
<1> DEFINE Z == X \cup Y
<1>3. s \in Seq(Z) /\ u \in Seq(Z)
  BY <1>1, <1>2
<1> HIDE DEF Z
<1>4. Len(s) = n
  BY DEF Sizes, Sized
<1> QED BY <1>3, <1>4

LEMMA SuspendedSaves ==
  ASSUME NEW t, NEW s, NEW n, NEW back, NEW flag, NEW f, Sized(s, n), Sized(f, 6),
         \/ back = "pop" /\ flag = FALSE /\ \E v : Framed(t, s, v)
         \/ back = "idle_thread" /\ flag = TRUE /\ n \in 0..1
  PROVE  Suspended(t, s \o <<back, flag>> \o f)
<1> DEFINE x == <<back, flag>>
           y == s \o x
           z == y \o f
<1>1. Sized(x, 2) /\ x[1] = back /\ x[2] = flag
  <2>1. x \in Seq({back, flag})
    OBVIOUS
  <2> QED BY <2>1 DEF Sized, Words
<1> HIDE DEF x
<1>2. /\ n \in Nat /\ Sized(y, n + 2) /\ SubSeq(y, 1, n) = s
      /\ y[n+1] = back /\ y[n+2] = flag
  <2>1. Sizes(s, n, x, 2)
    BY <1>1 DEF Sizes
  <2>2. Words(y) /\ Len(y) = n + 2 /\ n \in Nat
    BY <2>1, Joined
  <2>3. \A i \in 1..2 : y[n+i] = x[i]
    BY <2>1, Joined
  <2>4. SubSeq(y, 1, n) = s
    BY <2>1, PrefixIs
  <2> HIDE DEF y
  <2> QED BY <1>1, <2>2, <2>3, <2>4 DEF Sized
<1> HIDE DEF y
<1>3. /\ Words(z) /\ Len(z) = n + 8 /\ SubSeq(z, 1, n + 2) = y
      /\ \A i \in 1..(n+2) : z[i] = y[i]
  <2> DEFINE l == n + 2
  <2>1. Sizes(y, l, f, 6)
    BY <1>2 DEF Sizes
  <2>2. l + 6 = n + 8
    BY <1>2
  <2> HIDE DEF l
  <2>3. Words(z) /\ Len(z) = l + 6
    BY <2>1, Joined
  <2>4. \A i \in 1..l : z[i] = y[i]
    BY <2>1, Joined
  <2>5. SubSeq(z, 1, l) = y
    BY <2>1, PrefixIs
  <2> HIDE DEF z
  <2> QED BY <2>2, <2>3, <2>4, <2>5 DEF l
<1> HIDE DEF z
<1>4. z[n+1] = back /\ z[n+2] = flag
  <2>1. n+1 \in 1..(n+2) /\ n+2 \in 1..(n+2)
    BY <1>2
  <2> QED BY <1>2, <1>3, <2>1
<1>5. SubSeq(z, 1, n) = s
  <2> DEFINE l == n + 2
  <2>1. PICK X : z \in Seq(X)
    BY <1>3 DEF Words
  <2>2. SubSeq(SubSeq(z, 1, l), 1, n) = SubSeq(z, 1, n)
    <3>1. l \in Nat /\ n \in Nat /\ n <= l /\ l <= Len(z)
      BY <1>2, <1>3
    <3> HIDE DEF l
    <3> QED BY <2>1, <3>1
  <2> QED BY <1>2, <1>3, <2>2
<1>6. SuspendedAt(t, z, n)
  BY <1>2, <1>3, <1>4, <1>5 DEF SuspendedAt
<1>7. Len(z) - 8 = n
  BY <1>2, <1>3
<1> QED BY <1>6, <1>7 DEF Suspended, z, y, x

LEMMA SuspendedResumes ==
  ASSUME NEW t, NEW s, Suspended(t, s)
  PROVE  LET u == Dropped(s, 8)
             g == Popped(s, YieldPops)
         IN  \/ FromTop(s, 8) = "pop" /\ FromTop(s, 7) = FALSE /\ \E v : Framed(t, u, v)
             \/ \E code \in {"thread_entry", "idle_thread"} :
                  /\ FromTop(s, 8) = code /\ FromTop(s, 7) = TRUE
                  /\ Words(u) /\ Len(u) \in 0..1 /\ AtCode(t, code, Len(u), g)
<1> DEFINE n == Len(s) - 8
           u == Dropped(s, 8)
           g == Popped(s, YieldPops)
<1>1. SuspendedAt(t, s, n)
  BY DEF Suspended
<1>2. Words(s) /\ n \in Nat /\ Len(s) = n + 8
  BY <1>1 DEF SuspendedAt
<1>3. FromTop(s, 8) = s[n+1] /\ FromTop(s, 7) = s[n+2]
  <2> HIDE DEF n
  <2>1. Len(s) + 1 - 8 = n + 1 /\ Len(s) + 1 - 7 = n + 2
    BY <1>2
  <2> QED BY <2>1 DEF FromTop
<1>4. u = SubSeq(s, 1, n)
  BY DEF Dropped
<1>5. Words(u) /\ Len(u) = n
  <2> DEFINE m == n + 8
  <2>1. Sized(s, m) /\ n \in 0..m
    BY <1>2 DEF Sized
  <2> HIDE DEF m, n, u
  <2> QED BY <1>4, <2>1, Prefix
<1>6. g = [r \in Registers |-> g[r]] /\ g["rbx"] = s[n+3] /\ g["rbp"] = s[n+4]
  <2> DEFINE k == 6
  <2>1. /\ k \in Nat /\ Len(YieldPops) = k /\ DOMAIN YieldPops = 1..k
        /\ \A i, j \in 1..k : YieldPops[i] = YieldPops[j] => i = j
    BY YieldNames
  <2> HIDE DEF k
  <2>2. /\ g = [r \in Registers |-> g[r]]
        /\ \A i \in 1..k : YieldPops[i] \in Registers => g[YieldPops[i]] = s[Len(s) + 1 - i]
    BY <2>1, PoppedIs
  <2> HIDE DEF g, n
  <2>3. 6 \in 1..k /\ 5 \in 1..k
    BY DEF k
  <2>4. g["rbx"] = s[Len(s) + 1 - 6] /\ g["rbp"] = s[Len(s) + 1 - 5]
    <3>1. YieldPops[6] = "rbx" /\ YieldPops[5] = "rbp" /\ {"rbx", "rbp"} \subseteq Registers
      BY YieldNames DEF Registers
    <3> QED BY <2>2, <2>3, <3>1
  <2>5. Len(s) + 1 - 6 = n + 3 /\ Len(s) + 1 - 5 = n + 4
    BY <1>2
  <2> QED BY <2>2, <2>4, <2>5
<1> HIDE DEF n, u, g
<1>7. CASE s[n+1] = "pop" /\ s[n+2] = FALSE /\ \E v : Framed(t, SubSeq(s, 1, n), v)
  BY <1>3, <1>4, <1>7 DEF u, g
<1>8. CASE /\ s[n+1] = "thread_entry" /\ s[n+2] = TRUE /\ n = 0
           /\ s[n+3] = Arg(t) /\ s[n+4] \in {"idle_thread", "busy"}
  <2>1. AtCode(t, "thread_entry", Len(u), g)
    BY <1>5, <1>6, <1>8 DEF AtCode, Codes
  <2>2. Len(u) \in 0..1
    BY <1>5, <1>8
  <2> QED BY <1>3, <1>5, <1>8, <2>1, <2>2 DEF u, g
<1>9. CASE s[n+1] = "idle_thread" /\ s[n+2] = TRUE /\ n \in 0..1
  <2>1. AtCode(t, "idle_thread", Len(u), g)
    BY <1>5, <1>6, <1>9 DEF AtCode, Codes
  <2> QED BY <1>3, <1>5, <1>9, <2>1 DEF u, g
<1> QED BY <1>1, <1>7, <1>8, <1>9 DEF SuspendedAt

(* One round of the queue.                                                 *)
LEMMA QueueTurns ==
  ASSUME NEW S, NEW q \in Seq(S), NEW e \in S, Distinct(q), e \notin Members(q)
  PROVE  LET r == Append(q, e)
         IN  /\ Head(r) \in S /\ Tail(r) \in Seq(S) /\ Distinct(Tail(r))
             /\ Head(r) \notin Members(Tail(r))
             /\ {Head(r)} \cup Members(Tail(r)) = {e} \cup Members(q)
<1> DEFINE r == Append(q, e)
           n == Len(q)
           h == r[1]
           l == Tail(r)
<1>1. /\ r \in Seq(S) /\ Len(r) = n + 1 /\ n \in Nat
      /\ \A k \in 1..(n+1) : r[k] = IF k = n + 1 THEN e ELSE q[k]
  OBVIOUS
<1>2. ASSUME NEW j \in 1..(n+1), NEW k \in 1..(n+1), r[j] = r[k]
      PROVE  j = k
  <2> HIDE DEF r
  <2>1. CASE j = n+1 /\ k # n+1
    <3>1. k \in 1..n /\ q[k] = e
      BY <1>1, <1>2, <2>1
    <3> QED BY <3>1 DEF Members
  <2>2. CASE j # n+1 /\ k = n+1
    <3>1. j \in 1..n /\ q[j] = e
      BY <1>1, <1>2, <2>2
    <3> QED BY <3>1 DEF Members
  <2>3. CASE j # n+1 /\ k # n+1
    <3>1. j \in 1..n /\ k \in 1..n /\ q[j] = q[k]
      BY <1>1, <1>2, <2>3
    <3> QED BY <3>1 DEF Distinct
  <2> QED BY <2>1, <2>2, <2>3
<1>3. Members(r) = Members(q) \cup {e}
  BY MembersAppend
<1> HIDE DEF r
<1>4. /\ Head(r) = h /\ h \in S /\ l \in Seq(S) /\ Len(l) = n
      /\ \A k \in 1..n : l[k] = r[k+1]
  BY <1>1
<1> HIDE DEF l, n, h
<1>5. Distinct(l)
  <2>1. ASSUME NEW j \in 1..n, NEW k \in 1..n, l[j] = l[k]
        PROVE  j = k
    <3>1. j+1 \in 1..(n+1) /\ k+1 \in 1..(n+1) /\ r[j+1] = r[k+1]
      BY <1>1, <1>4, <2>1
    <3>2. j+1 = k+1
      BY <1>2, <3>1
    <3> QED BY <3>2
  <2> QED BY <1>4, <2>1 DEF Distinct
<1>6. h \notin Members(l)
  <2> SUFFICES ASSUME NEW k \in 1..n, l[k] = h PROVE FALSE
    BY <1>4 DEF Members
  <2>1. k+1 \in 1..(n+1) /\ 1 \in 1..(n+1) /\ r[k+1] = r[1]
    BY <1>1, <1>4 DEF h
  <2> QED BY <1>2, <2>1
<1>7. Members(r) = {h} \cup Members(l)
  <2>1. ASSUME NEW k \in 1..(n+1)
        PROVE  r[k] \in {h} \cup Members(l)
    <3>1. CASE k = 1
      BY <3>1 DEF h
    <3>2. CASE k # 1
      <4>1. k-1 \in 1..n /\ l[k-1] = r[k]
        BY <1>1, <1>4, <3>2
      <4> QED BY <1>4, <4>1 DEF Members
    <3> QED BY <3>1, <3>2
  <2>2. ASSUME NEW k \in 1..n
        PROVE  l[k] \in Members(r)
    <3>1. k+1 \in 1..(n+1) /\ l[k] = r[k+1]
      BY <1>1, <1>4
    <3> QED BY <1>1, <3>1 DEF Members
  <2>3. h \in Members(r)
    <3>1. 1 \in 1..(n+1)
      BY <1>1
    <3> QED BY <1>1, <3>1 DEF Members, h
  <2>4. Members(r) \subseteq {h} \cup Members(l)
    BY <1>1, <2>1 DEF Members
  <2>5. Members(l) \subseteq Members(r)
    BY <1>4, <2>2 DEF Members
  <2> QED BY <2>3, <2>4, <2>5
<1> QED BY <1>3, <1>4, <1>5, <1>6, <1>7 DEF r, l

LEMMA FrameSize ==
  ASSUME NEW t, NEW s, NEW v, Framed(t, s, v)
  PROVE  Words(s) /\ Len(s) \in Nat /\ Len(s) <= 24
<1>1. PICK g : \E b \in 0..1, code \in Codes : Pushed(t, s, b, code, g) /\ Len(s) = b + 23
  BY DEF Framed
<1> QED BY <1>1 DEF Pushed

LEMMA RunsCode ==
  ASSUME NEW u, stacks'[current'] = u, rip' \in Codes, Words(u), Len(u) \in 0..1,
         AtCode(current', rip', Len(u), regs')
  PROVE  Running'
<1> DEFINE l == Len(u)
<1>1. l <= 24
  <2>1. l \in 0..1
    OBVIOUS
  <2> HIDE DEF l
  <2> QED BY <2>1
<1>2. rip' \notin Inside /\ rip' # "entry"
  BY DEF Codes, Inside
<1> QED BY <1>1, <1>2 DEF Running

LEMMA YieldKeeps ==
  ASSUME BootInv, line > 110, NEW back, yield(back), UNCHANGED line,
         \/ back = "pop" /\ intr = FALSE /\ \E v : Framed(current, stacks[current], v)
         \/ back = "idle_thread" /\ intr = TRUE /\ Len(stacks[current]) \in 0..1
  PROVE  /\ Queue' /\ Stacked' /\ Running' /\ Enabled' /\ Present' = Present
         /\ rip' \in Codes \cup {"pop"}
<1> DEFINE f     == [k \in DOMAIN YieldPushes |-> regs[YieldPushes[k]]]
           saved == [stacks EXCEPT ![current] = @ \o <<back, intr>> \o f]
           queue == Append(ready, current)
           next  == Head(queue)
           s     == saved[next]
           n     == Len(YieldPops)
           u     == Dropped(s, 8)
           g     == Popped(s, YieldPops)
<1>1. /\ current' = next /\ ready' = Tail(queue) /\ regs' = g
      /\ intr' = FromTop(s, 7) /\ rip' = FromTop(s, 8)
      /\ stacks' = [saved EXCEPT ![next] = u]
  <2>1. n = 6
    BY YieldNames
  <2>2. n + 1 = 7 /\ n + 2 = 8
    BY <2>1
  <2> QED BY <2>2 DEF yield
<1>2. /\ next \in Threads /\ Tail(queue) \in Seq(Threads) /\ Distinct(Tail(queue))
      /\ next \notin Members(Tail(queue))
      /\ {next} \cup Members(Tail(queue)) = {current} \cup Members(ready)
  <2>1. /\ current \in Threads /\ ready \in Seq(Threads) /\ Distinct(ready)
        /\ current \notin Members(ready)
    BY DEF BootInv, Queue
  <2> QED BY <2>1, QueueTurns
<1>3. current \in Threads /\ stacks = [t \in Threads |-> stacks[t]]
  BY DEF BootInv, Queue, Stacked
<1>4. Suspended(current, saved[current])
  <2> DEFINE l == Len(stacks[current])
             c == stacks[current]
  <2>1. Sized(c, l)
    BY DEF BootInv, Running, Sized
  <2>2. Sized(f, 6)
    <3>1. f = [k \in 1..6 |-> f[k]]
      BY YieldNames
    <3> HIDE DEF f
    <3> QED BY <3>1, WordsFrom
  <2>3. saved[current] = c \o <<back, intr>> \o f
    BY <1>3
  <2>4. \/ back = "pop" /\ intr = FALSE /\ \E v : Framed(current, c, v)
        \/ back = "idle_thread" /\ intr = TRUE /\ l \in 0..1
    OBVIOUS
  <2> HIDE DEF l, c, f, saved
  <2>5. Suspended(current, c \o <<back, intr>> \o f)
    BY <2>1, <2>2, <2>4, SuspendedSaves
  <2> QED BY <2>3, <2>5
<1>5. /\ saved = [t \in Threads |-> saved[t]]
      /\ \A t \in Threads \ {current} : saved[t] = stacks[t]
  BY <1>3
<1> HIDE DEF saved, queue, next, f, n
<1>6. \A t \in {current} \cup Members(ready) : Suspended(t, saved[t])
  <2>1. ASSUME NEW t \in Members(ready)
        PROVE  Suspended(t, saved[t])
    <3>1. t \in Threads /\ t # current
      BY DEF BootInv, Queue, Members
    <3>2. Suspended(t, stacks[t])
      BY DEF BootInv, Stacked
    <3> QED BY <1>5, <3>1, <3>2
  <2> QED BY <1>4, <2>1
<1>7. Queue' /\ Present' = Present
  BY <1>1, <1>2 DEF Queue, Present
<1>8. Suspended(next, s)
  BY <1>2, <1>6
<1>9. /\ stacks' = [t \in Threads |-> stacks'[t]] /\ stacks'[next] = u
      /\ \A t \in Threads \ {next} : stacks'[t] = saved[t]
  <2> HIDE DEF u
  <2> QED BY <1>1, <1>2, <1>5
<1>10. Stacked'
  <2>1. ASSUME NEW t \in Members(ready')
        PROVE  Suspended(t, stacks'[t])
    <3>1. t \in {current} \cup Members(ready) /\ t # next /\ t \in Threads
      <4>1. t \in {current} \cup Members(ready) /\ t # next
        BY <1>1, <1>2
      <4> QED BY <4>1 DEF BootInv, Queue, Members
    <3> QED BY <1>6, <1>9, <3>1
  <2>2. ASSUME NEW t \in Threads \ Present'
        PROVE  stacks'[t] = <<>>
    <3>1. t # next /\ t # current /\ t \notin Members(ready)
      BY <1>1, <1>7 DEF Present
    <3>2. stacks[t] = <<>>
      BY <3>1 DEF BootInv, Stacked, Present
    <3> QED BY <1>5, <1>9, <3>1, <3>2
  <2>3. Members(ready)' = Members(ready')
    BY DEF Members
  <2> QED BY <1>9, <2>1, <2>2, <2>3 DEF Stacked
<1>11. \/ rip' = "pop" /\ intr' = FALSE /\ \E v : Framed(next, u, v)
       \/ \E code \in {"thread_entry", "idle_thread"} :
            /\ rip' = code /\ intr' = TRUE
            /\ Words(u) /\ Len(u) \in 0..1 /\ AtCode(next, code, Len(u), regs')
  <2> HIDE DEF s
  <2>1. LET w == Dropped(s, 8)
            h == Popped(s, YieldPops)
        IN  \/ FromTop(s, 8) = "pop" /\ FromTop(s, 7) = FALSE /\ \E v : Framed(next, w, v)
            \/ \E code \in {"thread_entry", "idle_thread"} :
                 /\ FromTop(s, 8) = code /\ FromTop(s, 7) = TRUE
                 /\ Words(w) /\ Len(w) \in 0..1 /\ AtCode(next, code, Len(w), h)
    BY <1>8, SuspendedResumes
  <2> QED BY <1>1, <2>1 DEF u, g
<1> HIDE DEF u, g, s
<1>12. CASE rip' = "pop" /\ intr' = FALSE /\ \E v : Framed(next, u, v)
  <2>1. Words(u) /\ Len(u) <= 24
    BY <1>12, FrameSize
  <2>2. Running'
    BY <1>1, <1>9, <1>12, <2>1 DEF Running, Codes, Inside
  <2>3. Enabled'
    BY <1>12 DEF Enabled, Codes, Inside
  <2> QED BY <1>7, <1>10, <1>12, <2>2, <2>3
<1>13. ASSUME NEW code \in {"thread_entry", "idle_thread"}, rip' = code, intr' = TRUE,
              Words(u), Len(u) \in 0..1, AtCode(next, code, Len(u), regs')
       PROVE  Running' /\ Enabled' /\ rip' \in Codes
  <2>1. Running'
    <3>1. rip' \in Codes /\ stacks'[current'] = u
      BY <1>1, <1>9, <1>13 DEF Codes
    <3>2. AtCode(current', rip', Len(u), regs')
      BY <1>1, <1>13
    <3> QED BY <1>13, <3>1, <3>2, RunsCode
  <2>2. Enabled'
    BY <1>13 DEF Enabled, Codes, Inside
  <2> QED BY <1>13, <2>1, <2>2 DEF Codes
<1> QED BY <1>7, <1>10, <1>11, <1>12, <1>13

LEMMA IdleKeeps ==
  ASSUME BootInv, idle_thread, UNCHANGED line, line > 110
  PROVE  Queue' /\ Stacked' /\ Running' /\ Enabled' /\ Present' = Present
<1>1. rip = "idle_thread" /\ yield("idle_thread")
  BY DEF idle_thread
<1>2. intr = TRUE /\ Len(stacks[current]) \in 0..1
  BY <1>1 DEF BootInv, Running, Enabled, Codes, AtCode
<1> QED BY <1>1, <1>2, YieldKeeps

LEMMA TimerKeeps ==
  ASSUME BootInv, timer, UNCHANGED line, line > 110
  PROVE  Queue' /\ Stacked' /\ Running' /\ Enabled' /\ Present' = Present
<1>1. CASE /\ rip = "timer" /\ rip' = "timer_yield"
           /\ UNCHANGED <<threadVars, intr, handlers, taken>>
  <2>1. Queue' /\ Stacked' /\ Present' = Present
    BY <1>1 DEF BootInv, Queue, Stacked, Present, threadVars
  <2>2. Running'
    BY <1>1 DEF BootInv, Running, Codes, Inside, threadVars
  <2>3. Enabled'
    BY <1>1 DEF BootInv, Enabled, Codes, Inside
  <2> QED BY <2>1, <2>2, <2>3
<1>2. CASE rip = "timer_yield" /\ yield("pop")
  <2>1. intr = FALSE /\ \E v : Framed(current, stacks[current], v)
    BY <1>2 DEF BootInv, Running, Enabled, Inside
  <2> QED BY <1>2, <2>1, YieldKeeps
<1> QED BY <1>1, <1>2 DEF timer

LEMMA EntryKeeps ==
  ASSUME BootInv, thread_entry, UNCHANGED line, line > 110
  PROVE  Queue' /\ Stacked' /\ Running' /\ Enabled' /\ Present' = Present
<1> DEFINE s == stacks[current]
           u == Append(s, "exit_unclean")
<1>1. /\ rip = "thread_entry" /\ regs' = [regs EXCEPT !["rdi"] = regs["rbx"]]
      /\ stacks' = [stacks EXCEPT ![current] = u]
      /\ rip' = regs["rbp"] /\ UNCHANGED <<current, ready, intr>>
  BY DEF thread_entry
<1>2. Words(s) /\ AtCode(current, "thread_entry", Len(s), regs) /\ intr = TRUE
  BY <1>1 DEF BootInv, Running, Enabled, Codes
<1>3. /\ Len(s) = 0 /\ regs = [r \in Registers |-> regs[r]]
      /\ regs["rbx"] = Arg(current) /\ regs["rbp"] \in {"idle_thread", "busy"}
  BY <1>2 DEF AtCode
<1>4. Words(u) /\ Len(u) = 1
  <2>1. PICK X : s \in Seq(X)
    BY <1>2 DEF Words
  <2> DEFINE Z == X \cup {"exit_unclean"}
  <2>2. s \in Seq(Z) /\ "exit_unclean" \in Z
    BY <2>1
  <2> HIDE DEF Z
  <2> QED BY <1>3, <2>2 DEF Words
<1> HIDE DEF u
<1>5. Queue' /\ Stacked' /\ stacks'[current] = u /\ current' = current /\ Present' = Present
  BY <1>1, OthersKeep DEF BootInv
<1>6. regs' = [r \in Registers |-> regs'[r]] /\ regs'["rdi"] = Arg(current)
  BY <1>1, <1>3 DEF Registers
<1>7. rip' \in {"idle_thread", "busy"} /\ intr' = TRUE
  BY <1>1, <1>2, <1>3
<1>8. AtCode(current, rip', Len(u), regs')
  BY <1>4, <1>6, <1>7 DEF AtCode, Codes
<1>9. Running'
  <2>1. rip' \in Codes
    BY <1>7 DEF Codes
  <2>2. Len(u) \in 0..1
    BY <1>4
  <2> QED BY <1>4, <1>5, <1>8, <2>1, <2>2, RunsCode
<1>10. Enabled'
  BY <1>7 DEF Enabled, Codes, Inside
<1> QED BY <1>5, <1>9, <1>10

LEMMA FaultKeeps ==
  ASSUME BootInv, fault_handler, UNCHANGED line
  PROVE  Queue' /\ Stacked' /\ Running' /\ Enabled' /\ Present' = Present
<1>1. Queue' /\ Stacked' /\ Present' = Present
  BY DEF fault_handler, BootInv, Queue, Stacked, Present, threadVars
<1>2. Running'
  BY DEF fault_handler, BootInv, Running, Codes, Inside, threadVars
<1>3. Enabled'
  BY DEF fault_handler, Enabled, Codes, Inside
<1> QED BY <1>1, <1>2, <1>3

LEMMA BeginKeeps ==
  ASSUME BootInv, Begin, UNCHANGED line
  PROVE  Queue' /\ Stacked' /\ Running' /\ Enabled' /\ Present' = Present
<1>1. Queue' /\ Stacked' /\ Present' = Present
  BY DEF Begin, BootInv, Queue, Stacked, Present
<1>2. AtCode(current, "work", Len(stacks[current]), regs')
  BY DEF Begin, BootInv, Running, AtCode, Codes, Own
<1>3. Running'
  BY <1>2 DEF Begin, BootInv, Running, Codes, Inside
<1>4. Enabled'
  BY DEF Begin, BootInv, Enabled, Codes, Inside
<1> QED BY <1>1, <1>3, <1>4

-----------------------------------------------------------------------------
(* The controller, and the steps of the processor.                         *)

LEMMA EoiKeeps ==
  ASSUME NEW id, Controller, line > 110, UNCHANGED <<line, writes>>, send_eoi(id)
  PROVE  Controller'
<1>1. pic' = pic /\ irr' = irr
  <2>1. CASE UNCHANGED picVars
    BY <2>1 DEF picVars
  <2>2. CASE out8(Write("master", "command", "EOI"))
    <3> DEFINE w == Write("master", "command", "EOI")
    <3>1. w.chip = "master" /\ w.reg = "command" /\ w.value = "EOI"
      BY DEF Write
    <3>2. Written(pic["master"], w) = pic["master"]
      <4> HIDE DEF w
      <4> QED BY <3>1 DEF Written
    <3>3. /\ pic' = [pic EXCEPT ![w.chip] = Written(@, w)]
          /\ irr' = irr
      <4>1. out8(w)
        BY <2>2
      <4> HIDE DEF w
      <4> QED BY <3>1, <4>1 DEF out8
    <3> HIDE DEF w
    <3>4. pic' = [pic EXCEPT !["master"] = pic["master"]]
      BY <3>1, <3>2, <3>3
    <3>5. pic = [chip \in {"master", "slave"} |-> pic[chip]]
      BY DEF Controller
    <3> QED BY <3>3, <3>4, <3>5
  <2> QED BY <2>1, <2>2 DEF send_eoi
<1> QED BY <1>1 DEF Controller, MasterAfter

LEMMA StillProgram ==
  ASSUME Program, UNCHANGED <<line, idt, handlers>>, Present' = Present, line > 110
  PROVE  Program'
BY DEF Program

LEMMA StillController ==
  ASSUME Controller, UNCHANGED <<line, writes, pic>>, irr' \subseteq Devices
  PROVE  Controller'
BY DEF Controller, MasterAfter

LEMMA CpuKeeps ==
  ASSUME BootInv, Cpu, UNCHANGED mainVars
  PROVE  BootInv'
<1>1. line' = line /\ writes' = writes
  BY DEF mainVars
<1>2. line > 110
  <2>1. rip # "main"
    BY DEF Cpu, Stub, int_handler, Iretq, thread_entry, idle_thread, timer, fault_handler, Begin
  <2>2. line \in Nat
    BY DEF BootInv, Program
  <2> QED BY <2>1, <2>2 DEF BootInv, Program
<1>3. UNCHANGED <<idt, handlers>>
  BY DEF Cpu, Stub, int_handler, Iretq, thread_entry, idle_thread, timer, fault_handler, Begin
<1>4. Queue' /\ Stacked' /\ Running' /\ Enabled' /\ Present' = Present
  <2>1. CASE Stub
    BY <1>1, <2>1, StubKeeps
  <2>2. CASE int_handler
    BY <1>1, <2>2, HandlerKeeps
  <2>3. CASE Iretq
    BY <1>1, <1>2, <2>3, IretqKeeps
  <2>4. CASE thread_entry
    BY <1>1, <1>2, <2>4, EntryKeeps
  <2>5. CASE idle_thread
    BY <1>1, <1>2, <2>5, IdleKeeps
  <2>6. CASE timer
    BY <1>1, <1>2, <2>6, TimerKeeps
  <2>7. CASE fault_handler
    BY <1>1, <2>7, FaultKeeps
  <2>8. CASE Begin
    BY <1>1, <2>8, BeginKeeps
  <2> QED BY <2>1, <2>2, <2>3, <2>4, <2>5, <2>6, <2>7, <2>8 DEF Cpu
<1>5. Controller'
  <2>1. CASE \E id : send_eoi(id)
    <3>1. PICK id : send_eoi(id)
      BY <2>1
    <3> QED BY <1>1, <1>2, <3>1, EoiKeeps DEF BootInv
  <2>2. CASE UNCHANGED picVars
    <3>1. pic' = pic /\ irr' = irr
      BY <2>2 DEF picVars
    <3>2. irr' \subseteq Devices
      BY <3>1 DEF BootInv, Controller
    <3> QED BY <1>1, <3>1, <3>2, StillController DEF BootInv
  <2>3. UNCHANGED picVars \/ \E id : send_eoi(id)
    BY DEF Cpu, Stub, int_handler, Iretq, thread_entry, idle_thread, timer, fault_handler, Begin
  <2> QED BY <2>1, <2>2, <2>3
<1>6. Program'
  BY <1>1, <1>2, <1>3, <1>4, StillProgram DEF BootInv
<1> QED BY <1>4, <1>5, <1>6 DEF BootInv

(* Until the timer has its handler all lines are masked, and after that    *)
(* all others.                                                             *)
LEMMA AcceptKeeps ==
  ASSUME BootInv, Accept, UNCHANGED mainVars
  PROVE  BootInv'
<1>1. line' = line /\ writes' = writes
  BY DEF mainVars
<1>2. PICK k \in Lowest(Pending) :
        Interrupted(pic["master"].base + k) /\ irr' = irr \ {k}
  BY DEF Accept
<1>3. intr /\ UNCHANGED <<current, ready, regs, idt, handlers, pic>>
  BY DEF Accept
<1>4. line \in Nat /\ line > 110
  <2>1. line \in Nat
    BY DEF BootInv, Program
  <2>2. ASSUME line <= 110
        PROVE  FALSE
    <3>1. rip = "main" /\ intr = (line > 110)
      BY <2>2 DEF BootInv, Program, Enabled, Codes
    <3>2. (line > 110) = FALSE
      BY <2>1, <2>2
    <3> QED BY <1>3, <3>1, <3>2
  <2> QED BY <2>1, <2>2
<1>5. k \in irr \ pic["master"].mask /\ irr \subseteq Lines
  <2>1. k \in Pending
    BY <1>2 DEF Lowest
  <2> QED BY <2>1, InterruptConstants DEF Pending, BootInv, Controller
<1>6. line >= 125 /\ k = 0
  <2>1. ~(line \in 110..122)
    <3>1. line \in 110..122 => pic["master"].mask = Lines
      BY DEF BootInv, Controller
    <3> QED BY <1>5, <3>1
  <2>2. line >= 125
    BY <1>4, <2>1 DEF BootInv, Program
  <2>3. pic["master"].mask = Lines \ {0}
    BY <2>2 DEF BootInv, Controller
  <2> QED BY <1>5, <2>2, <2>3
<1>7. pic["master"].base = LPIC_MASTER_ICW
  BY <1>4 DEF BootInv, Controller, MasterAfter
<1> DEFINE v == LPIC_MASTER_ICW
<1>8. /\ Interrupted(v) /\ v \in Vectors /\ v \in DOMAIN handlers
  <2>1. v + 0 = v /\ PIT_INTERRUPT = v
    BY InterruptConstants DEF PIT_INTERRUPT
  <2>2. Interrupted(v)
    BY <1>2, <1>6, <1>7, <2>1
  <2>3. v \in Vectors
    BY <2>1, BootConstants
  <2>4. v \in DOMAIN handlers
    BY <1>6, <2>1 DEF BootInv, Program
  <2> QED BY <2>2, <2>3, <2>4
<1>9. rip \in Codes
  BY <1>3, <1>6 DEF BootInv, Running, Enabled
<1>10. Queue' /\ Stacked' /\ Running' /\ Enabled' /\ Present' = Present
  <2> HIDE DEF v
  <2>1. UNCHANGED <<current, ready, regs, handlers, line>>
    BY <1>1, <1>3
  <2> QED BY <1>3, <1>8, <1>9, <2>1, InterruptedKeeps
<1>11. Program'
  <2>1. UNCHANGED <<line, idt, handlers>>
    BY <1>1, <1>3
  <2> QED BY <1>4, <1>10, <2>1, StillProgram DEF BootInv
<1>12. Controller'
  <2>1. irr' \subseteq Devices
    BY <1>2 DEF BootInv, Controller
  <2> QED BY <1>1, <1>3, <2>1, StillController DEF BootInv
<1> QED BY <1>10, <1>11, <1>12 DEF BootInv

LEMMA NothingMoves ==
  ASSUME BootInv, UNCHANGED <<threadVars, rip, intr, idt, handlers, taken, line>>
  PROVE  Queue' /\ Stacked' /\ Running' /\ Enabled' /\ Present' = Present /\ Program'
<1>1. Queue' /\ Stacked' /\ Present' = Present
  BY DEF BootInv, Queue, Stacked, Present, threadVars
<1>2. Running'
  BY DEF BootInv, Running, threadVars
<1>3. Enabled'
  BY DEF BootInv, Enabled
<1>4. Program'
  BY <1>1 DEF BootInv, Program
<1> QED BY <1>1, <1>2, <1>3, <1>4

LEMMA RaiseKeeps ==
  ASSUME BootInv, NEW k, Raise(k), UNCHANGED mainVars
  PROVE  BootInv'
<1>1. UNCHANGED <<threadVars, rip, intr, idt, handlers, taken, line, writes, pic>>
  BY DEF Raise, mainVars
<1>2. irr' \subseteq Devices
  BY DEF Raise, BootInv, Controller
<1>3. Controller'
  BY <1>1, <1>2, StillController DEF BootInv
<1> QED BY <1>1, <1>3, NothingMoves DEF BootInv

(* The exceptions of the division and of the page fault.                   *)
LEMMA ExceptionKeeps ==
  ASSUME BootInv, NEW v \in {0, 14}, Interrupted(v), rip \in {"main", "work"}, line > 110,
         UNCHANGED <<current, ready, regs, idt, handlers, picVars, line, writes>>
  PROVE  BootInv'
<1>1. rip \in Codes /\ intr
  BY DEF BootInv, Enabled, Codes
<1>2. v \in Vectors /\ ~(v >= LPIC_MASTER_ICW)
  BY BootConstants, InterruptConstants
<1>3. Queue' /\ Stacked' /\ Running' /\ Enabled' /\ Present' = Present
  BY <1>1, <1>2, InterruptedKeeps
<1>4. Program'
  BY <1>3, StillProgram DEF BootInv
<1>5. Controller'
  <2>1. irr' \subseteq Devices /\ pic' = pic
    BY DEF picVars, BootInv, Controller
  <2> QED BY <2>1, StillController DEF BootInv
<1> QED BY <1>3, <1>4, <1>5 DEF BootInv

-----------------------------------------------------------------------------
(* The steps of main().                                                    *)

LEMMA FlagsKeep ==
  ASSUME BootInv, MainFlags
  PROVE  BootInv'
<1>1. /\ rip = "main" /\ UNCHANGED <<threadVars, rip, idt, handlers, picVars, taken, writes>>
      /\ \/ line = 94 /\ line' = 99 /\ intr' = FALSE
         \/ line = 110 /\ line' = 113 /\ intr' = TRUE
  BY DEF MainFlags, MainAt
<1>2. Queue' /\ Stacked' /\ Present' = Present
  BY <1>1 DEF BootInv, Queue, Stacked, Present, threadVars
<1>3. Running'
  BY <1>1 DEF BootInv, Running, threadVars, Codes, Inside
<1>4. Enabled'
  <2>1. rip' = "main" /\ rip' \notin Inside
    BY <1>1 DEF Inside
  <2>2. intr' = (line' > 110)
    <3>1. CASE line' = 99 /\ intr' = FALSE
      <4>1. (99 > 110) = FALSE
        OBVIOUS
      <4> QED BY <3>1, <4>1, Zenon
    <3>2. CASE line' = 113 /\ intr' = TRUE
      <4>1. (113 > 110) = TRUE
        OBVIOUS
      <4> QED BY <3>2, <4>1, Zenon
    <3> QED BY <1>1, <3>1, <3>2
  <2> QED BY <2>1, <2>2 DEF Enabled
<1>5. Program'
  BY <1>1, <1>2 DEF BootInv, Program
<1>6. Controller'
  BY <1>1 DEF BootInv, Controller, MasterAfter, picVars
<1> QED BY <1>2, <1>3, <1>4, <1>5, <1>6 DEF BootInv

LEMMA HandlersKeep ==
  ASSUME BootInv, MainHandlers
  PROVE  BootInv'
<1>1. /\ rip = "main" /\ UNCHANGED <<threadVars, rip, intr, picVars, taken, writes>>
      /\ \/ line = 99 /\ line' = 102
         \/ line = 102 /\ line' = 103
         \/ line = 103 /\ line' = 106
         \/ line = 120 /\ line' = 122
  BY DEF MainHandlers, MainAt
<1>2. Queue' /\ Stacked' /\ Present' = Present
  BY <1>1 DEF BootInv, Queue, Stacked, Present, threadVars
<1>3. Running'
  BY <1>1 DEF BootInv, Running, threadVars, Codes, Inside
<1>4. Enabled'
  BY <1>1 DEF BootInv, Enabled, Codes, Inside
<1>5. Program'
  <2>1. line' >= 102 => idt' = [v \in Vectors |-> descriptor(int_handlers_asm[v])]
    <3>1. CASE line = 99
      BY <3>1 DEF MainHandlers, MainAt, init_idt
    <3>2. CASE line # 99
      BY <1>1, <3>2 DEF MainHandlers, MainAt, BootInv, Program
    <3> QED BY <3>1, <3>2
  <2>2. \A v \in DOMAIN handlers' : handlers'[v] \in {"timer", "fault_handler"}
    BY DEF MainHandlers, set_int_handler, BootInv, Program
  <2>3. line' >= 122 => PIT_INTERRUPT \in DOMAIN handlers'
    <3>1. CASE line = 120
      BY <3>1 DEF MainHandlers, MainAt, set_int_handler
    <3>2. CASE line # 120
      BY <1>1, <3>2
    <3> QED BY <3>1, <3>2
  <2> QED BY <1>1, <1>2, <2>1, <2>2, <2>3 DEF BootInv, Program
<1>6. Controller'
  BY <1>1 DEF BootInv, Controller, MasterAfter, picVars
<1> QED BY <1>2, <1>3, <1>4, <1>5, <1>6 DEF BootInv

LEMMA Words10 ==
  /\ Len(init_pic) = 10
  /\ init_pic[1] = Write("master", "command", "ICW1")
  /\ init_pic[2] = Write("master", "data", LPIC_MASTER_ICW)
  /\ init_pic[3] = Write("master", "data", "cascade")
  /\ init_pic[4] = Write("master", "data", "ICW4")
  /\ \A k \in {5, 6, 7, 8, 10} : init_pic[k].chip = "slave"
  /\ init_pic[9] = Write("master", "data", Lines)
BY DEF init_pic, InitChip, Write

LEMMA WriteKeeps ==
  ASSUME BootInv, MainAt(106, IF writes' = Len(init_pic) THEN 110 ELSE 106),
         writes < Len(init_pic), writes' = writes + 1, out8(init_pic[writes'])
  PROVE  Controller'
<1> DEFINE w == init_pic[writes']
           m == pic["master"]
<1>1. /\ line = 106 /\ writes \in 0..9 /\ writes' \in 1..10
      /\ line' = IF writes' = 10 THEN 110 ELSE 106
  BY Words10 DEF MainAt, BootInv, Controller
<1>2. /\ pic' = [pic EXCEPT ![w.chip] = Written(@, w)]
      /\ irr' \subseteq irr
  BY DEF out8
<1>3. /\ pic = [chip \in {"master", "slave"} |-> pic[chip]] /\ irr \subseteq Devices
      /\ MasterAfter(m, writes)
  BY <1>1 DEF BootInv, Controller
<1>4. /\ pic' = [chip \in {"master", "slave"} |-> pic'[chip]]
      /\ pic'["master"] = IF w.chip = "master" THEN Written(m, w) ELSE m
  <2> HIDE DEF w
  <2> QED BY <1>2, <1>3
<1> DEFINE n == pic'["master"]
           k == writes'
<1>5. MasterAfter(n, k)
  <2>1. /\ m \in [next : Nat, base : Nat, mask : SUBSET Lines]
        /\ k = writes + 1 /\ writes \in 0..9 /\ k \in 1..10
    BY <1>1, <1>3 DEF MasterAfter
  <2>2. CASE k \in {5, 6, 7, 8, 10}
    <3>1. w.chip = "slave"
      BY <2>2, Words10
    <3>2. n = m
      BY <1>4, <3>1
    <3> HIDE DEF n, m, k
    <3> QED BY <1>3, <2>1, <2>2, <3>2 DEF MasterAfter
  <2>3. CASE k = 1
    <3>1. w = Write("master", "command", "ICW1")
      BY <2>3, Words10
    <3>2. w.chip = "master" /\ w.reg = "command" /\ w.value = "ICW1"
      BY <3>1 DEF Write
    <3> HIDE DEF w
    <3>3. n = [m EXCEPT !.next = 2, !.mask = {}]
      BY <1>4, <3>2 DEF Written
    <3> HIDE DEF n, m, k
    <3>4. n \in [next : Nat, base : Nat, mask : SUBSET Lines]
      BY <2>1, <3>3
    <3>5. n.next = 2
      BY <2>1, <3>3
    <3> QED BY <2>3, <3>4, <3>5 DEF MasterAfter
  <2>4. CASE k = 2
    <3>1. w = Write("master", "data", LPIC_MASTER_ICW)
      BY <2>4, Words10
    <3>2. w.chip = "master" /\ w.reg = "data" /\ w.value = LPIC_MASTER_ICW
      BY <3>1 DEF Write
    <3> HIDE DEF w
    <3>3. m.next = 2
      BY <1>3, <2>1, <2>4 DEF MasterAfter
    <3>4. n = [m EXCEPT !.next = 3, !.base = LPIC_MASTER_ICW]
      BY <1>4, <3>2, <3>3 DEF Written
    <3> HIDE DEF n, m, k
    <3>5. LPIC_MASTER_ICW \in Nat
      BY InterruptConstants
    <3>6. n \in [next : Nat, base : Nat, mask : SUBSET Lines]
      BY <2>1, <3>4, <3>5
    <3>7. n.next = 3 /\ n.base = LPIC_MASTER_ICW
      BY <2>1, <3>4
    <3> QED BY <2>4, <3>6, <3>7 DEF MasterAfter
  <2>5. CASE k \in {3, 4}
    <3>1. w.chip = "master" /\ w.reg = "data"
      <4>1. w = Write("master", "data", "cascade") \/ w = Write("master", "data", "ICW4")
        BY <2>5, Words10
      <4> HIDE DEF w
      <4> QED BY <4>1 DEF Write
    <3> HIDE DEF w
    <3>2. m.next = k /\ m.base = LPIC_MASTER_ICW
      BY <1>3, <2>1, <2>5 DEF MasterAfter
    <3>3. n = [m EXCEPT !.next = (m.next + 1) % 5]
      BY <1>4, <2>5, <3>1, <3>2 DEF Written
    <3> HIDE DEF n, m, k
    <3>4. n = [m EXCEPT !.next = IF k = 3 THEN 4 ELSE 0]
      <4>1. (3 + 1) % 5 = 4 /\ (4 + 1) % 5 = 0
        OBVIOUS
      <4> QED BY <2>5, <3>2, <3>3, <4>1
    <3>5. /\ n \in [next : Nat, base : Nat, mask : SUBSET Lines]
          /\ n.base = LPIC_MASTER_ICW
          /\ n.next = IF k = 3 THEN 4 ELSE 0
      BY <2>1, <3>2, <3>4
    <3> QED BY <2>5, <3>5 DEF MasterAfter
  <2>6. CASE k = 9
    <3>1. w = Write("master", "data", Lines)
      BY <2>6, Words10
    <3>2. w.chip = "master" /\ w.reg = "data" /\ w.value = Lines
      BY <3>1 DEF Write
    <3> HIDE DEF w
    <3>3. m.next = 0 /\ m.base = LPIC_MASTER_ICW
      BY <1>3, <2>1, <2>6 DEF MasterAfter
    <3>4. n = [m EXCEPT !.mask = Lines]
      BY <1>4, <3>2, <3>3 DEF Written
    <3> HIDE DEF n, m, k
    <3> QED BY <2>1, <2>6, <3>3, <3>4 DEF MasterAfter
  <2> HIDE DEF k
  <2>7. k \in {5, 6, 7, 8, 10} \/ k = 1 \/ k = 2 \/ k \in {3, 4} \/ k = 9
    BY <2>1
  <2> QED BY <2>2, <2>3, <2>4, <2>5, <2>6, <2>7
<1>6. CASE k = 10
  <2>1. line' = 110
    BY <1>1, <1>6
  <2>2. MasterAfter(n, 4) /\ n.mask = Lines
    <3> HIDE DEF n
    <3> QED BY <1>5, <1>6 DEF MasterAfter
  <2> QED BY <1>1, <1>2, <1>3, <1>4, <2>1, <2>2 DEF Controller
<1>7. CASE k # 10
  <2>1. line' = 106 /\ k \in 1..9
    BY <1>1, <1>7
  <2> QED BY <1>2, <1>3, <1>4, <1>5, <2>1 DEF Controller
<1> QED BY <1>6, <1>7

LEMMA PicKeeps ==
  ASSUME BootInv, MainPic
  PROVE  BootInv'
<1>1. /\ rip = "main" /\ UNCHANGED <<threadVars, rip, intr, idt, handlers, taken>>
      /\ \/ line = 106 /\ line' \in {106, 110}
         \/ line = 122 /\ line' = 125
  BY DEF MainPic, MainAt
<1>2. Queue' /\ Stacked' /\ Present' = Present
  BY <1>1 DEF BootInv, Queue, Stacked, Present, threadVars
<1>3. Running'
  BY <1>1 DEF BootInv, Running, threadVars, Codes, Inside
<1>4. Enabled'
  <2>1. rip' = "main" /\ rip' \notin Inside /\ rip \in Codes
    BY <1>1 DEF Inside, Codes
  <2>2. (106 > 110) = FALSE /\ (110 > 110) = FALSE /\ (122 > 110) = TRUE /\ (125 > 110) = TRUE
    OBVIOUS
  <2>3. intr = (line > 110)
    BY <2>1 DEF BootInv, Enabled
  <2>4. \/ line = 106 /\ line' = 106
        \/ line = 106 /\ line' = 110
        \/ line = 122 /\ line' = 125
    BY <1>1
  <2>5. intr' = (line' > 110)
    <3>1. intr' = intr
      BY <1>1
    <3>2. (line > 110) = (line' > 110)
      BY <2>2, <2>4
    <3> QED BY <2>3, <3>1, <3>2, Zenon
  <2> QED BY <2>1, <2>5 DEF Enabled
<1>5. Program'
  BY <1>1, <1>2 DEF BootInv, Program
<1>6. Controller'
  <2>1. CASE line = 106
    <3>1. /\ writes < Len(init_pic) /\ writes' = writes + 1
          /\ MainAt(106, IF writes' = Len(init_pic) THEN 110 ELSE 106)
          /\ out8(init_pic[writes'])
      BY <2>1 DEF MainPic, MainAt
    <3> QED BY <3>1, WriteKeeps
  <2>2. CASE line = 122
    <3> DEFINE m == pic["master"]
               n == pic'["master"]
               w == Write("master", "data", m.mask \ {0})
    <3>1. line' = 125 /\ writes' = writes /\ pic_unmask(PIT_INTERRUPT)
      BY <2>2 DEF MainPic, MainAt
    <3>2. /\ pic = [chip \in {"master", "slave"} |-> pic[chip]] /\ irr \subseteq Devices
          /\ MasterAfter(m, 4) /\ m.mask = Lines /\ writes \in Nat
      BY <2>2 DEF BootInv, Controller
    <3>3. ChipOf(PIT_INTERRUPT) = "master" /\ LineOf(PIT_INTERRUPT) = 0
      BY InterruptConstants DEF ChipOf, LineOf, PIT_INTERRUPT
    <3>4. out8(w)
      BY <3>1, <3>3 DEF pic_unmask
    <3>5. w.chip = "master" /\ w.reg = "data" /\ w.value = Lines \ {0}
      BY <3>2 DEF Write
    <3> HIDE DEF w
    <3>6. /\ pic' = [pic EXCEPT !["master"] = Written(m, w)] /\ irr' = irr
      BY <3>4, <3>5 DEF out8
    <3>7. m.next = 0
      BY <3>2 DEF MasterAfter
    <3>8. Written(m, w) = [m EXCEPT !.mask = Lines \ {0}]
      <4> HIDE DEF m
      <4> QED BY <3>5, <3>7 DEF Written
    <3>9. /\ n = [m EXCEPT !.mask = Lines \ {0}]
          /\ pic' = [chip \in {"master", "slave"} |-> pic'[chip]]
      BY <3>2, <3>6, <3>8
    <3> HIDE DEF m, n
    <3>10. MasterAfter(n, 4) /\ n.mask = Lines \ {0}
      BY <3>2, <3>9 DEF MasterAfter
    <3> QED BY <3>1, <3>2, <3>6, <3>9, <3>10 DEF Controller, n
  <2> QED BY <1>1, <2>1, <2>2
<1> QED BY <1>2, <1>3, <1>4, <1>5, <1>6 DEF BootInv

LEMMA MemoryKeeps ==
  ASSUME BootInv, MainMemory
  PROVE  BootInv'
<1>1. /\ rip = "main" /\ line = 113
      /\ UNCHANGED <<threadVars, intr, idt, handlers, picVars, taken, writes>>
      /\ \/ line' = 113 /\ rip' \in {"main", "hlt"}
         \/ line' = 116 /\ rip' = "main"
  BY DEF MainMemory, MainAt
<1>2. Queue' /\ Stacked' /\ Present' = Present
  BY <1>1 DEF BootInv, Queue, Stacked, Present, threadVars
<1>3. Running'
  BY <1>1 DEF BootInv, Running, threadVars, Codes, Inside
<1>4. Enabled'
  <2>1. rip' \notin Inside /\ rip' \notin {"entry", "int_handler"} /\ rip \in Codes
    BY <1>1 DEF Inside, Codes
  <2>2. (113 > 110) = TRUE /\ (116 > 110) = TRUE
    OBVIOUS
  <2>3. intr = (line > 110)
    BY <2>1 DEF BootInv, Enabled
  <2>4. intr' = (line' > 110)
    BY <1>1, <2>2, <2>3, Zenon
  <2>5. rip' = "hlt" => line' = 113
    BY <1>1
  <2> QED BY <2>1, <2>4, <2>5 DEF Enabled
<1>5. Program'
  BY <1>1, <1>2 DEF BootInv, Program
<1>6. Controller'
  BY <1>1 DEF BootInv, Controller, picVars
<1> QED BY <1>2, <1>3, <1>4, <1>5, <1>6 DEF BootInv

(* A new thread.                                                           *)
LEMMA CreateKeeps ==
  ASSUME Queue, Stacked, NEW t \in Threads \ Present, NEW entry \in {"idle_thread", "busy"},
         create_thread(t, entry), current' = current
  PROVE  /\ Queue' /\ Stacked' /\ stacks'[current] = stacks[current]
         /\ Present' = Present \cup {t}
<1> DEFINE s == FirstFrame(t, entry)
<1>1. /\ current \in Threads /\ ready \in Seq(Threads) /\ Distinct(ready)
      /\ current \notin Members(ready) /\ t # current /\ t \notin Members(ready)
      /\ t \in Threads
  BY DEF Queue, Present
<1>2. stacks' = [stacks EXCEPT ![t] = s] /\ ready' = Append(ready, t)
  BY DEF create_thread
<1>3. Suspended(t, s)
  <2>1. s \in Seq({"thread_entry", TRUE, Arg(t), entry, 0}) /\ Len(s) = 8
    BY DEF FirstFrame
  <2>2. s[1] = "thread_entry" /\ s[2] = TRUE /\ s[3] = Arg(t) /\ s[4] = entry
    BY DEF FirstFrame
  <2> HIDE DEF s
  <2>3. Words(s) /\ Len(s) = 8
    BY <2>1, WordsSeq
  <2>4. SuspendedAt(t, s, 0)
    BY <2>2, <2>3 DEF SuspendedAt
  <2> QED BY <2>3, <2>4 DEF Suspended
<1> HIDE DEF s
<1>4. Members(ready)' = Members(ready) \cup {t}
  <2>1. Members(Append(ready, t)) = Members(ready) \cup {t}
    BY <1>1, MembersAppend
  <2>2. Members(ready)' = Members(ready')
    BY DEF Members
  <2> QED BY <1>2, <2>1, <2>2
<1>5. Queue'
  <2> DEFINE r == Append(ready, t)
             n == Len(ready)
  <2>1. /\ r \in Seq(Threads) /\ Len(r) = n + 1 /\ n \in Nat
        /\ \A k \in 1..(n+1) : r[k] = IF k = n + 1 THEN t ELSE ready[k]
    BY <1>1
  <2> HIDE DEF r
  <2>2. \A k \in 1..n : ready[k] # t
    BY <1>1 DEF Members
  <2>3. \A j, k \in 1..n : ready[j] = ready[k] => j = k
    BY <1>1 DEF Distinct
  <2>4. Distinct(r)
    <3> HIDE DEF n
    <3>1. \A k \in 1..(n+1) : k = n + 1 \/ k \in 1..n
      BY <2>1
    <3> QED BY <2>1, <2>2, <2>3, <3>1 DEF Distinct
  <2>5. current \notin Members(ready)'
    BY <1>1, <1>4
  <2> QED BY <1>1, <1>2, <2>1, <2>4, <2>5 DEF Queue, r
<1>6. Present' = Present \cup {t}
  BY <1>4 DEF Present
<1>7. /\ stacks' = [u \in Threads |-> stacks'[u]] /\ stacks'[t] = s
      /\ \A u \in Threads \ {t} : stacks'[u] = stacks[u]
  BY <1>1, <1>2 DEF Stacked
<1>8. Stacked'
  <2>1. ASSUME NEW u \in Members(ready)'
        PROVE  Suspended(u, stacks'[u])
    <3>1. CASE u = t
      BY <1>3, <1>7, <3>1
    <3>2. CASE u # t
      <4>1. u \in Members(ready) /\ u \in Threads
        <5>1. u \in Members(ready)
          BY <1>4, <3>2
        <5>2. Members(ready) \subseteq Threads
          BY <1>1 DEF Members
        <5> QED BY <5>1, <5>2
      <4>2. Suspended(u, stacks[u])
        BY <4>1 DEF Stacked
      <4> QED BY <1>7, <3>2, <4>1, <4>2
    <3> QED BY <3>1, <3>2
  <2>2. ASSUME NEW u \in Threads \ Present'
        PROVE  stacks'[u] = <<>>
    <3>1. u \in Threads \ Present /\ u # t
      BY <1>6
    <3> QED BY <1>7, <3>1 DEF Stacked
  <2> QED BY <1>7, <2>1, <2>2 DEF Stacked
<1> QED BY <1>1, <1>5, <1>6, <1>7, <1>8

LEMMA ThreadsKeep ==
  ASSUME BootInv, MainThreads
  PROVE  BootInv'
<1>1. /\ rip = "main" /\ UNCHANGED <<current, regs, intr, idt, handlers, picVars, taken, writes>>
      /\ line' > 110 /\ line > 110
  BY DEF MainThreads, MainAt
<1>2. PICK t, entry :
        /\ create_thread(t, entry) /\ t \in Threads \ Present /\ entry \in {"idle_thread", "busy"}
        /\ \/ line = 116 /\ line' = 120 /\ t = Idle /\ rip' = "main"
           \/ line = 125 /\ line' = 126 /\ t = Thread1 /\ rip' = "main"
           \/ line = 126 /\ line' = 127 /\ t = Thread2 /\ rip' = "work"
  BY InterruptConstants, BootConstants DEF MainThreads, MainAt, BootInv, Program
<1>3. /\ Queue' /\ Stacked' /\ stacks'[current] = stacks[current]
      /\ Present' = Present \cup {t}
  BY <1>1, <1>2, CreateKeeps DEF BootInv
<1> DEFINE s == stacks[current]
<1>4. Words(s) /\ AtCode(current, "main", Len(s), regs) /\ intr = TRUE
  BY <1>1 DEF BootInv, Running, Enabled, Codes
<1>5. rip' \in {"main", "work"} /\ intr' = TRUE
  BY <1>1, <1>2, <1>4
<1>6. AtCode(current, rip', Len(s), regs) /\ Len(s) \in 0..1
  BY <1>4, <1>5 DEF AtCode, Codes
<1>7. Running'
  <2>1. rip' \in Codes
    BY <1>5 DEF Codes
  <2> HIDE DEF s
  <2>2. stacks'[current'] = s /\ AtCode(current', rip', Len(s), regs')
    BY <1>1, <1>3, <1>6 DEF s
  <2> QED BY <1>4, <1>6, <2>1, <2>2, RunsCode
<1>8. Enabled'
  <2>1. rip' \notin Inside /\ rip' \notin {"entry", "int_handler", "hlt"}
    BY <1>5 DEF Inside
  <2>2. intr' = (line' > 110)
    <3>1. (line' > 110) = TRUE
      BY <1>1
    <3> QED BY <1>5, <3>1
  <2> QED BY <2>1, <2>2 DEF Enabled
<1>9. Program'
  BY <1>1, <1>2, <1>3, BootConstants, InterruptConstants DEF BootInv, Program
<1>10. Controller'
  BY <1>1, <1>2 DEF BootInv, Controller, picVars
<1> QED BY <1>3, <1>7, <1>8, <1>9, <1>10 DEF BootInv

-----------------------------------------------------------------------------
(* The theorems.                                                           *)

LEMMA BootInit ==
  ASSUME Init
  PROVE  BootInv
<1>1. /\ current = Main /\ ready = <<>> /\ stacks = [t \in Threads |-> <<>>]
      /\ regs = Own(Main) /\ rip = "main" /\ intr = FALSE /\ idt = <<>> /\ handlers = <<>>
      /\ pic = [chip \in {"master", "slave"} |->
                  [next |-> 0, base |-> IF chip = "master" THEN 8 ELSE 112, mask |-> {}]]
      /\ irr = {} /\ line = 94 /\ writes = 0
  BY DEF Init, IInit
<1>2. Main \in Threads /\ {Idle, Thread1, Thread2} \cap {Main} = {}
  BY InterruptConstants, BootConstants
<1>3. Members(ready) = {} /\ ready \in Seq(Threads) /\ Distinct(ready)
  BY <1>1 DEF Members, Distinct
<1>4. Queue /\ Stacked /\ Present = {Main}
  BY <1>1, <1>2, <1>3 DEF Queue, Stacked, Present
<1>5. Running
  <2>1. Words(stacks[current]) /\ Len(stacks[current]) = 0
    BY <1>1, <1>2, WordsOf
  <2>2. AtCode(Main, "main", 0, Own(Main))
    BY DEF AtCode, Codes, Own
  <2> QED BY <1>1, <2>1, <2>2 DEF Running, Codes, Inside
<1>6. Enabled
  <2>1. (94 > 110) = FALSE
    OBVIOUS
  <2> QED BY <1>1, <2>1 DEF Enabled, Inside
<1>7. Program
  <2>1. DOMAIN handlers = {}
    BY <1>1
  <2>2. Idle \notin Present /\ Thread1 \notin Present /\ Thread2 \notin Present
    BY <1>2, <1>4
  <2> QED BY <1>1, <2>1, <2>2 DEF Program
<1>8. Controller
  BY <1>1 DEF Controller, MasterAfter
<1> QED BY <1>4, <1>5, <1>6, <1>7, <1>8 DEF BootInv

LEMMA BootStep ==
  ASSUME BootInv, [Next]_vars
  PROVE  BootInv'
<1>1. ASSUME UNCHANGED <<intVars, mainVars>>
      PROVE  BootInv'
  <2>1. UNCHANGED <<threadVars, rip, intr, idt, handlers, taken, line, writes, pic, irr>>
    BY <1>1 DEF intVars, mainVars, picVars
  <2>2. Controller'
    BY <2>1 DEF BootInv, Controller
  <2> QED BY <2>1, <2>2, NothingMoves DEF BootInv
<1>2. CASE Bootstrapping
  BY <1>1, <1>2 DEF Bootstrapping
<1>3. CASE MainStep
  <2>1. CASE MainFlags
    BY <2>1, FlagsKeep
  <2>2. CASE MainHandlers
    BY <2>2, HandlersKeep
  <2>3. CASE MainPic
    BY <2>3, PicKeeps
  <2>4. CASE MainMemory
    BY <2>4, MemoryKeeps
  <2>5. CASE DivideError
    <3>1. /\ Interrupted(0) /\ rip = "main" /\ line > 110
          /\ UNCHANGED <<current, ready, regs, idt, handlers, picVars, line, writes>>
      BY <2>5 DEF DivideError, MainAt
    <3> QED BY <3>1, ExceptionKeeps
  <2>6. CASE MainThreads
    BY <2>6, ThreadsKeep
  <2> QED BY <1>3, <2>1, <2>2, <2>3, <2>4, <2>5, <2>6 DEF MainStep, main
<1>4. CASE PageFault
  <2>1. /\ Interrupted(14) /\ rip = "work"
        /\ UNCHANGED <<current, ready, regs, idt, handlers, picVars, line, writes>>
    BY <1>4 DEF PageFault
  <2>2. line > 110
    BY <2>1 DEF BootInv, Program
  <2> QED BY <2>1, <2>2, ExceptionKeeps
<1>5. CASE Processor
  BY <1>5, CpuKeeps DEF Processor, Interrupt
<1>6. CASE Accepted
  BY <1>6, AcceptKeeps DEF Accepted, Interrupt
<1>7. CASE Tick
  BY <1>7, RaiseKeeps DEF Tick, Interrupt
<1>8. CASE OtherDevice
  BY <1>8, RaiseKeeps DEF OtherDevice, Interrupt
<1>9. CASE UNCHANGED vars
  BY <1>1, <1>9 DEF vars
<1>10. CASE Halted
  BY <1>9, <1>10 DEF Halted
<1> QED BY <1>2, <1>3, <1>4, <1>5, <1>6, <1>7, <1>8, <1>9, <1>10 DEF Next

(* The stacks of all threads, the flag, the controller and the progress of *)
(* main() fit together in every reachable state.                           *)
THEOREM BootInvariant == Spec => []BootInv
BY BootInit, BootStep, PTL DEF Spec

(* At the call of int_handler the struct on the stack tells the vector     *)
(* that was taken, with or without an error code, and the code that was    *)
(* interrupted; an interrupt of a device finds its handler.                *)
THEOREM InterruptsDelivered == Spec => []Delivered
<1>1. ASSUME BootInv
      PROVE  Delivered
  <2> SUFFICES ASSUME rip = "int_handler" PROVE Delivered
    BY DEF Delivered
  <2> DEFINE s == stacks[current]
             v == taken.vector
  <2>1. Framed(current, s, v) /\ (v >= LPIC_MASTER_ICW => v \in DOMAIN handlers)
    BY <1>1 DEF BootInv, Running, Enabled, Inside
  <2>2. PICK g : \E b \in 0..1, code \in Codes :
          Pushed(current, s, b, code, g) /\ Len(s) = b + 23 /\ s[b+7] = v
    BY <2>1 DEF Framed
  <2>3. PICK b \in 0..1, code \in Codes :
          Pushed(current, s, b, code, g) /\ Len(s) = b + 23 /\ s[b+7] = v
    BY <2>2
  <2>4. s[b+4] = "cs" /\ s[b+5] = code /\ code \in Codes
    BY <2>3 DEF Pushed
  <2>5. Len(s) - 16 = b + 7 /\ Len(s) - 19 = b + 4 /\ Len(s) - 18 = b + 5
    <3> DEFINE l == Len(s)
    <3>1. l = b + 23
      BY <2>3
    <3> HIDE DEF l
    <3>2. l - 16 = b + 7 /\ l - 19 = b + 4 /\ l - 18 = b + 5
      BY <3>1
    <3> QED BY <3>2 DEF l
  <2>6. Info("interrupt_id") = v /\ Info("cs") = "cs" /\ Info("rip") = code
    BY <2>3, <2>4, <2>5, InfoIs
  <2> QED BY <2>1, <2>4, <2>6 DEF Delivered, Codes
<1> QED BY <1>1, BootInvariant, PTL

(* The code of a thread goes on after any number of interrupts and         *)
(* switches with its own registers, on an empty stack but for the return   *)
(* address, with the interrupts enabled, and is called with its own        *)
(* argument; no stack holds more than one interrupt and one yield.         *)
THEOREM ContextsRestored == Spec => []Context
<1>1. ASSUME BootInv
      PROVE  Context
  <2>1. rip \in {"main", "work"} => regs = Own(current)
    BY <1>1 DEF BootInv, Running, Codes, AtCode
  <2>2. rip = "busy" => regs["rdi"] = Arg(current)
    BY <1>1 DEF BootInv, Running, Codes, AtCode
  <2>3. rip = "work" => intr /\ Len(stacks[current]) <= 1
    <3> SUFFICES ASSUME rip = "work" PROVE intr /\ Len(stacks[current]) <= 1
      OBVIOUS
    <3>1. (line > 110) = TRUE
      BY <1>1 DEF BootInv, Program
    <3>2. intr = (line > 110)
      BY <1>1 DEF BootInv, Enabled, Codes
    <3> DEFINE l == Len(stacks[current])
    <3>3. l \in 0..1
      BY <1>1 DEF BootInv, Running, AtCode, Codes
    <3> HIDE DEF l
    <3>4. l <= 1
      BY <3>3
    <3> QED BY <3>1, <3>2, <3>4 DEF l
  <2>4. ASSUME NEW t \in Threads
        PROVE  Len(stacks[t]) <= 32
    <3>1. CASE t = current
      <4> DEFINE l == Len(stacks[t])
      <4>1. l <= 24 /\ l \in Nat
        BY <1>1, <3>1 DEF BootInv, Running, Words
      <4> HIDE DEF l
      <4>2. l <= 32
        BY <4>1
      <4> QED BY <4>2 DEF l
    <3>2. CASE t \in Members(ready)
      <4> DEFINE s == stacks[t]
                 n == Len(s) - 8
      <4>1. SuspendedAt(t, s, n)
        BY <1>1, <3>2 DEF BootInv, Stacked, Suspended
      <4> HIDE DEF s, n
      <4>2. Words(s) /\ n \in Nat /\ Len(s) = n + 8
        BY <4>1 DEF SuspendedAt
      <4>3. n <= 24
        <5>1. CASE \E v : Framed(t, SubSeq(s, 1, n), v)
          <6>1. Len(SubSeq(s, 1, n)) <= 24
            BY <5>1, FrameSize
          <6>2. Len(SubSeq(s, 1, n)) = n
            <7>1. Sized(s, n + 8) /\ n \in 0..(n+8)
              BY <4>2 DEF Sized
            <7> DEFINE m == n + 8
            <7>2. Sized(s, m) /\ n \in 0..m
              BY <7>1
            <7> HIDE DEF m
            <7> QED BY <7>2, Prefix
          <6> QED BY <6>1, <6>2
        <5>2. CASE n \in 0..1
          BY <5>2
        <5> QED BY <4>1, <4>2, <5>1, <5>2 DEF SuspendedAt
      <4>4. Len(s) <= 32
        BY <4>2, <4>3
      <4> QED BY <4>4 DEF s
    <3>3. CASE t \notin Present
      <4>1. stacks[t] = <<>>
        BY <1>1, <3>3 DEF BootInv, Stacked
      <4> QED BY <4>1
    <3> QED BY <3>1, <3>2, <3>3 DEF Present
  <2>5. 1 + InterruptWords + YieldWords = 32
    BY InfoNames, YieldNames DEF InterruptWords, YieldWords
  <2> QED BY <2>1, <2>2, <2>3, <2>4, <2>5 DEF Context
<1> QED BY <1>1, BootInvariant, PTL

-----------------------------------------------------------------------------
(* The page tables of bootstrap.S.                                         *)

(* Large page q*E + r in the second level from q*E on, for r < E, from     *)
(* entry g of the first.                                                   *)
LEMMA PageIs ==
  ASSUME NEW g \in Nat, NEW m \in 0..(ENTRIES-1), NEW r \in 0..(ENTRIES-1), NEW q \in Nat,
         boot_tables[g] = Table(1), boot_tables[ENTRIES + m] = Table(q + 2),
         boot_tables[2 * ENTRIES + (q * ENTRIES + r)] = Large(q * ENTRIES + r)
  PROVE  PageAt((g * ENTRIES + m) * ENTRIES + r) = q * ENTRIES + r
<1> DEFINE e == ENTRIES
           a == g * e
           b == q * e
           h == a + m
           c == h * e
           v == c + r
<1>1. e \in Nat \ {0}
  BY BootstrapConstants
<1>2. a \in Nat /\ h \in Nat /\ b \in Nat
  BY <1>1, SMT
<1>3. v \div e = h /\ v % e = r /\ v \in Nat
  <2> HIDE DEF h, e
  <2>1. c \in Nat /\ v \in Nat
    BY <1>1, <1>2, SMT
  <2>2. c = e * h
    BY <1>1, <1>2
  <2>3. r \in 0..(e-1)
    BY DEF e
  <2> QED BY <1>1, <1>2, <2>1, <2>2, <2>3, DivideIs
<1>4. h \div e = g /\ h % e = m
  <2>1. a = e * g /\ m \in 0..(e-1)
    BY <1>1
  <2> HIDE DEF e, a
  <2> QED BY <1>1, <2>1, DivideIs
<1>5. v \div (e * e) = g
  <2> HIDE DEF v, h, e
  <2> QED BY <1>1, <1>3, <1>4, DividedTwice
<1>6. 1 * e + m = e + m /\ (q + 2) * e + r = 2 * e + (b + r)
  BY <1>1, SMT
<1> HIDE DEF e, a, b, h, c, v
<1>7. PageAt(v) = b + r
  <2>1. boot_tables[v \div (e * e)] = Table(1)
    BY <1>5
  <2>2. boot_tables[1 * e + ((v \div e) % e)] = Table(q + 2)
    BY <1>3, <1>4, <1>6 DEF e
  <2>3. boot_tables[(q + 2) * e + (v % e)] = Large(b + r)
    BY <1>3, <1>6 DEF e, b
  <2> QED BY <2>1, <2>2, <2>3 DEF PageAt, Table, Large, e
<1> QED BY <1>7 DEF v, c, h, a, b, e

(* The tables when n large pages are entered.                              *)
Filled(bt, n) ==
  /\ \A k \in {0, ENTRIES \div 2, ENTRIES - 1} : bt[k] = Table(1)
  /\ \A q \in 0..3 : bt[ENTRIES + q] = Table(q + 2)
  /\ \A q \in 0..1 : bt[ENTRIES + (ENTRIES - 2 + q)] = Table(q + 2)
  /\ \A k \in 0..(n-1) : bt[2 * ENTRIES + k] = Large(k)

TablesInv ==
  /\ boot_tables = [k \in 0..(6 * ENTRIES - 1) |-> boot_tables[k]]
  /\ where = "fill" => /\ eax \in 0..(4 * ENTRIES - 1) /\ edx = 2 * ENTRIES + eax
                       /\ ecx = 4 * ENTRIES - eax /\ Filled(boot_tables, eax)
  /\ where \in {"load", "enter", "paging", "gdt", "start64", "main"} => Filled(boot_tables, 4 * ENTRIES)
  /\ where \in {"enter", "paging"} => {"pae", "cr3"} \subseteq mode
  /\ where = "paging" => "lme" \in mode
  /\ "paging" \in mode => /\ {"pae", "cr3", "lme"} \subseteq mode
                          /\ where \in {"gdt", "start64", "main"}

LEMMA PagesFound ==
  ASSUME Filled(boot_tables, 4 * ENTRIES)
  PROVE  /\ \A p \in 0..(4 * ENTRIES - 1) :
              PageAt(p) = p /\ PageAt((ENTRIES \div 2) * ENTRIES * ENTRIES + p) = p
         /\ \A p \in 0..(2 * ENTRIES - 1) :
              PageAt(ENTRIES * ENTRIES * ENTRIES - 2 * ENTRIES + p) = p
<1> DEFINE e == ENTRIES
           f == e \div 2
<1>1. e \in Nat \ {0} /\ e >= 6
  BY BootstrapConstants
<1>2. f \in Nat
  <2> HIDE DEF e
  <2> QED BY <1>1
<1>3. ASSUME NEW n \in 1..4, NEW p \in 0..(n * e - 1)
      PROVE  \E q \in 0..(n-1), r \in 0..(e-1) : p = q * e + r
  <2> DEFINE q == p \div e
             r == p % e
  <2> HIDE DEF e
  <2>1. p \in Nat /\ p < n * e
    BY <1>1, SMT
  <2>2. q \in Nat /\ r \in 0..(e-1) /\ p = e * q + r
    BY <1>1, <2>1, ModIs
  <2> HIDE DEF q, r
  <2>3. q < n
    <3> SUFFICES ASSUME q >= n PROVE FALSE
      BY <2>2
    <3>1. PICK d \in Nat : q = n + d
      <4>1. q - n \in Nat /\ q = n + (q - n)
        BY <2>2
      <4> QED BY <4>1
    <3>2. p = n * e + (d * e + r)
      BY <1>1, <2>2, <3>1, SMT
    <3>3. d * e + r \in Nat
      BY <1>1, <2>2, SMT
    <3>4. n * e \in Nat
      BY <1>1, SMT
    <3> QED BY <2>1, <3>2, <3>3, <3>4
  <2>4. p = q * e + r
    BY <1>1, <2>2, SMT
  <2> QED BY <2>2, <2>3, <2>4
<1>4. ASSUME NEW g \in {0, f, e - 1}, NEW m \in 0..(e-1), NEW q \in 0..3, NEW r \in 0..(e-1),
             boot_tables[e + m] = Table(q + 2)
      PROVE  PageAt((g * e + m) * e + r) = q * e + r
  <2>1. boot_tables[g] = Table(1) /\ g \in Nat
    BY <1>1, <1>2 DEF Filled
  <2>2. q * e + r \in 0..(4 * e - 1)
    <3> HIDE DEF e
    <3> QED BY <1>1
  <2>3. boot_tables[2 * e + (q * e + r)] = Large(q * e + r)
    <3> DEFINE k == q * e + r
    <3>1. k \in 0..(4 * e - 1)
      BY <2>2
    <3> HIDE DEF k
    <3> QED BY <3>1 DEF Filled, k
  <2> QED BY <1>4, <2>1, <2>3, PageIs
<1>5. ASSUME NEW p \in 0..(4 * e - 1)
      PROVE  PageAt(p) = p /\ PageAt(f * e * e + p) = p
  <2>1. PICK q \in 0..3, r \in 0..(e-1) : p = q * e + r
    BY <1>3
  <2>2. q \in 0..(e-1) /\ boot_tables[e + q] = Table(q + 2)
    BY <1>1 DEF Filled
  <2>3. PageAt((0 * e + q) * e + r) = p /\ PageAt((f * e + q) * e + r) = p
    BY <1>4, <2>1, <2>2
  <2> HIDE DEF e, f
  <2>4. (0 * e + q) * e + r = p /\ (f * e + q) * e + r = f * e * e + p
    BY <1>1, <1>2, <2>1, SMT
  <2> QED BY <2>3, <2>4
<1>6. ASSUME NEW p \in 0..(2 * e - 1)
      PROVE  PageAt(e * e * e - 2 * e + p) = p
  <2>1. PICK q \in 0..1, r \in 0..(e-1) : p = q * e + r
    BY <1>3
  <2> DEFINE m == e - 2 + q
  <2>2. m \in 0..(e-1) /\ q \in 0..3 /\ boot_tables[e + m] = Table(q + 2)
    BY <1>1 DEF Filled
  <2>3. PageAt(((e - 1) * e + m) * e + r) = p
    <3> HIDE DEF m
    <3> QED BY <1>4, <2>1, <2>2
  <2> HIDE DEF e, f
  <2>4. ((e - 1) * e + m) * e + r = e * e * e - 2 * e + p
    BY <1>1, <2>1, SMT
  <2> QED BY <2>3, <2>4
<1> QED BY <1>5, <1>6

LEMMA UpperIs ==
  ASSUME NEW k \in {0, ENTRIES \div 2, ENTRIES - 1, 2 * ENTRIES - 2, 2 * ENTRIES - 1}
                   \cup ENTRIES..(ENTRIES + 3)
  PROVE  /\ k \in DOMAIN UpperTables
         /\ k < ENTRIES => UpperTables[k] = Table(1)
         /\ k \in {ENTRIES, 2 * ENTRIES - 2} => UpperTables[k] = Table(2)
         /\ k \in {ENTRIES + 1, 2 * ENTRIES - 1} => UpperTables[k] = Table(3)
         /\ k = ENTRIES + 2 => UpperTables[k] = Table(4)
         /\ k = ENTRIES + 3 => UpperTables[k] = Table(5)
<1> DEFINE e == ENTRIES
<1>1. e \in Nat /\ e >= 6
  BY BootstrapConstants
<1>2. /\ k \in DOMAIN UpperTables
      /\ UpperTables[k] = CASE k < e                      -> Table(1)
                            [] k \in {e, 2 * e - 2}     -> Table(2)
                            [] k \in {e + 1, 2 * e - 1} -> Table(3)
                            [] k = e + 2               -> Table(4)
                            [] OTHER                   -> Table(5)
  BY DEF UpperTables
<1> DEFINE T(i) == Table(i)
           u == UpperTables[k]
<1>3. u = CASE k < e                      -> T(1)
            [] k \in {e, 2 * e - 2}     -> T(2)
            [] k \in {e + 1, 2 * e - 1} -> T(3)
            [] k = e + 2               -> T(4)
            [] OTHER                   -> T(5)
  BY <1>2
<1> HIDE DEF e, T, u
<1>4. /\ k < e => u = T(1)
      /\ k \in {e, 2 * e - 2} => u = T(2)
      /\ k \in {e + 1, 2 * e - 1} => u = T(3)
      /\ k = e + 2 => u = T(4)
      /\ k = e + 3 => u = T(5)
  BY <1>1, <1>3
<1> QED BY <1>2, <1>4 DEF e, T, u

LEMMA SetUpKeeps ==
  ASSUME TablesInv, setup_identity_mapping
  PROVE  TablesInv'
<1> DEFINE e == ENTRIES
           f == e \div 2
           bt == boot_tables'
<1>1. /\ where = "setup_identity_mapping" /\ where' = "fill" /\ mode' = mode
      /\ edx' = 2 * e /\ eax' = 0 /\ ecx' = 4 * e
      /\ bt = [k \in DOMAIN boot_tables |->
                 IF k \in DOMAIN UpperTables THEN UpperTables[k] ELSE boot_tables[k]]
  BY DEF setup_identity_mapping, Puts
<1>2. e \in Nat /\ e >= 6 /\ e % 2 = 0
  BY BootstrapConstants
<1>3. f \in Nat /\ 0 < f /\ f < e - 1
  <2> HIDE DEF e
  <2> QED BY <1>2
<1>4. bt = [k \in 0..(6 * e - 1) |-> bt[k]]
  BY <1>1 DEF TablesInv
<1>5. ASSUME NEW k \in 0..(6 * e - 1), k \in DOMAIN UpperTables
      PROVE  bt[k] = UpperTables[k]
  BY <1>1, <1>5 DEF TablesInv
<1>6. \A k \in {0, f, e - 1} : bt[k] = Table(1)
  <2> TAKE k \in {0, f, e - 1}
  <2>1. k \in 0..(6 * e - 1) /\ k < e
    <3> HIDE DEF e, f
    <3> QED BY <1>2, <1>3
  <2>2. k \in DOMAIN UpperTables /\ UpperTables[k] = Table(1)
    BY <2>1, UpperIs
  <2> QED BY <1>5, <2>1, <2>2
<1>7. \A q \in 0..3 : bt[e + q] = Table(q + 2)
  <2> TAKE q \in 0..3
  <2>1. e + q \in 0..(6 * e - 1)
    BY <1>2
  <2>2. e + q \in DOMAIN UpperTables /\ UpperTables[e + q] = Table(q + 2)
    <3> DEFINE k == e + q
    <3>1. k \in e..(e + 3) /\ (q = 0 => k = e) /\ (q = 1 => k = e + 1) /\ (q = 2 => k = e + 2)
          /\ (q = 3 => k = e + 3)
      BY <1>2
    <3> HIDE DEF k
    <3>2. /\ k \in DOMAIN UpperTables
          /\ q = 0 => UpperTables[k] = Table(2)
          /\ q = 1 => UpperTables[k] = Table(3)
          /\ q = 2 => UpperTables[k] = Table(4)
          /\ q = 3 => UpperTables[k] = Table(5)
      BY <3>1, UpperIs
    <3>3. UpperTables[k] = Table(q + 2)
      <4>1. \/ q = 0 /\ q + 2 = 2
            \/ q = 1 /\ q + 2 = 3
            \/ q = 2 /\ q + 2 = 4
            \/ q = 3 /\ q + 2 = 5
        OBVIOUS
      <4> QED BY <3>2, <4>1, Zenon
    <3> QED BY <3>2, <3>3 DEF k
  <2> QED BY <1>5, <2>1, <2>2
<1>8. \A q \in 0..1 : bt[e + (e - 2 + q)] = Table(q + 2)
  <2> TAKE q \in 0..1
  <2>1. e + (e - 2 + q) \in 0..(6 * e - 1)
    BY <1>2
  <2>2. e + (e - 2 + q) \in DOMAIN UpperTables /\ UpperTables[e + (e - 2 + q)] = Table(q + 2)
    <3> DEFINE k == e + (e - 2 + q)
    <3>1. (q = 0 => k = 2 * e - 2) /\ (q = 1 => k = 2 * e - 1)
      BY <1>2
    <3> HIDE DEF k
    <3>2. /\ k \in DOMAIN UpperTables
          /\ q = 0 => UpperTables[k] = Table(2)
          /\ q = 1 => UpperTables[k] = Table(3)
      <4> HIDE DEF e
      <4>1. CASE q = 0
        <5>1. k = 2 * e - 2
          BY <3>1, <4>1
        <5>2. k \in DOMAIN UpperTables /\ UpperTables[k] = Table(2)
          BY <5>1, UpperIs DEF e
        <5> QED BY <4>1, <5>2
      <4>2. CASE q = 1
        <5>1. k = 2 * e - 1
          BY <3>1, <4>2
        <5>2. k \in DOMAIN UpperTables /\ UpperTables[k] = Table(3)
          BY <5>1, UpperIs DEF e
        <5> QED BY <4>2, <5>2
      <4> QED BY <4>1, <4>2
    <3>3. UpperTables[k] = Table(q + 2)
      <4>1. \/ q = 0 /\ q + 2 = 2
            \/ q = 1 /\ q + 2 = 3
        OBVIOUS
      <4> QED BY <3>2, <4>1, Zenon
    <3> QED BY <3>2, <3>3 DEF k
  <2> QED BY <1>5, <2>1, <2>2
<1>9. Filled(bt, 0)
  BY <1>6, <1>7, <1>8 DEF Filled
<1>10. "paging" \notin mode
  BY <1>1 DEF TablesInv
<1> QED BY <1>1, <1>2, <1>4, <1>9, <1>10 DEF TablesInv

LEMMA FillKeeps ==
  ASSUME TablesInv, Fill
  PROVE  TablesInv'
<1> DEFINE e == ENTRIES
           f == e \div 2
           n == eax
<1>1. /\ where = "fill" /\ boot_tables' = [boot_tables EXCEPT ![edx] = Large(n)]
      /\ eax' = n + 1 /\ edx' = edx + 1 /\ ecx' = ecx - 1
      /\ where' = (IF ecx' = 0 THEN "load" ELSE "fill") /\ mode' = mode
  BY DEF Fill
<1>2. e \in Nat /\ e >= 6 /\ f \in Nat /\ f < e
  <2>1. e \in Nat /\ e >= 6
    BY BootstrapConstants
  <2> HIDE DEF e
  <2> QED BY <2>1
<1>3. /\ n \in 0..(4 * e - 1) /\ edx = 2 * e + n /\ ecx = 4 * e - n /\ Filled(boot_tables, n)
      /\ boot_tables = [k \in 0..(6 * e - 1) |-> boot_tables[k]] /\ "paging" \notin mode
  BY <1>1 DEF TablesInv
<1>4. /\ boot_tables' = [k \in 0..(6 * e - 1) |-> boot_tables'[k]]
      /\ boot_tables'[edx] = Large(n)
      /\ \A k \in 0..(6 * e - 1) : k # edx => boot_tables'[k] = boot_tables[k]
  <2>1. edx \in 0..(6 * e - 1)
    BY <1>2, <1>3
  <2> QED BY <1>1, <1>3, <2>1
<1> HIDE DEF n
<1>5. Filled(boot_tables', n + 1)
  <2>1. \A k \in {0, f, e - 1} : boot_tables'[k] = boot_tables[k]
    <3> TAKE k \in {0, f, e - 1}
    <3>1. k \in 0..(6 * e - 1) /\ k # edx
      <4> HIDE DEF e, f
      <4> QED BY <1>2, <1>3
    <3> QED BY <1>4, <3>1
  <2>2. \A q \in 0..(e-1) : boot_tables'[e + q] = boot_tables[e + q]
    <3> TAKE q \in 0..(e-1)
    <3>1. e + q \in 0..(6 * e - 1) /\ e + q # edx
      BY <1>2, <1>3
    <3> QED BY <1>4, <3>1
  <2>3. /\ \A q \in 0..3 : boot_tables'[e + q] = boot_tables[e + q]
        /\ \A q \in 0..1 : boot_tables'[e + (e - 2 + q)] = boot_tables[e + (e - 2 + q)]
    BY <1>2, <2>2
  <2>4. ASSUME NEW k \in 0..n
        PROVE  boot_tables'[2 * e + k] = Large(k)
    <3>1. CASE k = n
      BY <1>3, <1>4, <3>1
    <3>2. CASE k # n
      <4>1. 2 * e + k \in 0..(6 * e - 1) /\ 2 * e + k # edx /\ k \in 0..(n-1)
        <5>1. n \in 0..(4 * e - 1) /\ edx = 2 * e + n /\ e \in Nat
          BY <1>2, <1>3
        <5> HIDE DEF e
        <5> QED BY <3>2, <5>1
      <4>2. boot_tables[2 * e + k] = Large(k)
        BY <1>3, <4>1 DEF Filled
      <4> QED BY <1>4, <4>1, <4>2
    <3> QED BY <3>1, <3>2
  <2>5. (n + 1) - 1 = n
    BY <1>3
  <2> QED BY <1>3, <2>1, <2>3, <2>4, <2>5 DEF Filled
<1>6. CASE ecx' = 0
  <2>1. n + 1 = 4 * e
    BY <1>1, <1>2, <1>3, <1>6
  <2>2. Filled(boot_tables', 4 * e)
    <3> HIDE DEF e
    <3> QED BY <1>5, <2>1
  <2> QED BY <1>1, <1>3, <1>4, <1>6, <2>2 DEF TablesInv
<1>7. CASE ecx' # 0
  <2>1. n + 1 \in 0..(4 * e - 1) /\ edx' = 2 * e + (n + 1) /\ ecx' = 4 * e - (n + 1)
    <3>1. edx' = edx + 1 /\ ecx' = ecx - 1 /\ ecx' # 0
      BY <1>1, <1>7
    <3>2. n \in 0..(4 * e - 1) /\ edx = 2 * e + n /\ ecx = 4 * e - n /\ e \in Nat
      BY <1>2, <1>3
    <3> HIDE DEF e
    <3> QED BY <3>1, <3>2
  <2>2. Filled(boot_tables', eax')
    BY <1>1, <1>5
  <2> QED BY <1>1, <1>3, <1>4, <1>7, <2>1, <2>2 DEF TablesInv, n
<1> QED BY <1>6, <1>7

LEMMA TablesStep ==
  ASSUME TablesInv, BNext
  PROVE  TablesInv'
<1>1. CASE start32 \/ fail \/ check_long_mode
  <2>1. /\ boot_tables' = boot_tables /\ mode' = mode
        /\ where \notin {"fill", "load", "enter", "paging", "gdt", "start64", "main"}
        /\ where' \notin {"fill", "load", "enter", "paging", "gdt", "start64", "main"}
    BY <1>1 DEF start32, fail, check_long_mode, Puts, cpuVars
  <2> QED BY <2>1 DEF TablesInv
<1>2. CASE setup_identity_mapping
  BY <1>2, SetUpKeeps
<1>3. CASE Fill
  BY <1>3, FillKeeps
<1>4. CASE LoadTables \/ enter_long_mode \/ start64
  <2>1. boot_tables' = boot_tables
    BY <1>4 DEF LoadTables, enter_long_mode, start64
  <2>2. \/ where = "load" /\ where' = "enter" /\ mode' = mode \cup {"pae", "cr3"}
        \/ where = "enter" /\ where' = "paging" /\ mode' = mode \cup {"lme"}
        \/ where = "paging" /\ where' = "gdt" /\ mode' = mode \cup {"paging"}
        \/ where = "gdt" /\ where' = "start64" /\ mode' = mode \cup {"long"}
        \/ where = "start64" /\ where' = "main" /\ mode' = mode \cup {"stack"}
    BY <1>4 DEF LoadTables, enter_long_mode, start64, Puts
  <2>3. Filled(boot_tables', 4 * ENTRIES)
    BY <2>1, <2>2 DEF TablesInv, Filled
  <2> QED BY <2>1, <2>2, <2>3 DEF TablesInv
<1> QED BY <1>1, <1>2, <1>3, <1>4 DEF BNext

THEOREM TablesInvariant == Spec => []TablesInv
<1>1. Init => TablesInv
  BY DEF Init, BInit, TablesInv
<1>2. TablesInv /\ [Next]_vars => TablesInv'
  <2> SUFFICES ASSUME TablesInv, [Next]_vars PROVE TablesInv'
    OBVIOUS
  <2>1. CASE UNCHANGED bootVars
    BY <2>1 DEF TablesInv, Filled, bootVars
  <2>2. CASE BNext
    BY <2>2, TablesStep
  <2>3. BNext \/ UNCHANGED bootVars
    BY DEF Next, vars, Bootstrapping, MainStep, PageFault, Processor, Accepted, Tick,
           OtherDevice, Halted, Interrupt
  <2> QED BY <2>1, <2>2, <2>3
<1> QED BY <1>1, <1>2, PTL DEF Spec

(* When paging is enabled, the first gigabytes of memory lie at their old  *)
(* addresses, in the middle of linear memory and, the first two large      *)
(* tables of them, at its end, for tables of any even size from 6 on.      *)
THEOREM KernelMapped == Spec => []BootTables
<1>1. TablesInv => BootTables
  BY PagesFound DEF TablesInv, BootTables
<1> QED BY <1>1, TablesInvariant, PTL

-----------------------------------------------------------------------------
(* The text screen.                                                        *)

Positions == [line : Nat, col : 0..(COLS - 1)]
Plain     == STRING \ {"\r"}
Cells     == {Blank, "BIOS"} \cup Plain
Screens   == [cells : [0..(ROWS - 1) -> [0..(COLS - 1) -> Cells]],
              row : 0..(ROWS - 1), col : 0..(COLS - 1)]

Advance(p, ch) ==
  IF ch = "\n" \/ p.col + 1 = COLS THEN [line |-> p.line + 1, col |-> 0]
  ELSE [line |-> p.line, col |-> p.col + 1]

IsCursor(cu, text) ==
  cu = [k \in 0..Len(text) |-> IF k = 0 THEN [line |-> 0, col |-> 0]
                               ELSE Advance(cu[k - 1], text[k])]

CursorOf(text) == CHOOSE cu : IsCursor(cu, text)

LEMMA AdvanceType ==
  ASSUME NEW p \in Positions, NEW ch
  PROVE  /\ Advance(p, ch) \in Positions
         /\ \/ Advance(p, ch).line = p.line + 1
            \/ Advance(p, ch).line = p.line /\ Advance(p, ch).col = p.col + 1
<1>1. COLS \in Nat \ {0}
  BY VideoConstants
<1>2. p.line \in Nat /\ p.col \in 0..(COLS - 1)
  BY DEF Positions
<1>3. CASE ch = "\n" \/ p.col + 1 = COLS
  <2>1. Advance(p, ch) = [line |-> p.line + 1, col |-> 0]
    BY <1>3 DEF Advance
  <2>2. p.line + 1 \in Nat /\ 0 \in 0..(COLS - 1)
    BY <1>1, <1>2
  <2> QED BY <2>1, <2>2 DEF Positions
<1>4. CASE ~(ch = "\n" \/ p.col + 1 = COLS)
  <2>1. Advance(p, ch) = [line |-> p.line, col |-> p.col + 1]
    BY <1>4 DEF Advance
  <2>2. p.col + 1 \in 0..(COLS - 1)
    BY <1>1, <1>2, <1>4
  <2> QED BY <1>2, <2>1, <2>2 DEF Positions
<1> QED BY <1>3, <1>4

LEMMA CursorIs ==
  ASSUME NEW text, NEW n \in Nat, Len(text) = n
  PROVE  LET cu == CursorOf(text)
         IN  /\ cu[0] = [line |-> 0, col |-> 0]
             /\ \A k \in 1..n : cu[k] = Advance(cu[k-1], text[k])
             /\ \A k \in 0..n : cu[k] \in Positions
<1> DEFINE zero == [line |-> 0, col |-> 0]
           step == [k \in 1..n |-> [x \in Positions |-> Advance(x, text[k])]]
           Ok   == [k \in 0..n |-> Positions]
           cu   == CursorOf(text)
<1>1. zero \in Positions
  BY VideoConstants DEF Positions
<1>2. \A k \in 1..n : \A x \in Positions : step[k][x] = Advance(x, text[k])
  OBVIOUS
<1>3. \A k \in 1..n : k-1 \in 0..n /\ k \in 0..n /\ k # 0
  OBVIOUS
<1> HIDE DEF step, zero
<1>4. \E f : IsLoop(f, n, zero, step) /\ \A k \in 0..n : f[k] \in Positions
  <2>1. 0 \in 0..n
    OBVIOUS
  <2>2. zero \in Ok[0]
    BY <1>1, <2>1
  <2>3. \A k \in 1..n : \A x \in Ok[k-1] : step[k][x] \in Ok[k]
    <3>1. \A k \in 1..n : Ok[k-1] = Positions /\ Ok[k] = Positions
      BY <1>3
    <3> HIDE DEF Ok
    <3> QED BY <1>2, <3>1, AdvanceType
  <2>4. \A k \in 0..n : Ok[k] = Positions
    OBVIOUS
  <2> HIDE DEF Ok
  <2>5. \E f : IsLoop(f, n, zero, step) /\ \A k \in 0..n : f[k] \in Ok[k]
    BY <2>2, <2>3, Recursion
  <2> QED BY <2>4, <2>5
<1>5. PICK f : IsLoop(f, n, zero, step) /\ \A k \in 0..n : f[k] \in Positions
  BY <1>4
<1>6. IsCursor(f, text)
  <2>1. f = [k \in 0..n |-> IF k = 0 THEN zero ELSE step[k][f[k-1]]]
    BY <1>5 DEF IsLoop
  <2>2. \A k \in 0..n : k # 0 => k \in 1..n
    OBVIOUS
  <2>3. \A k \in 0..n : f[k] = IF k = 0 THEN zero ELSE Advance(f[k-1], text[k])
    BY <1>2, <1>3, <1>5, <2>1, <2>2
  <2>4. f = [k \in 0..n |-> f[k]]
    BY <2>1
  <2>5. f = [k \in 0..n |-> IF k = 0 THEN zero ELSE Advance(f[k-1], text[k])]
    BY <2>3, <2>4
  <2> QED BY <2>5 DEF IsCursor, zero
<1>7. IsCursor(cu, text)
  BY <1>6 DEF CursorOf
<1> HIDE DEF cu
<1>8. /\ cu[0] = zero
      /\ \A k \in 1..n : cu[k] = Advance(cu[k-1], text[k])
  <2>1. cu = [k \in 0..n |-> IF k = 0 THEN zero ELSE Advance(cu[k-1], text[k])]
    BY <1>7 DEF IsCursor, zero
  <2>2. 0 \in 0..n
    OBVIOUS
  <2> QED BY <1>3, <2>1, <2>2
<1>9. \A k \in 0..n : cu[k] \in Positions
  <2> DEFINE Ps == [k \in 0..n |-> Positions]
  <2>1. \A k \in 0..n : Ps[k] = Positions
    OBVIOUS
  <2> HIDE DEF Ps
  <2>2. cu[0] \in Ps[0]
    BY <1>1, <1>8, <2>1
  <2>3. \A k \in 1..n : cu[k-1] \in Ps[k-1] => cu[k] \in Ps[k]
    BY <1>3, <1>8, <2>1, AdvanceType
  <2>4. \A k \in 0..n : cu[k] \in Ps[k]
    BY <2>2, <2>3, Turns
  <2> QED BY <2>1, <2>4
<1> QED BY <1>8, <1>9 DEF cu, zero

(* A later character stands behind an earlier one.                         *)
Behind(p, q) == p.line < q.line \/ (p.line = q.line /\ p.col < q.col)

LEMMA CursorMoves ==
  ASSUME NEW cu, NEW text, NEW n \in Nat,
         \A k \in 1..n : cu[k] = Advance(cu[k-1], text[k]),
         \A k \in 0..n : cu[k] \in Positions,
         NEW j \in 0..n
  PROVE  \A k \in 0..(j-1) : Behind(cu[k], cu[j])
<1> DEFINE S == {i \in Nat : i <= n => \A k \in 0..(i-1) : Behind(cu[k], cu[i])}
<1>1. 0 \in S
  OBVIOUS
<1>2. ASSUME NEW i \in Nat, i \in S
      PROVE  i+1 \in S
  <2> SUFFICES ASSUME i+1 <= n, NEW k \in 0..i
               PROVE  Behind(cu[k], cu[i+1])
    <3>1. (i+1)-1 = i
      OBVIOUS
    <3> QED BY <3>1
  <2>1. i+1 \in 1..n /\ (i+1)-1 = i /\ i \in 0..n /\ k \in 0..n /\ i+1 \in 0..n
    OBVIOUS
  <2> DEFINE p == cu[i]
             q == cu[i+1]
             r == cu[k]
  <2>2. q = Advance(p, text[i+1]) /\ p \in Positions /\ r \in Positions
    BY <2>1
  <2>3. \/ q.line = p.line + 1
        \/ q.line = p.line /\ q.col = p.col + 1
    BY <2>2, AdvanceType
  <2>4. k = i \/ Behind(r, p)
    <3>1. k = i \/ k \in 0..(i-1)
      BY <2>1
    <3> QED BY <1>2, <2>1, <3>1
  <2>5. p.line \in Nat /\ p.col \in Nat /\ r.line \in Nat /\ r.col \in Nat
    BY <2>2, VideoConstants DEF Positions
  <2>6. CASE k = i
    <3>1. r = p
      BY <2>6
    <3> HIDE DEF p, q, r
    <3> QED BY <2>3, <2>5, <3>1 DEF Behind, q, r
  <2>7. CASE Behind(r, p)
    <3> HIDE DEF p, q, r
    <3>1. Behind(r, q)
      BY <2>3, <2>5, <2>7 DEF Behind
    <3> QED BY <3>1 DEF q, r
  <2> QED BY <2>4, <2>6, <2>7
<1>3. Nat \subseteq S
  <2> HIDE DEF S
  <2> QED BY <1>1, <1>2, SetInduction
<1>4. j \in S /\ j <= n
  <2> HIDE DEF S
  <2> QED BY <1>3
<1> QED BY <1>4

(* Lines that share a row.                                                 *)
LEMMA RowNext ==
  ASSUME NEW w \in Nat \ {0}, NEW x \in Nat
  PROVE  ((x % w) + 1) % w = (x + 1) % w
<1> DEFINE q == x \div w
           m == x % w
<1>1. q \in Nat /\ m \in 0..(w-1) /\ x = w * q + m
  BY ModIs
<1> HIDE DEF q, m
<1>2. CASE m + 1 = w
  <2>1. x + 1 = w * (q + 1) + 0
    BY <1>1, <1>2, SMT
  <2>2. m + 1 = w * 1 + 0
    BY <1>1, <1>2
  <2>3. q + 1 \in Nat /\ 1 \in Nat /\ 0 \in 0..(w-1)
    BY <1>1
  <2>4. (x + 1) % w = 0 /\ (m + 1) % w = 0
    BY <2>1, <2>2, <2>3, DivideIs
  <2> QED BY <2>4 DEF m
<1>3. CASE m + 1 # w
  <2>1. x + 1 = w * q + (m + 1)
    BY <1>1, SMT
  <2>2. m + 1 = w * 0 + (m + 1)
    BY <1>1
  <2>3. 0 \in Nat /\ m + 1 \in 0..(w-1)
    BY <1>1, <1>3
  <2>4. (x + 1) % w = m + 1
    BY <1>1, <2>1, <2>3, DivideIs
  <2>5. (m + 1) % w = m + 1
    <3> DEFINE y == m + 1
    <3>1. y = w * 0 + y /\ y \in 0..(w-1)
      BY <2>2, <2>3
    <3> HIDE DEF y
    <3>2. y % w = y
      BY <2>3, <3>1, DivideIs
    <3> QED BY <3>2 DEF y
  <2> QED BY <2>4, <2>5 DEF m
<1> QED BY <1>2, <1>3

LEMMA RowShared ==
  ASSUME NEW w \in Nat \ {0}, NEW x \in Nat, NEW y \in Nat, x % w = y % w, x <= y, y < x + w
  PROVE  x = y
<1> DEFINE q == x \div w
           u == y \div w
           m == x % w
<1>1. q \in Nat /\ m \in 0..(w-1) /\ x = w * q + m
  BY ModIs
<1>2. u \in Nat /\ y = w * u + m
  BY ModIs
<1> HIDE DEF q, u, m
<1>3. ~(u >= q + 1)
  <2> SUFFICES ASSUME u >= q + 1 PROVE FALSE
    OBVIOUS
  <2>1. PICK d \in Nat : u = q + 1 + d
    <3>1. u - (q + 1) \in Nat /\ u = q + 1 + (u - (q + 1))
      BY <1>1, <1>2
    <3> QED BY <3>1
  <2>2. y = x + w + w * d
    BY <1>1, <1>2, <2>1, SMT
  <2>3. w * d \in Nat
    BY SMT
  <2> QED BY <2>2, <2>3
<1>4. ~(q >= u + 1)
  <2> SUFFICES ASSUME q >= u + 1 PROVE FALSE
    OBVIOUS
  <2>1. PICK d \in Nat : q = u + 1 + d
    <3>1. q - (u + 1) \in Nat /\ q = u + 1 + (q - (u + 1))
      BY <1>1, <1>2
    <3> QED BY <3>1
  <2>2. x = y + w + w * d
    BY <1>1, <1>2, <2>1, SMT
  <2>3. w * d \in Nat
    BY SMT
  <2> QED BY <2>2, <2>3
<1>5. q = u
  BY <1>1, <1>2, <1>3, <1>4
<1> QED BY <1>1, <1>2, <1>5

LEMMA RowAgain ==
  ASSUME NEW w \in Nat \ {0}, NEW x \in Nat
  PROVE  (x + w) % w = x % w
<1> DEFINE q == x \div w
           m == x % w
<1>1. q \in Nat /\ m \in 0..(w-1) /\ x = w * q + m
  BY ModIs
<1> HIDE DEF q, m
<1>2. x + w = w * (q + 1) + m /\ q + 1 \in Nat
  BY <1>1, SMT
<1>3. (x + w) % w = m
  BY <1>1, <1>2, DivideIs
<1> QED BY <1>3 DEF m

(* The characters in one place of the screen, among the first n, when the  *)
(* cursor is in a line.                                                    *)
There(text, cu, n, last, r, c) ==
  {k \in 1..n : /\ text[k] # "\n" /\ cu[k-1].line + ROWS > last
                /\ cu[k-1].line % ROWS = r /\ cu[k-1].col = c}

Shown(text, T) == IF T = {} THEN Blank ELSE text[CHOOSE k \in T : TRUE]

Shows(s, text, cu, n, last) ==
  /\ s.row = last % ROWS
  /\ \A r \in 0..(ROWS - 1), c \in 0..(COLS - 1) :
       s.cells[r][c] = Shown(text, There(text, cu, n, last, r, c))

LEMMA NewLineShows ==
  ASSUME NEW s \in Screens, NEW text, NEW cu, NEW n \in Nat, NEW last \in Nat,
         Shows(s, text, cu, n, last),
         \A k \in 1..n : cu[k-1].line \in 0..last
  PROVE  newline(s) \in Screens /\ newline(s).col = 0 /\ Shows(newline(s), text, cu, n, last + 1)
<1> DEFINE w == ROWS
           b == (s.row + 1) % w
           u == newline(s)
<1>1. w \in Nat \ {0} /\ COLS \in Nat \ {0}
  BY VideoConstants
<1>2. last % w \in 0..(w-1) /\ b = (last + 1) % w /\ b \in 0..(w-1)
  <2>1. s.row = last % w
    BY DEF Shows
  <2>2. b = (last + 1) % w
    BY <1>1, <2>1, RowNext
  <2>3. last + 1 \in Nat
    OBVIOUS
  <2> QED BY <1>1, <2>2, <2>3, ModIs
<1> HIDE DEF w, b
<1>3. /\ u.row = b /\ u.col = 0
      /\ u.cells = [s.cells EXCEPT ![b] = EmptyLine]
      /\ u = [cells |-> u.cells, row |-> u.row, col |-> u.col]
  <2>1. s = [cells |-> s.cells, row |-> s.row, col |-> s.col]
    BY DEF Screens
  <2> DEFINE e     == videomem_empty_line(s, b)
             start == 0
  <2>2. u = [e EXCEPT !.row = b, !.col = start]
    BY DEF newline, b, w
  <2>3. e = [cells |-> [s.cells EXCEPT ![b] = EmptyLine], row |-> s.row, col |-> s.col]
    BY <2>1 DEF videomem_empty_line
  <2> HIDE DEF e, start, u
  <2>4. u = [cells |-> [s.cells EXCEPT ![b] = EmptyLine], row |-> b, col |-> start]
    BY <2>2, <2>3
  <2> QED BY <2>4 DEF start
<1>4. EmptyLine \in [0..(COLS-1) -> Cells]
  BY DEF EmptyLine, Cells
<1> HIDE DEF u
<1>5. u \in Screens
  <2>1. s.cells \in [0..(ROWS - 1) -> [0..(COLS - 1) -> Cells]]
    BY DEF Screens
  <2>2. u.cells \in [0..(ROWS - 1) -> [0..(COLS - 1) -> Cells]]
    BY <1>3, <1>4, <2>1
  <2>3. u.row \in 0..(ROWS - 1) /\ u.col \in 0..(COLS - 1)
    BY <1>1, <1>2, <1>3 DEF w
  <2> QED BY <1>3, <2>2, <2>3 DEF Screens
<1>6. ASSUME NEW r \in 0..(ROWS - 1), NEW c \in 0..(COLS - 1)
      PROVE  u.cells[r][c] = Shown(text, There(text, cu, n, last + 1, r, c))
  <2>1. CASE r = b
    <3>1. u.cells[r][c] = Blank
      <4>1. u.cells[r] = EmptyLine
        BY <1>3, <2>1 DEF Screens
      <4> QED BY <4>1 DEF EmptyLine
    <3>2. ASSUME NEW k \in There(text, cu, n, last + 1, r, c) PROVE FALSE
      <4> DEFINE x == cu[k-1].line
      <4>1. x \in 0..last /\ x + w > last + 1 /\ x % w = (last + 1) % w
        BY <1>2, <2>1 DEF There, w
      <4> HIDE DEF x
      <4>2. x \in Nat /\ last + 1 \in Nat /\ x <= last + 1 /\ last + 1 < x + w /\ x # last + 1
        BY <1>1, <4>1
      <4> QED BY <1>1, <4>1, <4>2, RowShared
    <3>3. There(text, cu, n, last + 1, r, c) = {}
      BY <3>2
    <3> QED BY <3>1, <3>3 DEF Shown
  <2>2. CASE r # b
    <3>1. u.cells[r][c] = s.cells[r][c]
      <4>1. u.cells[r] = s.cells[r]
        BY <1>3, <2>2 DEF Screens
      <4> QED BY <4>1
    <3>2. ASSUME NEW k \in 1..n, cu[k-1].line % ROWS = r
          PROVE  cu[k-1].line + ROWS > last <=> cu[k-1].line + ROWS > last + 1
      <4> DEFINE x == cu[k-1].line
      <4>1. x \in 0..last /\ x % w = r
        BY <3>2 DEF w
      <4> HIDE DEF x
      <4>2. x + w # last + 1
        <5>1. (x + w) % w = x % w
          <6>1. x \in Nat
            BY <4>1
          <6> QED BY <1>1, <6>1, RowAgain
        <5> QED BY <1>2, <2>2, <4>1, <5>1
      <4>3. x + w > last <=> x + w > last + 1
        BY <1>1, <4>1, <4>2
      <4> QED BY <4>3 DEF x, w
    <3>3. There(text, cu, n, last, r, c) = There(text, cu, n, last + 1, r, c)
      BY <3>2, Zenon DEF There
    <3> QED BY <3>1, <3>3 DEF Shows
  <2> QED BY <2>1, <2>2
<1>7. u.row = (last + 1) % ROWS
  BY <1>2, <1>3 DEF w
<1> QED BY <1>3, <1>5, <1>6, <1>7 DEF Shows, u

(* What one character changes.                                             *)
Follows(text, cu, n) ==
  /\ \A k \in 1..n : cu[k] = Advance(cu[k-1], text[k])
  /\ \A k \in 0..n : cu[k] \in Positions

ShowsAll(s, text, cu, n) ==
  s \in Screens /\ s.col = cu[n].col /\ Shows(s, text, cu, n, cu[n].line)

LEMMA CharacterShows ==
  ASSUME NEW s, NEW text, NEW cu, NEW m \in Nat, NEW n \in 1..m, Follows(text, cu, m),
         text[n] \in Plain, ShowsAll(s, text, cu, n - 1)
  PROVE  ShowsAll(videomem_putchar(s, text[n]), text, cu, n)
<1> DEFINE p    == cu[n-1]
           last == p.line
           ch   == text[n]
           q    == cu[n]
<1>1. ROWS \in Nat \ {0} /\ COLS \in Nat \ {0}
  BY VideoConstants
<1>2. /\ s \in Screens /\ s.col = p.col /\ Shows(s, text, cu, n - 1, last)
      /\ s.row \in 0..(ROWS - 1) /\ s.row = last % ROWS
  BY DEF ShowsAll, Screens, Shows
<1>3. p \in Positions /\ q = Advance(p, ch) /\ ch \in Cells /\ ch # "\r"
  <2>1. ch # "\r"
    BY DEF Plain
  <2> QED BY <2>1 DEF Follows, Cells
<1>4. last \in Nat /\ p.col \in 0..(COLS - 1)
  BY <1>3 DEF Positions
<1>5. ASSUME NEW k \in 1..(n-1)
      PROVE  cu[k-1].line \in 0..last /\ Behind(cu[k-1], p)
  <2>1. k-1 \in 0..((n-1)-1) /\ k-1 \in 0..m /\ n-1 \in 0..m
    OBVIOUS
  <2>2. Behind(cu[k-1], p) /\ cu[k-1] \in Positions
    BY <2>1, CursorMoves DEF Follows
  <2>3. cu[k-1].line \in Nat
    BY <2>2 DEF Positions
  <2> QED BY <1>4, <2>2, <2>3 DEF Behind
<1>6. ASSUME NEW k \in 1..n
      PROVE  cu[k-1].line \in 0..last
  <2>1. k = n \/ k \in 1..(n-1)
    OBVIOUS
  <2> QED BY <1>4, <1>5, <2>1
<1> HIDE DEF p, ch, q, last
<1>7. CASE ch = "\n"
  <2>1. videomem_putchar(s, ch) = newline(s)
    BY <1>7 DEF videomem_putchar
  <2>2. q.line = last + 1 /\ q.col = 0
    BY <1>3, <1>7 DEF Advance, last
  <2>3. Shows(s, text, cu, n, last)
    <3>1. ASSUME NEW r, NEW c
          PROVE  There(text, cu, n, last, r, c) = There(text, cu, n - 1, last, r, c)
      <4>1. \A k : k \in 1..n <=> k \in 1..(n-1) \/ k = n
        OBVIOUS
      <4> QED BY <1>7, <4>1, Zenon DEF There, ch
    <3> QED BY <1>2, <3>1 DEF Shows
  <2>4. newline(s) \in Screens /\ newline(s).col = 0 /\ Shows(newline(s), text, cu, n, last + 1)
    BY <1>2, <1>4, <1>6, <2>3, NewLineShows
  <2> QED BY <2>1, <2>2, <2>4 DEF ShowsAll, ch, q
<1>8. CASE ch # "\n"
  <2> DEFINE t == videomem_putchar_at(s, ch, s.row, s.col)
  <2>1. /\ t \in Screens /\ t.row = s.row /\ t.col = s.col
        /\ \A r \in 0..(ROWS - 1), c \in 0..(COLS - 1) :
             t.cells[r][c] = IF r = s.row /\ c = s.col THEN ch ELSE s.cells[r][c]
    BY <1>2, <1>3 DEF videomem_putchar_at, Screens
  <2> HIDE DEF t
  <2>2. ASSUME NEW r \in 0..(ROWS - 1), NEW c \in 0..(COLS - 1)
        PROVE  t.cells[r][c] = Shown(text, There(text, cu, n, last, r, c))
    <3>1. CASE r = s.row /\ c = s.col
      <4>1. n \in There(text, cu, n, last, r, c)
        BY <1>1, <1>2, <1>4, <1>8, <3>1 DEF There, ch, p, last
      <4>2. ASSUME NEW k \in There(text, cu, n, last, r, c), k # n
            PROVE  FALSE
        <5> DEFINE x == cu[k-1].line
        <5>1. k \in 1..(n-1) /\ x + ROWS > last /\ x % ROWS = last % ROWS /\ cu[k-1].col = p.col
          BY <1>2, <3>1, <4>2 DEF There
        <5>2. x \in 0..last /\ Behind(cu[k-1], p)
          BY <1>5, <5>1
        <5>3. x # last
          BY <1>4, <5>1, <5>2 DEF Behind, last
        <5> HIDE DEF x
        <5>4. x \in Nat /\ x <= last /\ last < x + ROWS
          BY <1>1, <1>4, <5>1, <5>2
        <5> QED BY <1>1, <1>4, <5>1, <5>3, <5>4, RowShared
      <4>3. There(text, cu, n, last, r, c) = {n}
        BY <4>1, <4>2
      <4> QED BY <2>1, <3>1, <4>3 DEF Shown, ch
    <3>2. CASE ~(r = s.row /\ c = s.col)
      <4>1. There(text, cu, n, last, r, c) = There(text, cu, n - 1, last, r, c)
        <5>1. \A k : k \in 1..n <=> k \in 1..(n-1) \/ k = n
          OBVIOUS
        <5>2. ~(cu[n-1].line % ROWS = r /\ cu[n-1].col = c)
          BY <1>2, <3>2 DEF p, last
        <5> QED BY <5>1, <5>2, Zenon DEF There
      <4>2. t.cells[r][c] = s.cells[r][c]
        BY <2>1, <3>2
      <4> QED BY <1>2, <4>1, <4>2 DEF Shows
    <3> QED BY <3>1, <3>2
  <2>3. Shows(t, text, cu, n, last)
    BY <1>2, <2>1, <2>2 DEF Shows
  <2>4. CASE s.col + 1 = COLS
    <3>1. videomem_putchar(s, ch) = newline(t)
      BY <1>3, <1>8, <2>4 DEF videomem_putchar, t
    <3>2. q.line = last + 1 /\ q.col = 0
      BY <1>2, <1>3, <2>4 DEF Advance, last
    <3>3. newline(t) \in Screens /\ newline(t).col = 0 /\ Shows(newline(t), text, cu, n, last + 1)
      BY <1>4, <1>6, <2>1, <2>3, NewLineShows
    <3> QED BY <3>1, <3>2, <3>3 DEF ShowsAll, ch, q
  <2>5. CASE s.col + 1 # COLS
    <3> DEFINE u == [t EXCEPT !.col = @ + 1]
    <3>1. videomem_putchar(s, ch) = u
      BY <1>3, <1>8, <2>5 DEF videomem_putchar, t
    <3>2. q.line = last /\ q.col = p.col + 1
      BY <1>2, <1>3, <1>8, <2>5 DEF Advance, last
    <3>3. u \in Screens /\ u.col = p.col + 1 /\ u.row = t.row /\ u.cells = t.cells
      <4>1. s.col + 1 \in 0..(COLS - 1) /\ s.col = p.col
        BY <1>1, <1>2, <1>4, <2>5
      <4> QED BY <2>1, <4>1 DEF Screens
    <3> HIDE DEF u
    <3>4. Shows(u, text, cu, n, last)
      BY <2>3, <3>3 DEF Shows
    <3> QED BY <3>1, <3>2, <3>3, <3>4 DEF ShowsAll, ch, q
  <2> QED BY <2>4, <2>5
<1> QED BY <1>7, <1>8

(* What stands on the screen depends on what has been printed only.        *)
LEMMA SameShows ==
  ASSUME NEW s, NEW n \in Nat, NEW old, NEW co, NEW text, NEW cu,
         \A k \in 1..n : text[k] = old[k], \A k \in 0..n : cu[k] = co[k],
         ShowsAll(s, old, co, n)
  PROVE  ShowsAll(s, text, cu, n)
<1> DEFINE last == co[n].line
<1>1. cu[n] = co[n]
  OBVIOUS
<1>2. ASSUME NEW r, NEW c
      PROVE  Shown(text, There(text, cu, n, last, r, c)) = Shown(old, There(old, co, n, last, r, c))
  <2> DEFINE T == There(old, co, n, last, r, c)
  <2>1. \A k \in 1..n : cu[k-1] = co[k-1]
    OBVIOUS
  <2>2. There(text, cu, n, last, r, c) = T
    BY <2>1, Zenon DEF There
  <2>3. T \subseteq 1..n
    BY DEF There
  <2> HIDE DEF T
  <2>4. T # {} => (CHOOSE k \in T : TRUE) \in 1..n
    BY <2>3
  <2> QED BY <2>2, <2>4 DEF Shown, T
<1> QED BY <1>1, <1>2 DEF ShowsAll, Shows

IsAfter(f, s, text) ==
  f = [k \in 0..Len(text) |-> IF k = 0 THEN s ELSE videomem_putchar(f[k-1], text[k])]

After(s, text) == CHOOSE f : IsAfter(f, s, text)

LEMMA PutsShows ==
  ASSUME NEW old \in Seq(Plain), NEW text \in Seq(Plain), NEW s,
         ShowsAll(s, old, CursorOf(old), Len(old))
  PROVE  ShowsAll(After(s, text)[Len(text)], old \o text, CursorOf(old \o text), Len(old \o text))
<1> DEFINE n   == Len(old)
           l   == Len(text)
           all == old \o text
           cu  == CursorOf(all)
           co  == CursorOf(old)
<1>1. /\ n \in Nat /\ l \in Nat /\ Len(all) = n + l /\ n + l \in Nat
      /\ \A k \in 1..n : all[k] = old[k]
      /\ \A k \in 1..l : all[n + k] = text[k]
      /\ \A k \in 1..l : text[k] \in Plain
  OBVIOUS
<1>2. Len(old) = n /\ Len(text) = l
  OBVIOUS
<1> HIDE DEF n, l, all
<1>3. Follows(all, cu, n + l) /\ cu[0] = [line |-> 0, col |-> 0]
  <2> HIDE DEF cu
  <2> QED BY <1>1, CursorIs DEF Follows, cu
<1>4. Follows(old, co, n) /\ co[0] = [line |-> 0, col |-> 0]
  <2> HIDE DEF co
  <2> QED BY <1>1, <1>2, CursorIs DEF Follows, co
<1> HIDE DEF cu, co
<1>5. \A k \in 0..n : cu[k] = co[k]
  <2> DEFINE Ok == [k \in 0..n |-> {co[k]}]
  <2>1. \A k \in 0..n : Ok[k] = {co[k]}
    OBVIOUS
  <2>2. 0 \in 0..n
    BY <1>1
  <2> HIDE DEF Ok
  <2>3. cu[0] \in Ok[0]
    BY <1>3, <1>4, <2>1, <2>2
  <2>4. ASSUME NEW k \in 1..n, cu[k-1] \in Ok[k-1]
        PROVE  cu[k] \in Ok[k]
    <3>1. k \in 1..(n + l) /\ k-1 \in 0..n /\ k \in 0..n
      BY <1>1
    <3>2. cu[k-1] = co[k-1]
      BY <2>1, <2>4, <3>1
    <3>3. cu[k] = Advance(cu[k-1], all[k]) /\ co[k] = Advance(co[k-1], old[k]) /\ all[k] = old[k]
      BY <1>1, <1>3, <1>4, <3>1 DEF Follows
    <3> QED BY <2>1, <3>1, <3>2, <3>3
  <2>5. \A k \in 0..n : cu[k] \in Ok[k]
    BY <1>1, <2>3, <2>4, Turns
  <2> QED BY <2>1, <2>5
<1>6. ShowsAll(s, all, cu, n)
  BY <1>1, <1>2, <1>5, SameShows DEF co
<1> DEFINE Ok   == [k \in 0..l |-> {x \in Screens : ShowsAll(x, all, cu, n + k)}]
           step == [k \in 1..l |-> [x \in Screens |-> videomem_putchar(x, text[k])]]
<1>7. \A k \in 0..l : Ok[k] = {x \in Screens : ShowsAll(x, all, cu, n + k)}
  OBVIOUS
<1>8. \A k \in 1..l : \A x \in Screens : step[k][x] = videomem_putchar(x, text[k])
  OBVIOUS
<1>9. \A k \in 1..l : k-1 \in 0..l /\ k \in 0..l /\ k # 0
  BY <1>1
<1> HIDE DEF Ok, step
<1>10. ASSUME NEW k \in 1..l, NEW x \in Ok[k-1]
       PROVE  x \in Screens /\ videomem_putchar(x, text[k]) \in Ok[k]
  <2>1. x \in Screens /\ ShowsAll(x, all, cu, n + (k-1))
    BY <1>7, <1>9
  <2>2. n + k \in 1..(n + l) /\ n + (k-1) = (n + k) - 1
    BY <1>1
  <2>3. all[n + k] = text[k] /\ text[k] \in Plain
    BY <1>1
  <2>4. ShowsAll(videomem_putchar(x, text[k]), all, cu, n + k)
    <3> DEFINE j == n + k
    <3>1. j \in 1..(n + l) /\ all[j] = text[k] /\ ShowsAll(x, all, cu, j - 1)
      BY <2>1, <2>2, <2>3
    <3> HIDE DEF j
    <3>2. ShowsAll(videomem_putchar(x, all[j]), all, cu, j)
      BY <1>1, <1>3, <2>3, <3>1, CharacterShows
    <3> QED BY <3>1, <3>2 DEF j
  <2> QED BY <1>7, <1>9, <2>1, <2>4 DEF ShowsAll
<1>11. s \in Ok[0]
  <2>1. 0 \in 0..l /\ n + 0 = n
    BY <1>1
  <2> QED BY <1>6, <1>7, <2>1 DEF ShowsAll
<1>12. \E f : IsAfter(f, s, text)
  <2>1. \A k \in 1..l : \A x \in Ok[k-1] : step[k][x] \in Ok[k]
    BY <1>8, <1>10
  <2>2. PICK f : IsLoop(f, l, s, step) /\ \A k \in 0..l : f[k] \in Ok[k]
    BY <1>1, <1>11, <2>1, Recursion
  <2>3. f = [k \in 0..l |-> IF k = 0 THEN s ELSE step[k][f[k-1]]]
    BY <2>2 DEF IsLoop
  <2>4. \A k \in 0..l : k # 0 => k \in 1..l
    BY <1>1
  <2>5. \A k \in 0..l : f[k] = IF k = 0 THEN s ELSE videomem_putchar(f[k-1], text[k])
    BY <1>8, <1>9, <1>10, <2>2, <2>3, <2>4
  <2>6. f = [k \in 0..l |-> f[k]]
    BY <2>3
  <2>7. f = [k \in 0..l |-> IF k = 0 THEN s ELSE videomem_putchar(f[k-1], text[k])]
    BY <2>5, <2>6
  <2> QED BY <1>2, <2>7 DEF IsAfter
<1> DEFINE f == After(s, text)
<1>13. f = [k \in 0..l |-> IF k = 0 THEN s ELSE videomem_putchar(f[k-1], text[k])]
  BY <1>2, <1>12 DEF After, IsAfter
<1> HIDE DEF f
<1>14. f[l] \in Ok[l]
  <2>1. 0 \in 0..l /\ l \in 0..l
    BY <1>1
  <2>2. f[0] = s /\ \A k \in 1..l : f[k] = videomem_putchar(f[k-1], text[k])
    BY <1>9, <1>13, <2>1
  <2>3. \A k \in 1..l : f[k-1] \in Ok[k-1] => f[k] \in Ok[k]
    BY <1>10, <2>2
  <2>4. \A k \in 0..l : f[k] \in Ok[k]
    BY <1>1, <1>11, <2>2, <2>3, Turns
  <2> QED BY <2>1, <2>4
<1>15. ShowsAll(f[l], all, cu, n + l)
  <2>1. l \in 0..l
    BY <1>1
  <2> QED BY <1>7, <1>14, <2>1
<1> QED BY <1>1, <1>2, <1>15 DEF f, cu, all

-----------------------------------------------------------------------------
(* The screen during the boot.                                             *)

ScreenInv ==
  /\ printed \in Seq(Plain) /\ vga \in Screens
  /\ where = "start32" => printed = <<>> /\ vga.row = 0 /\ vga.col = 0
  /\ where # "start32" => ShowsAll(vga, printed, CursorOf(printed), Len(printed))

LEMMA ClearedShows ==
  ASSUME ScreenInv, where = "start32", videomem_clrscr
  PROVE  /\ printed' \in Seq(Plain) /\ vga' \in Screens
         /\ ShowsAll(vga, printed, CursorOf(printed), Len(printed))'
<1> DEFINE s  == [vga EXCEPT !.cells = Cleared]
           cu == CursorOf(<<>>)
<1>1. ROWS \in Nat \ {0} /\ COLS \in Nat \ {0}
  BY VideoConstants
<1>2. vga \in Screens /\ printed = <<>> /\ vga.row = 0 /\ vga.col = 0 /\ vga' = s /\ printed' = <<>>
  BY DEF ScreenInv, videomem_clrscr
<1>3. Cleared \in [0..(ROWS - 1) -> [0..(COLS - 1) -> Cells]]
  BY DEF Cleared, EmptyLine, Cells
<1>4. s \in Screens /\ s.row = 0 /\ s.col = 0 /\ s.cells = Cleared
  <2> HIDE DEF Cleared
  <2> QED BY <1>2, <1>3 DEF Screens
<1> HIDE DEF s
<1>5. Len(<<>>) = 0 /\ <<>> \in Seq(Plain)
  OBVIOUS
<1>6. cu[0] = [line |-> 0, col |-> 0]
  <2> HIDE DEF cu
  <2> QED BY <1>5, CursorIs DEF cu
<1> HIDE DEF cu
<1>7. 0 % ROWS = 0
  BY <1>1
<1>8. ASSUME NEW r \in 0..(ROWS - 1), NEW c \in 0..(COLS - 1)
      PROVE  s.cells[r][c] = Shown(<<>>, There(<<>>, cu, 0, 0, r, c))
  <2>1. There(<<>>, cu, 0, 0, r, c) = {}
    BY DEF There
  <2> QED BY <1>4, <2>1 DEF Shown, Cleared, EmptyLine
<1>9. ShowsAll(s, <<>>, cu, 0)
  BY <1>4, <1>6, <1>7, <1>8 DEF ShowsAll, Shows
<1>10. ShowsAll(s, printed', CursorOf(printed'), Len(printed'))
  BY <1>2, <1>5, <1>9 DEF cu
<1> QED BY <1>2, <1>4, <1>5, <1>10

LEMMA LabelShows ==
  ASSUME ScreenInv, NEW l, NEW m, l \in Labels, l # "start32", m # "start32",
         where # "start32", videomem_puts(Messages[l]), where' = m
  PROVE  ScreenInv'
<1> DEFINE text == Messages[l]
<1>1. text \in Seq(Plain)
  BY BootstrapConstants DEF Plain
<1> HIDE DEF text
<1>2. /\ vga' = After(vga, text)[Len(text)] /\ printed' = printed \o text
  BY DEF videomem_puts, After, IsAfter, text
<1>3. ShowsAll(vga', printed', CursorOf(printed'), Len(printed'))
  BY <1>1, <1>2, PutsShows DEF ScreenInv
<1> QED BY <1>1, <1>2, <1>3 DEF ScreenInv, ShowsAll

LEMMA ScreenStep ==
  ASSUME ScreenInv, BNext
  PROVE  ScreenInv'
<1>1. CASE start32
  <2>1. where' # "start32"
    BY <1>1 DEF start32
  <2> QED BY <1>1, <2>1, ClearedShows DEF start32, ScreenInv
<1>2. CASE fail \/ check_long_mode \/ setup_identity_mapping \/ enter_long_mode
  <2>1. \E l \in Labels : where # "start32" /\ where' # "start32" /\ videomem_puts(Messages[l])
    BY <1>2 DEF fail, check_long_mode, setup_identity_mapping, enter_long_mode, Puts, Labels
  <2> QED BY <2>1, LabelShows DEF Labels
<1>3. CASE Fill \/ LoadTables \/ start64
  <2>1. where # "start32" /\ where' # "start32" /\ vga' = vga /\ printed' = printed
    BY <1>3 DEF Fill, LoadTables, start64
  <2> QED BY <2>1 DEF ScreenInv
<1> QED BY <1>1, <1>2, <1>3 DEF BNext

THEOREM ScreenInvariant == Spec => []ScreenInv
<1>1. Init => ScreenInv
  <2> SUFFICES ASSUME Init PROVE ScreenInv
    OBVIOUS
  <2>1. /\ printed = <<>> /\ where = "start32"
        /\ vga = [cells |-> [r \in 0..(ROWS - 1) |-> [k \in 0..(COLS - 1) |-> "BIOS"]],
                  row |-> 0, col |-> 0]
    BY DEF Init, BInit
  <2>2. vga \in Screens
    <3>1. 0 \in 0..(ROWS - 1) /\ 0 \in 0..(COLS - 1) /\ "BIOS" \in Cells
      BY VideoConstants DEF Cells
    <3> QED BY <2>1, <3>1 DEF Screens
  <2> QED BY <2>1, <2>2 DEF ScreenInv
<1>2. ScreenInv /\ [Next]_vars => ScreenInv'
  <2> SUFFICES ASSUME ScreenInv, [Next]_vars PROVE ScreenInv'
    OBVIOUS
  <2>1. CASE UNCHANGED bootVars
    BY <2>1 DEF ScreenInv, bootVars
  <2>2. CASE BNext
    BY <2>2, ScreenStep
  <2>3. BNext \/ UNCHANGED bootVars
    BY DEF Next, vars, Bootstrapping, MainStep, PageFault, Processor, Accepted, Tick,
           OtherDevice, Halted, Interrupt
  <2> QED BY <2>1, <2>2, <2>3
<1> QED BY <1>1, <1>2, PTL DEF Spec

(* The screen shows the last lines of what was printed, each character in  *)
(* its place and nothing else, for screens of any size and any messages.   *)
THEOREM ScreenShown == Spec => []BootScreen
<1>1. ScreenInv => BootScreen
  <2> SUFFICES ASSUME ScreenInv, where # "start32" PROVE Screen
    BY DEF BootScreen
  <2> DEFINE last       == Cursor[Len(printed)].line
             shown      == {k \in 1..Len(printed) :
                              printed[k] # "\n" /\ Cursor[k - 1].line + ROWS > last}
             there(r, c) == {k \in shown : Cursor[k - 1].line % ROWS = r
                                           /\ Cursor[k - 1].col = c}
  <2>1. Cursor = CursorOf(printed)
    BY DEF Cursor, CursorOf, IsCursor, Advance
  <2>2. Shows(vga, printed, Cursor, Len(printed), last)
    BY <2>1 DEF ScreenInv, ShowsAll
  <2>3. ASSUME NEW r, NEW c
        PROVE  there(r, c) = There(printed, Cursor, Len(printed), last, r, c)
    BY Zenon DEF There
  <2>4. ASSUME NEW r \in 0..(ROWS - 1), NEW c \in 0..(COLS - 1)
        PROVE  vga.cells[r][c] = IF there(r, c) = {} THEN Blank
                                 ELSE printed[CHOOSE k \in there(r, c) : TRUE]
    <3>1. vga.cells[r][c] = Shown(printed, There(printed, Cursor, Len(printed), last, r, c))
      BY <2>2 DEF Shows
    <3>2. vga.cells[r][c] = Shown(printed, there(r, c))
      BY <2>3, <3>1
    <3> HIDE DEF there
    <3> QED BY <3>2 DEF Shown
  <2> QED BY <2>4, Zenon DEF Screen
<1> QED BY <1>1, ScreenInvariant, PTL

-----------------------------------------------------------------------------
(* The page table.  A table of level l has entries for Span(l) addresses;  *)
(* those below the fourth level are never finished.                        *)

Span(l) ==
  IF l = 0 THEN ENTRIES_PER_TABLE * PML4_STEP ELSE IF l = 1 THEN PML4_STEP
  ELSE IF l = 2 THEN LARGE * ENTRIES_PER_TABLE ELSE IF l = 3 THEN LARGE
  ELSE IF l = 4 THEN PAGE ELSE IF l = 5 THEN PAGE \div ENTRIES_PER_TABLE ELSE 0

LEMMA SpansAre ==
  /\ ENTRIES_PER_TABLE \in Nat /\ ENTRIES_PER_TABLE >= 2
  /\ \A l \in 0..5 : Span(l) \in Nat \ {0}
  /\ \A l \in 1..5 : Span(l - 1) = ENTRIES_PER_TABLE * Span(l)
  /\ \A l \in 1..5 : Span(l) \div ENTRIES_PER_TABLE = Span(l + 1)
  /\ Span(6) = 0 /\ Span(1) = PML4_STEP
  /\ \A l \in 1..4 : Steps[l] = Span(l)
  /\ \A l \in 1..5 : Span(l) \in {PAGE, LARGE} => l \in {3, 4}
  /\ Span(3) = LARGE /\ Span(4) = PAGE /\ LARGE # PAGE
<1> DEFINE w == ENTRIES_PER_TABLE
           p == PAGE
           b == p \div w
<1>1. w \in Nat \ {0} /\ p \in Nat \ {0} /\ p % w = 0 /\ b < w
  BY PagingConstants
<1>2. b \in Nat /\ p = w * b + (p % w)
  BY <1>1, ModIs
<1>3. p = w * b /\ b \in Nat \ {0}
  <2> DEFINE x == w * b
  <2>1. x \in Nat
    BY <1>1, <1>2
  <2>2. p = x
    <3> HIDE DEF x, b
    <3> QED BY <1>1, <1>2, <2>1 DEF x
  <2>3. b # 0
    <3> HIDE DEF b
    <3> QED BY <1>1, <2>2
  <2> QED BY <1>2, <2>2, <2>3
<1>4. w >= 2
  <2> HIDE DEF b
  <2> QED BY <1>1, <1>3
<1> DEFINE s3 == p * w
           s2 == s3 * w
           s1 == s2 * w
           s0 == w * s1
<1>5. /\ Span(0) = s0 /\ Span(1) = s1 /\ Span(2) = s2 /\ Span(3) = s3 /\ Span(4) = p /\ Span(5) = b
      /\ Span(6) = 0 /\ PML4_STEP = s1 /\ LARGE = s3 /\ Steps = <<s1, s2, s3, p>>
  <2> HIDE DEF b
  <2>1. /\ Span(0) = w * PML4_STEP /\ Span(1) = PML4_STEP /\ Span(2) = LARGE * w /\ Span(3) = LARGE
        /\ Span(4) = p /\ Span(6) = 0
    BY DEF Span
  <2>2. Span(5) = b
    BY DEF Span, b
  <2> QED BY <2>1, <2>2 DEF LARGE, PML4_STEP, Steps
<1> HIDE DEF w, p, b
<1>6. /\ s3 \in Nat \ {0} /\ s3 = w * p /\ p < s3
  BY <1>1, <1>4, SMT
<1> HIDE DEF s3
<1>7. s2 \in Nat \ {0} /\ s2 = w * s3 /\ s3 < s2
  BY <1>1, <1>4, <1>6, SMT
<1> HIDE DEF s2
<1>8. s1 \in Nat \ {0} /\ s1 = w * s2 /\ s2 < s1
  BY <1>1, <1>4, <1>7, SMT
<1> HIDE DEF s1
<1>9. s0 \in Nat \ {0} /\ s0 = w * s1
  BY <1>1, <1>4, <1>8, SMT
<1> HIDE DEF s0
<1>10. b < p
  BY <1>1, <1>3, <1>4, SMT
<1>11. \A l \in 0..5 : Span(l) \in Nat \ {0}
  BY <1>1, <1>3, <1>5, <1>6, <1>7, <1>8, <1>9
<1>12. \A l \in 1..5 : Span(l - 1) = w * Span(l)
  BY <1>3, <1>5, <1>6, <1>7, <1>8, <1>9
<1>13. \A l \in 1..5 : Span(l) \div w = Span(l + 1)
  <2>1. \A l \in 1..4 : Span(l) \div w = Span(l + 1)
    <3> SUFFICES ASSUME NEW l \in 1..4 PROVE Span(l) \div w = Span(l + 1)
      OBVIOUS
    <3> DEFINE x == Span(l)
               y == Span(l + 1)
    <3>1. x = w * y + 0 /\ y \in Nat /\ 0 \in 0..(w-1)
      <4>1. l + 1 \in 1..5 /\ (l + 1) - 1 = l
        OBVIOUS
      <4>2. x = w * y /\ y \in Nat
        BY <1>11, <1>12, <4>1
      <4> HIDE DEF x, y
      <4> DEFINE z == w * y
      <4>3. z \in Nat
        BY <1>1, <4>2
      <4> HIDE DEF z
      <4>4. z = z + 0
        BY <4>3
      <4> QED BY <1>1, <4>2, <4>4 DEF z
    <3> HIDE DEF x, y
    <3>2. x \div w = y
      BY <1>1, <3>1, DivideIs
    <3> QED BY <3>2 DEF x, y
  <2>2. b \div w = 0
    <3>1. b = w * 0 + b /\ b \in 0..(w-1)
      BY <1>1, <1>3
    <3> QED BY <1>1, <3>1, DivideIs
  <2>3. \A l \in 1..5 : l \in 1..4 \/ l = 5
    OBVIOUS
  <2> QED BY <1>5, <2>1, <2>2, <2>3
<1>14. \A l \in 1..4 : Steps[l] = Span(l)
  BY <1>5
<1>15. \A l \in 1..5 : Span(l) \in {PAGE, LARGE} => l \in {3, 4}
  BY <1>1, <1>3, <1>5, <1>6, <1>7, <1>8, <1>10 DEF p
<1> QED BY <1>1, <1>4, <1>5, <1>6, <1>11, <1>12, <1>13, <1>14, <1>15 DEF w, p

(* The entry for an address in a table of a level.                         *)
Index(v, l) == (v \div Span(l)) % ENTRIES_PER_TABLE

LEMMA IndexIs ==
  ASSUME NEW v \in Nat, NEW l \in 1..5
  PROVE  /\ v \div Span(l) \in Nat /\ v \div Span(l - 1) \in Nat /\ Index(v, l) \in Entries
         /\ v \div Span(l) = ENTRIES_PER_TABLE * (v \div Span(l - 1)) + Index(v, l)
         /\ (v \div Span(l)) \div ENTRIES_PER_TABLE = v \div Span(l - 1)
<1> DEFINE w == ENTRIES_PER_TABLE
           s == Span(l)
           x == v \div s
<1>1. w \in Nat \ {0} /\ s \in Nat \ {0} /\ Span(l - 1) = w * s
  BY SpansAre
<1> HIDE DEF w, s
<1>2. x \in Nat
  BY <1>1, ModIs
<1>3. v \div (w * s) = x \div w
  BY <1>1, DividedTwice
<1> HIDE DEF x
<1>4. x \div w \in Nat /\ x % w \in 0..(w-1) /\ x = w * (x \div w) + (x % w)
  BY <1>1, <1>2, ModIs
<1> QED BY <1>1, <1>2, <1>3, <1>4 DEF x, s, w, Index, Entries

LEMMA IndexOf ==
  ASSUME NEW v \in Nat, NEW l \in 1..5, NEW n \in Nat, NEW i \in Entries,
         v \div Span(l) = ENTRIES_PER_TABLE * n + i
  PROVE  v \div Span(l - 1) = n /\ Index(v, l) = i
<1> DEFINE w == ENTRIES_PER_TABLE
           x == v \div Span(l)
<1>1. w \in Nat \ {0} /\ i \in 0..(w-1)
  BY SpansAre DEF Entries
<1>2. x \div w = v \div Span(l - 1) /\ Index(v, l) = x % w
  BY IndexIs DEF Index
<1>3. x = w * n + i
  OBVIOUS
<1> HIDE DEF w, x
<1>4. x \div w = n /\ x % w = i
  BY <1>1, <1>3, DivideIs
<1> QED BY <1>2, <1>4

(* The addresses of an entry.                                              *)
LEMMA SpanHolds ==
  ASSUME NEW v \in Nat, NEW l \in 0..5, NEW q \in Nat
  PROVE  /\ q * Span(l) \in Nat
         /\ v \div Span(l) = q <=> q * Span(l) <= v /\ v < q * Span(l) + Span(l)
         /\ v \div Span(l) = q => v % Span(l) = v - q * Span(l)
<1> DEFINE s == Span(l)
<1>1. s \in Nat \ {0}
  BY SpansAre
<1> HIDE DEF s
<1> DEFINE x == v \div s
           r == v % s
           y == q * s
<1>2. x \in Nat /\ r \in 0..(s-1) /\ v = s * x + r
  BY <1>1, ModIs
<1>3. y \in Nat /\ s * q = y
  BY <1>1
<1>4. x = q => v = y + r
  BY <1>2, <1>3
<1>5. ASSUME y <= v, v < y + s PROVE x = q
  <2> DEFINE f == v - y
  <2>1. f \in 0..(s-1) /\ v = y + f
    BY <1>1, <1>3, <1>5
  <2>2. v = s * q + f
    BY <1>3, <2>1
  <2> HIDE DEF f, y
  <2>3. v \div s = q
    <3>1. (s * q + f) \div s = q
      BY <1>1, <2>1, DivideIs
    <3> QED BY <2>2, <3>1
  <2> QED BY <2>3
<1> HIDE DEF x, r, y
<1>6. x = q <=> y <= v /\ v < y + s
  BY <1>1, <1>2, <1>3, <1>4, <1>5
<1>7. x = q => r = v - y
  BY <1>2, <1>3, <1>4
<1> QED BY <1>3, <1>6, <1>7 DEF x, r, y, s

Ptes == [kind : {"absent", "table", "page", "large"}, phys : Nat]

(* Where a table stands: its level, and its number among all tables there  *)
(* could be on that level.  Only entries for tables lead to a table.       *)
Tree(tb, at) ==
  /\ tb \in Seq([Entries -> Ptes]) /\ Len(tb) >= 1
  /\ at \in [1..Len(tb) -> [level : 1..6, number : Nat]]
  /\ at[1] = [level |-> 1, number |-> 0]
  /\ \A k \in 1..Len(tb), i \in Entries :
       /\ tb[k][i].kind = "absent" => tb[k][i] = Absent
       /\ tb[k][i].kind = "table" =>
            /\ tb[k][i].phys \in 1..Len(tb)
            /\ at[tb[k][i].phys] = [level  |-> at[k].level + 1,
                                    number |-> ENTRIES_PER_TABLE * at[k].number + i]

(* The tables on the walk for v, down to level l.                          *)
Route(tb, ts, l, v) ==
  /\ ts[1] = 1
  /\ \A j \in 1..(l - 1) : LET e == tb[ts[j]][Index(v, j)]
                           IN  e.kind = "table" /\ e.phys = ts[j+1]

Stands(tb, at, ts, j, v) ==
  ts[j] \in 1..Len(tb) /\ at[ts[j]] = [level |-> j, number |-> v \div Span(j - 1)]

LEMMA RouteIs ==
  ASSUME NEW tb, NEW at, Tree(tb, at), NEW v \in 0..(Span(0) - 1), NEW l \in 1..5, NEW ts,
         Route(tb, ts, l, v)
  PROVE  Stands(tb, at, ts, l, v)
<1> DEFINE Is(j) == ts[j] \in 1..Len(tb) /\ at[ts[j]] = [level |-> j, number |-> v \div Span(j - 1)]
           S     == {j \in Nat : j + 1 <= l => Is(j + 1)}
<1>1. v \in Nat
  BY SpansAre
<1>2. 0 \in S
  <2>1. ts[1] = 1 /\ at[1] = [level |-> 1, number |-> 0] /\ 1 \in 1..Len(tb)
    BY DEF Route, Tree
  <2>2. v \div Span(0) = 0
    <3> DEFINE s == Span(0)
    <3>1. s \in Nat \ {0} /\ v \in 0..(s-1)
      BY SpansAre
    <3> HIDE DEF s
    <3>2. v = s * 0 + v
      BY <3>1
    <3>3. v \div s = 0
      BY <3>1, <3>2, DivideIs
    <3> QED BY <3>3 DEF s
  <2>3. 0 + 1 = 1 /\ 1 - 1 = 0
    OBVIOUS
  <2> QED BY <2>1, <2>2, <2>3
<1>3. ASSUME NEW j \in Nat, j \in S
      PROVE  j + 1 \in S
  <2> SUFFICES ASSUME (j + 1) + 1 <= l PROVE Is((j + 1) + 1)
    OBVIOUS
  <2> DEFINE i == j + 1
             e == tb[ts[i]][Index(v, i)]
  <2>1. i \in 1..4 /\ i \in 1..(l - 1) /\ Is(i) /\ i + 1 \in 1..5
    BY <1>3
  <2> HIDE DEF i
  <2>2. /\ v \div Span(i) = ENTRIES_PER_TABLE * (v \div Span(i - 1)) + Index(v, i)
        /\ Index(v, i) \in Entries
    <3>1. i \in 1..5
      BY <2>1
    <3> QED BY <1>1, <3>1, IndexIs
  <2>3. e.kind = "table" /\ e.phys = ts[i + 1]
    BY <2>1 DEF Route
  <2>4. /\ e.phys \in 1..Len(tb)
        /\ at[e.phys] = [level  |-> at[ts[i]].level + 1,
                         number |-> ENTRIES_PER_TABLE * at[ts[i]].number + Index(v, i)]
    BY <2>1, <2>2, <2>3 DEF Tree
  <2>5. at[ts[i]].level = i /\ at[ts[i]].number = v \div Span(i - 1)
    BY <2>1
  <2>6. (i + 1) - 1 = i
    BY <2>1
  <2>7. Is(i + 1)
    BY <2>2, <2>3, <2>4, <2>5, <2>6
  <2> QED BY <2>7 DEF i
<1>4. l - 1 \in S
  <2> HIDE DEF S
  <2>1. Nat \subseteq S
    BY <1>2, <1>3, SetInduction
  <2> QED BY <2>1
<1>5. (l - 1) + 1 = l
  OBVIOUS
<1> QED BY <1>4, <1>5 DEF Stands

Meet(ts, us, j) == ts[j] = us[j]

LEMMA RouteUnique ==
  ASSUME NEW tb, NEW v, NEW l \in 1..6, NEW m \in 1..6, NEW ts, NEW us,
         Route(tb, ts, l, v), Route(tb, us, m, v)
  PROVE  \A j \in 1..6 : j <= l /\ j <= m => Meet(ts, us, j)
<1> SUFFICES ASSUME NEW j \in 1..6, j <= l, j <= m PROVE ts[j] = us[j]
  BY DEF Meet
<1> DEFINE S == {k \in Nat : k + 1 <= j => ts[k + 1] = us[k + 1]}
<1>1. 0 \in S
  BY DEF Route
<1>2. ASSUME NEW k \in Nat, k \in S
      PROVE  k + 1 \in S
  <2> SUFFICES ASSUME (k + 1) + 1 <= j PROVE ts[(k + 1) + 1] = us[(k + 1) + 1]
    OBVIOUS
  <2> DEFINE i == k + 1
  <2>1. i \in 1..(l - 1) /\ i \in 1..(m - 1) /\ ts[i] = us[i]
    BY <1>2
  <2> HIDE DEF i
  <2>2. ts[i + 1] = us[i + 1]
    BY <2>1 DEF Route
  <2> QED BY <2>2 DEF i
<1>3. j - 1 \in S /\ (j - 1) + 1 = j
  <2> HIDE DEF S
  <2>1. Nat \subseteq S
    BY <1>1, <1>2, SetInduction
  <2> QED BY <2>1
<1> QED BY <1>3

-----------------------------------------------------------------------------
(* The calls of map_pages for the addresses from a to z.                   *)

Frames == [table : Nat, base_offset : Nat, base_step : Nat, lin_start : Nat, lin_end : Nat,
           phys_start : Nat, i : Int, entry_end : Int]

Placed(f, d, tb, at) ==
  /\ f.table \in 1..Len(tb) /\ at[f.table].level = d /\ f.base_step = Span(d)
  /\ f.base_offset = at[f.table].number * Span(d - 1)

(* Before the entry of a call, and from there on.                          *)
Called(f, d, a, z) ==
  /\ f.i = None /\ a <= f.lin_start /\ f.phys_start = f.lin_start - a
  /\ Larger(f.lin_start, f.base_offset) = Larger(a, f.base_offset)
  /\ Least(f.lin_end, f.base_offset + Span(d - 1)) = Least(z, f.base_offset + Span(d - 1))
  /\ d >= 2 => f.lin_start < f.base_offset + Span(d - 1) /\ f.base_offset < f.lin_end

Clips(f, d, a, z) ==
  /\ f.lin_start = Larger(a, f.base_offset)
  /\ f.lin_end = Least(z, f.base_offset + Span(d - 1))
  /\ f.lin_start < f.lin_end /\ f.phys_start = f.lin_start - a
  /\ f.i \in 0..f.entry_end /\ f.entry_end \in 1..ENTRIES_PER_TABLE
  /\ f.lin_end <= f.base_offset + f.entry_end * Span(d)

(* A call has led to the next one by the entry before its i.               *)
Leads(f, g, tb) ==
  /\ f.i >= 1
  /\ LET e == tb[f.table][f.i - 1]
     IN  e.kind = "table" /\ e.phys = g.table

Calls(st, tb, at, a, z) ==
  /\ st \in Seq(Frames) /\ Len(st) <= 6
  /\ \A d \in 1..Len(st) : Placed(st[d], d, tb, at)
  /\ \A d \in 1..Len(st) : d < Len(st) => Clips(st[d], d, a, z) /\ Leads(st[d], st[d+1], tb)
  /\ st # <<>> =>
       /\ st[1].table = 1
       /\ Len(st) <= 5 => \/ Called(st[Len(st)], Len(st), a, z)
                          \/ Clips(st[Len(st)], Len(st), a, z)
  /\ Len(st) = 5 => st[5].i < st[5].entry_end \/ st[5].i = None
  /\ Len(st) = 6 => st[6].i = None /\ st[5].i >= 1
  /\ Len(st) <= 4 => \A k \in 1..Len(tb) : at[k].level <= 4

LEMMA CallsRoute ==
  ASSUME NEW tb, NEW at, Tree(tb, at), NEW st, NEW a, NEW z, Calls(st, tb, at, a, z),
         NEW d \in 1..5, d = Len(st), NEW v \in Nat,
         v \div Span(d - 1) = at[st[d].table].number
  PROVE  Route(tb, [j \in 1..d |-> st[j].table], d, v)
<1> DEFINE Is(j) == v \div Span(j - 1) = at[st[j].table].number
           S     == {k \in Nat : k < d => Is(d - k)}
<1>1. 0 \in S
  <2>1. d - 0 = d
    OBVIOUS
  <2> QED BY <2>1
<1>2. ASSUME NEW k \in Nat, k + 1 < d, Is(d - k)
      PROVE  /\ Is(d - (k + 1))
             /\ st[d - (k + 1)].i - 1 = Index(v, d - (k + 1))
  <2> DEFINE j == d - (k + 1)
             f == st[j]
             g == st[j + 1]
             n == at[f.table].number
             i == f.i - 1
  <2>1. j \in 1..4 /\ j + 1 = d - k /\ j < Len(st) /\ j \in 1..Len(st) /\ (j + 1) - 1 = j
    <3>1. j \in 1..4 /\ j + 1 = d - k /\ j < d /\ j \in 1..d /\ (j + 1) - 1 = j
      BY <1>2
    <3> HIDE DEF j
    <3> QED BY <3>1
  <2> HIDE DEF j
  <2>2. Clips(f, j, a, z) /\ Leads(f, g, tb) /\ Placed(f, j, tb, at) /\ f \in Frames
    <3>1. Placed(f, j, tb, at) /\ f \in Frames
      BY <2>1 DEF Calls
    <3>2. Clips(f, j, a, z) /\ Leads(f, g, tb)
      BY <2>1 DEF Calls
    <3> QED BY <3>1, <3>2
  <2>3. i \in Entries
    <3>1. f.i \in 0..f.entry_end /\ f.entry_end \in 1..ENTRIES_PER_TABLE /\ f.i >= 1
      BY <2>2 DEF Clips, Leads
    <3> DEFINE x == f.i
               y == f.entry_end
    <3>2. x \in 0..y /\ y \in 1..ENTRIES_PER_TABLE /\ x >= 1 /\ ENTRIES_PER_TABLE \in Nat
      BY <3>1, SpansAre
    <3> HIDE DEF x, y
    <3> QED BY <3>2 DEF x, Entries
  <2>4. at[g.table].number = ENTRIES_PER_TABLE * n + i
    <3>1. f.table \in 1..Len(tb) /\ tb[f.table][i].kind = "table" /\ tb[f.table][i].phys = g.table
      BY <2>2 DEF Leads, Placed
    <3> DEFINE tk == f.table
    <3> HIDE DEF f, g, i, tk
    <3>2. /\ tk \in 1..Len(tb) /\ i \in Entries
          /\ tb[tk][i].kind = "table" /\ tb[tk][i].phys = g.table
      BY <2>3, <3>1 DEF tk
    <3>3. at[tb[tk][i].phys] = [level  |-> at[tk].level + 1,
                               number |-> ENTRIES_PER_TABLE * at[tk].number + i]
      BY <3>2 DEF Tree
    <3>4. at[g.table].number = ENTRIES_PER_TABLE * at[tk].number + i
      BY <3>2, <3>3
    <3> QED BY <3>4 DEF tk, n
  <2>5. n \in Nat
    BY <2>2 DEF Tree, Placed
  <2>6. v \div Span(j) = ENTRIES_PER_TABLE * n + i
    BY <1>2, <2>1, <2>4
  <2> HIDE DEF n, i
  <2>7. v \div Span(j - 1) = n /\ Index(v, j) = i
    BY <2>1, <2>3, <2>5, <2>6, IndexOf
  <2> QED BY <2>7 DEF j, n, i
<1>3. ASSUME NEW k \in Nat, k \in S
      PROVE  k + 1 \in S
  BY <1>2, <1>3
<1>4. Nat \subseteq S
  <2> HIDE DEF S
  <2> QED BY <1>1, <1>3, SetInduction
<1>5. ASSUME NEW j \in 1..(d - 1)
      PROVE  LET e == tb[st[j].table][Index(v, j)]
             IN  e.kind = "table" /\ e.phys = st[j+1].table
  <2> DEFINE k == d - j - 1
  <2>1. k \in Nat /\ k + 1 < d /\ d - (k + 1) = j /\ k < d
    OBVIOUS
  <2> HIDE DEF k
  <2>2. Is(d - k)
    BY <1>4, <2>1
  <2>3. st[j].i - 1 = Index(v, j)
    BY <1>2, <2>1, <2>2
  <2>4. Leads(st[j], st[j+1], tb)
    BY DEF Calls
  <2> QED BY <2>3, <2>4 DEF Leads
<1>6. st[1].table = 1
  BY DEF Calls
<1> DEFINE ts == [j \in 1..d |-> st[j].table]
<1>7. \A j \in 1..d : ts[j] = st[j].table
  OBVIOUS
<1>8. \A j \in 1..(d - 1) : ts[j] = st[j].table /\ ts[j+1] = st[j+1].table
  OBVIOUS
<1>9. ts[1] = 1
  BY <1>6, <1>7
<1> HIDE DEF ts
<1>10. Route(tb, ts, d, v)
  BY <1>5, <1>8, <1>9 DEF Route
<1> QED BY <1>10 DEF ts

-----------------------------------------------------------------------------
(* What is mapped: D is the set of the addresses that are done, M says     *)
(* where they are meant to lead.                                           *)

Gives(e, v, M) ==
  /\ e.kind = "page" => e.phys + (v % PAGE) = M[v]
  /\ e.kind = "large" => e.phys + (v % LARGE) = M[v]

Correct(tb, D, M) ==
  \A v \in 0..(Span(0) - 1), l \in 1..4 : \A ts :
    Route(tb, ts, l, v) =>
      LET e == tb[ts[l]][Index(v, l)]
      IN  (e.kind = "absent" => v \notin D) /\ Gives(e, v, M)

(* How far a call has come, and what it has left behind: B was done before.*)
Progress(f) ==
  Larger(f.lin_start, f.base_offset + (IF f.i = None THEN 0 ELSE f.i * f.base_step))

DoneBy(st, a, z, B) ==
  {v \in 0..(Span(0) - 1) : v \in B \/ (a <= v /\ v < z /\ (st = <<>> \/ v < Progress(st[Len(st)])))}

Kept(tb, st, at, a, z, B, M) ==
  Tree(tb, at) /\ Calls(st, tb, at, a, z) /\ Correct(tb, DoneBy(st, a, z, B), M)

LEMMA CorrectKept ==
  ASSUME NEW tb, NEW D, NEW M, Correct(tb, D, M), NEW E, E \subseteq D
  PROVE  Correct(tb, E, M)
BY Zenon DEF Correct

LEMMA Replaced ==
  ASSUME NEW X, NEW s \in Seq(X), s # <<>>
  PROVE  LET n == Len(s)
             p == SubSeq(s, 1, n - 1)
         IN  /\ n \in Nat \ {0} /\ s[n] \in X
             /\ p \in Seq(X) /\ Len(p) = n - 1 /\ \A j \in 1..(n-1) : p[j] = s[j]
             /\ \A g \in X : LET u == Append(p, g)
                             IN  /\ u \in Seq(X) /\ Len(u) = n /\ u[n] = g
                                 /\ \A j \in 1..(n-1) : u[j] = s[j]
<1> DEFINE n == Len(s)
           p == SubSeq(s, 1, n - 1)
<1>1. n \in Nat \ {0} /\ s[n] \in X
  OBVIOUS
<1> HIDE DEF n
<1>2. p \in Seq(X) /\ Len(p) = n - 1 /\ \A j \in 1..(n-1) : p[j] = s[j]
  <2>1. n - 1 \in Nat /\ n - 1 <= Len(s)
    BY <1>1 DEF n
  <2> QED BY <2>1
<1> HIDE DEF p
<1>3. ASSUME NEW g \in X
      PROVE  LET u == Append(p, g)
             IN  /\ u \in Seq(X) /\ Len(u) = n /\ u[n] = g
                 /\ \A j \in 1..(n-1) : u[j] = s[j]
  BY <1>1, <1>2
<1> QED BY <1>1, <1>2, <1>3 DEF n, p

LEMMA ClippedIs ==
  ASSUME NEW f \in Frames, NEW d \in 1..5, NEW a \in Nat, NEW z \in Nat,
         f.base_step = Span(d), Called(f, d, a, z)
  PROVE  LET c == Clipped(f)
         IN  /\ c \in Frames
             /\ c.table = f.table /\ c.base_offset = f.base_offset /\ c.base_step = f.base_step
             /\ c.lin_start = Larger(a, f.base_offset)
             /\ c.lin_start = Larger(f.lin_start, f.base_offset)
             /\ c.lin_end = Least(z, f.base_offset + Span(d - 1))
             /\ c.lin_end = Least(f.lin_end, f.base_offset + Span(d - 1))
             /\ c.phys_start = c.lin_start - a
<1> DEFINE c    == Clipped(f)
           base == f.base_offset
           top  == base + Span(d - 1)
           ls   == Larger(f.lin_start, base)
           le   == Least(f.lin_end, top)
           ps   == f.phys_start + Larger(base - f.lin_start, 0)
<1>1. ENTRIES_PER_TABLE * f.base_step = Span(d - 1) /\ Span(d - 1) \in Nat
  BY SpansAre
<1>2. c = [f EXCEPT !.lin_start = ls, !.phys_start = ps, !.lin_end = le]
  BY <1>1 DEF Clipped
<1>3. /\ f.lin_start \in Nat /\ f.lin_end \in Nat /\ base \in Nat /\ top \in Nat
      /\ f.phys_start = f.lin_start - a /\ a <= f.lin_start
      /\ ls = Larger(a, base) /\ le = Least(z, top)
  BY <1>1 DEF Frames, Called
<1>4. ls \in Nat /\ le \in Nat /\ ps \in Nat /\ ps = ls - a
  BY <1>3 DEF Larger, Least
<1> HIDE DEF ls, le, ps, c, top
<1>5. c \in Frames
  BY <1>2, <1>4 DEF Frames
<1>6. /\ c.table = f.table /\ c.base_offset = base /\ c.base_step = f.base_step
      /\ c.lin_start = ls /\ c.lin_end = le /\ c.phys_start = ps
  BY <1>2 DEF Frames
<1> QED BY <1>3, <1>4, <1>5, <1>6 DEF ls, le, top, c

(* The numbers of the first entry and of the last.                         *)
LEMMA EntriesAre ==
  ASSUME NEW w \in Nat \ {0}, NEW x \in Nat, NEW y \in Nat
  PROVE  /\ x \div w \in Nat /\ (x \div w) * w <= x
         /\ (y + w - 1) \div w \in Nat /\ y <= ((y + w - 1) \div w) * w
<1> DEFINE p == x \div w
           u == y + w - 1
           q == u \div w
           r == u % w
<1>1. p \in Nat /\ x % w \in 0..(w-1) /\ x = w * p + (x % w)
  BY ModIs
<1>2. u \in Nat
  OBVIOUS
<1>3. u = y + w - 1
  OBVIOUS
<1> HIDE DEF u
<1>4. q \in Nat /\ r \in 0..(w-1) /\ u = w * q + r
  BY <1>2, ModIs
<1> HIDE DEF p, q, r
<1>5. p * w <= x
  BY <1>1, SMT
<1>6. y <= q * w
  BY <1>3, <1>4, SMT
<1> QED BY <1>1, <1>4, <1>5, <1>6 DEF p, q, u

(* The entry of a call leaves the progress where it was.                   *)
LEMMA EnterKeeps ==
  ASSUME NEW at, NEW a \in Nat, NEW z \in Nat, NEW B, NEW M,
         Kept(tables, stack, at, a, z, B, M), Enter
  PROVE  Kept(tables', stack', at, a, z, B, M)
<1> DEFINE f     == Top
           d     == Len(stack)
           c     == Clipped(f)
           start == (c.lin_start - c.base_offset) \div c.base_step
           ee    == EntryEnd(c)
           g     == [c EXCEPT !.i = start, !.entry_end = ee]
<1>1. /\ stack \in Seq(Frames) /\ stack # <<>> /\ d \in 1..6 /\ f \in Frames /\ f = stack[d]
      /\ Placed(f, d, tables, at) /\ f.i = None
  <2>1. stack \in Seq(Frames) /\ stack # <<>> /\ f.i = None
    BY DEF Kept, Calls, Enter
  <2>2. d \in Nat \ {0} /\ d <= 6 /\ stack[d] \in Frames
    BY <2>1, Replaced DEF Kept, Calls
  <2>3. d \in 1..6 /\ d \in 1..Len(stack)
    <3>1. d = Len(stack)
      OBVIOUS
    <3>2. d \in Nat \ {0} /\ d <= 6
      BY <2>2
    <3> HIDE DEF d
    <3>3. d \in 1..6
      BY <3>2
    <3>4. d \in 1..d
      BY <3>3
    <3> QED BY <3>1, <3>3, <3>4
  <2>4. f = stack[d]
    BY DEF Top
  <2> QED BY <2>1, <2>2, <2>3, <2>4 DEF Kept, Calls
<1>2. CASE UNCHANGED <<tables, stack>>
  BY <1>2
<1>3. CASE ~UNCHANGED <<tables, stack>>
  <2>1. /\ tables' = tables /\ ~(f.lin_start >= f.lin_end) /\ f.base_step # 0
        /\ \/ c.lin_start >= c.lin_end /\ stack' = Pop
           \/ /\ ~(c.lin_start >= c.lin_end)
              /\ start < ee /\ ee <= ENTRIES_PER_TABLE /\ stack' = Append(Pop, g)
    BY <1>3 DEF Enter, Dies
  <2>2. d \in 1..5 /\ f.base_step = Span(d) /\ d \in 1..Len(stack)
    <3>1. f.base_step = Span(d)
      BY <1>1 DEF Placed
    <3>2. d # 6
      BY <2>1, <3>1, SpansAre
    <3> QED BY <1>1, <3>1, <3>2
  <2>3. Called(f, d, a, z) /\ Tree(tables, at) /\ Calls(stack, tables, at, a, z)
    <3>1. Called(f, d, a, z) \/ Clips(f, d, a, z)
      BY <1>1, <2>2 DEF Kept, Calls
    <3>2. ~Clips(f, d, a, z)
      <4>1. None \notin 0..f.entry_end
        BY DEF None
      <4> QED BY <1>1, <4>1 DEF Clips
    <3> QED BY <3>1, <3>2 DEF Kept
  <2> DEFINE base == f.base_offset
             n    == at[f.table].number
  <2>4. /\ c \in Frames /\ c.table = f.table /\ c.base_offset = base /\ c.base_step = Span(d)
        /\ c.lin_start = Larger(a, base) /\ c.lin_start = Larger(f.lin_start, base)
        /\ c.lin_end = Least(z, base + Span(d - 1))
        /\ c.lin_end = Least(f.lin_end, base + Span(d - 1))
        /\ c.phys_start = c.lin_start - a
    BY <1>1, <2>2, <2>3, ClippedIs
  <2>5. /\ base \in Nat /\ f.lin_start \in Nat /\ f.lin_end \in Nat
        /\ c.lin_start \in Nat /\ c.lin_end \in Nat
        /\ f.table \in 1..Len(tables) /\ at[f.table].level = d /\ base = n * Span(d - 1)
        /\ Span(d) \in Nat \ {0} /\ Span(d - 1) \in Nat \ {0}
        /\ ENTRIES_PER_TABLE \in Nat /\ f.lin_start < f.lin_end
    <3>1. /\ base \in Nat /\ f.lin_start \in Nat /\ f.lin_end \in Nat
          /\ c.lin_start \in Nat /\ c.lin_end \in Nat
      <4> HIDE DEF c
      <4> QED BY <1>1, <2>4 DEF Frames
    <3>2. f.table \in 1..Len(tables) /\ at[f.table].level = d /\ base = n * Span(d - 1)
      BY <1>1 DEF Placed
    <3>3. Span(d) \in Nat \ {0} /\ Span(d - 1) \in Nat \ {0} /\ ENTRIES_PER_TABLE \in Nat
      <4>1. d - 1 \in 0..5 /\ d \in 0..5
        BY <2>2
      <4> HIDE DEF d
      <4> QED BY <4>1, SpansAre
    <3> HIDE DEF f
    <3>4. f.lin_start < f.lin_end
      BY <2>1, <3>1
    <3> QED BY <3>1, <3>2, <3>3, <3>4
  <2> HIDE DEF c, f, g, start, ee, base, n, d
  <2>6. CASE c.lin_start >= c.lin_end /\ stack' = Pop
    <3>1. d = 1
      <4> SUFFICES ASSUME d >= 2 PROVE FALSE
        BY <2>2
      <4>1. f.lin_start < base + Span(d - 1) /\ base < f.lin_end
        BY <2>3 DEF Called, base
      <4> QED BY <2>4, <2>5, <2>6, <4>1 DEF Larger, Least
    <3>2. stack' = <<>>
      BY <1>1, <2>6, <3>1 DEF Pop, d
    <3>3. base = 0
      <4>1. f.table = 1
        BY <1>1, <2>3, <3>1 DEF Calls
      <4>2. n = 0
        BY <2>3, <4>1 DEF Tree, n
      <4> QED BY <2>5, <4>2
    <3>4. ASSUME NEW v \in 0..(Span(0) - 1), a <= v, v < z PROVE FALSE
      <4>1. c.lin_start = a /\ c.lin_end = Least(z, Span(0)) /\ Span(0) \in Nat
        BY <2>4, <2>5, <3>1, <3>3 DEF Larger
      <4> QED BY <2>5, <2>6, <3>4, <4>1 DEF Least
    <3>5. Calls(stack', tables, at, a, z)
      <4>1. stack' \in Seq(Frames) /\ Len(stack') = 0
        BY <3>2
      <4>2. \A k \in 1..Len(tables) : at[k].level <= 4
        BY <2>3, <3>1 DEF Calls, d
      <4> QED BY <3>2, <4>1, <4>2 DEF Calls
    <3>6. DoneBy(stack', a, z, B) \subseteq DoneBy(stack, a, z, B)
      BY <3>4 DEF DoneBy
    <3>7. Correct(tables, DoneBy(stack', a, z, B), M)
      BY <3>6, CorrectKept DEF Kept
    <3> QED BY <2>1, <2>3, <3>5, <3>7 DEF Kept
  <2>7. CASE /\ ~(c.lin_start >= c.lin_end)
             /\ start < ee /\ ee <= ENTRIES_PER_TABLE /\ stack' = Append(Pop, g)
    <3>1. /\ start \in Nat /\ ee \in Nat /\ start * Span(d) <= c.lin_start - base
          /\ c.lin_end - base <= ee * Span(d)
      <4> DEFINE x == c.lin_start - base
                 y == c.lin_end - base
      <4>1. x \in Nat /\ y \in Nat
        <5>1. base \in Nat /\ f.lin_start \in Nat /\ c.lin_start \in Nat /\ c.lin_end \in Nat
          BY <2>5
        <5>2. c.lin_start = Larger(f.lin_start, base)
          BY <2>4
        <5>3. base <= c.lin_start
          BY <5>1, <5>2 DEF Larger
        <5>4. c.lin_start < c.lin_end
          BY <2>7, <5>1
        <5> QED BY <5>1, <5>3, <5>4
      <4>2. start = x \div Span(d) /\ ee = (y + Span(d) - 1) \div Span(d)
        BY <2>4 DEF start, ee, EntryEnd
      <4> HIDE DEF x, y
      <4>3. start \in Nat /\ start * Span(d) <= x /\ ee \in Nat /\ y <= ee * Span(d)
        BY <2>5, <4>1, <4>2, EntriesAre
      <4> QED BY <4>3 DEF x, y
    <3>2. /\ g \in Frames /\ g.table = f.table /\ g.base_offset = base /\ g.base_step = Span(d)
          /\ g.lin_start = c.lin_start /\ g.lin_end = c.lin_end /\ g.phys_start = c.phys_start
          /\ g.i = start /\ g.entry_end = ee
      <4> DEFINE s == start
                 e == ee
      <4>1. g = [c EXCEPT !.i = s, !.entry_end = e]
        BY DEF g
      <4>2. s \in Int /\ e \in Int
        BY <3>1
      <4> HIDE DEF s, e
      <4>3. g \in Frames
        BY <2>4, <4>1, <4>2 DEF Frames
      <4>4. /\ g.table = c.table /\ g.base_offset = c.base_offset /\ g.base_step = c.base_step
            /\ g.lin_start = c.lin_start /\ g.lin_end = c.lin_end /\ g.phys_start = c.phys_start
            /\ g.i = s /\ g.entry_end = e
        BY <2>4, <4>1 DEF Frames
      <4> QED BY <2>4, <4>3, <4>4 DEF s, e
    <3>3. Placed(g, d, tables, at)
      BY <1>1, <3>2 DEF Placed, base
    <3>4. Clips(g, d, a, z)
      <4> DEFINE x == ee * Span(d)
      <4>1. x \in Nat /\ g.lin_end <= base + x
        <5>1. base \in Nat /\ c.lin_end \in Nat /\ Span(d) \in Nat /\ ee \in Nat
          BY <2>5, <3>1
        <5>2. x \in Nat
          BY <5>1
        <5> HIDE DEF x
        <5>3. c.lin_end - base <= x
          BY <3>1 DEF x
        <5>4. c.lin_end <= base + x
          BY <5>1, <5>2, <5>3
        <5> QED BY <3>2, <5>2, <5>4
      <4>2. g.i \in 0..g.entry_end /\ g.entry_end \in 1..ENTRIES_PER_TABLE
        BY <2>5, <2>7, <3>1, <3>2
      <4> HIDE DEF x
      <4>3. g.lin_start < g.lin_end
        BY <2>5, <2>7, <3>2
      <4> QED BY <2>4, <3>2, <4>1, <4>2, <4>3 DEF Clips, x
    <3>5. /\ stack' \in Seq(Frames) /\ Len(stack') = d /\ stack'[d] = g
          /\ \A j \in 1..(d-1) : stack'[j] = stack[j]
      BY <1>1, <2>7, <3>2, Replaced DEF Pop, d
    <3>6. Progress(g) = Progress(f)
      <4> DEFINE x == start * Span(d)
      <4>1. x \in Nat /\ base + x <= c.lin_start
        <5>1. base \in Nat /\ c.lin_start \in Nat /\ Span(d) \in Nat /\ start \in Nat
          BY <2>5, <3>1
        <5>2. x \in Nat
          BY <5>1
        <5> HIDE DEF x
        <5>3. x <= c.lin_start - base
          BY <3>1 DEF x
        <5> QED BY <5>1, <5>2, <5>3
      <4>2. Progress(g) = Larger(c.lin_start, base + x)
        <5>1. start # None
          BY <3>1 DEF None
        <5> QED BY <3>2, <5>1 DEF Progress
      <4> HIDE DEF x
      <4>3. Progress(f) = Larger(f.lin_start, base + 0)
        BY <1>1 DEF Progress, base
      <4> QED BY <2>4, <2>5, <4>1, <4>2, <4>3 DEF Larger
    <3>7. DoneBy(stack', a, z, B) = DoneBy(stack, a, z, B)
      <4>1. stack' # <<>> /\ stack # <<>> /\ stack'[Len(stack')] = g /\ stack[Len(stack)] = f
        BY <1>1, <2>2, <3>5 DEF d
      <4> QED BY <3>6, <4>1 DEF DoneBy
    <3>8. Calls(stack', tables, at, a, z)
      <4>1. ASSUME NEW j \in 1..d PROVE Placed(stack'[j], j, tables, at)
        <5>1. j \in 1..(d-1) \/ j = d
          BY <2>2
        <5> QED BY <2>2, <2>3, <3>3, <3>5, <5>1 DEF Calls, d
      <4>2. ASSUME NEW j \in 1..d, j < d
            PROVE  Clips(stack'[j], j, a, z) /\ Leads(stack'[j], stack'[j+1], tables)
        <5>1. stack'[j] = stack[j] /\ Clips(stack[j], j, a, z) /\ Leads(stack[j], stack[j+1], tables)
          BY <2>2, <2>3, <3>5, <4>2 DEF Calls, d
        <5>2. stack'[j+1].table = stack[j+1].table
          <6>1. j+1 \in 1..(d-1) \/ j+1 = d
            BY <2>2, <4>2
          <6> QED BY <1>1, <3>2, <3>5, <6>1
        <5> QED BY <5>1, <5>2 DEF Leads
      <4>3. stack'[1].table = 1
        <5>1. stack[1].table = 1
          BY <1>1, <2>3 DEF Calls
        <5>2. 1 \in 1..(d-1) \/ d = 1
          BY <2>2
        <5> QED BY <1>1, <3>2, <3>5, <5>1, <5>2
      <4>4. d <= 4 => \A k \in 1..Len(tables) : at[k].level <= 4
        BY <2>3 DEF Calls, d
      <4>5. g.i < g.entry_end
        BY <2>7, <3>2
      <4> QED BY <2>2, <3>4, <3>5, <4>1, <4>2, <4>3, <4>4, <4>5 DEF Calls
    <3> QED BY <2>1, <2>3, <3>7, <3>8 DEF Kept
  <2> QED BY <2>1, <2>6, <2>7
<1> QED BY <1>2, <1>3

LEMMA RoutePrefix ==
  ASSUME NEW tb, NEW ts, NEW v, NEW l \in 1..6, NEW j \in 1..6, j <= l, Route(tb, ts, l, v)
  PROVE  Route(tb, ts, j, v)
<1>1. \A m \in 1..(j-1) : m \in 1..(l-1)
  OBVIOUS
<1> QED BY <1>1 DEF Route

(* The innermost call at an entry, and after it.                           *)
LEMMA InLoopIs ==
  ASSUME NEW at, NEW a \in Nat, NEW z \in Nat, NEW B, NEW M,
         Kept(tables, stack, at, a, z, B, M), InLoop
  PROVE  LET f == Top
             d == Len(stack)
             n == at[f.table].number
             g == [f EXCEPT !.i = @ + 1]
         IN  /\ stack \in Seq(Frames) /\ stack # <<>> /\ d \in 1..5 /\ f \in Frames /\ f = stack[d]
             /\ f.i \in Entries /\ f.table \in 1..Len(tables) /\ n \in Nat
             /\ at[f.table] = [level |-> d, number |-> n]
             /\ f.base_step = Span(d) /\ f.base_offset = n * Span(d - 1) /\ f.base_offset \in Nat
             /\ Clips(f, d, a, z) /\ Placed(f, d, tables, at)
             /\ CurStart(f) = (ENTRIES_PER_TABLE * n + f.i) * Span(d) /\ CurStart(f) \in Nat
             /\ f.base_offset <= CurStart(f) /\ CurEnd(f) <= f.base_offset + Span(d - 1)
             /\ CurEnd(f) = CurStart(f) + Span(d)
             /\ Progress(f) = Larger(f.lin_start, CurStart(f))
             /\ g \in Frames /\ g.table = f.table /\ g.i = f.i + 1 /\ Progress(g) = Larger(f.lin_start, CurEnd(f))
             /\ Placed(g, d, tables, at) /\ Clips(g, d, a, z)
<1> DEFINE f == Top
           d == Len(stack)
           n == at[f.table].number
           g == [f EXCEPT !.i = @ + 1]
<1>1. stack \in Seq(Frames) /\ stack # <<>> /\ d \in 1..6 /\ f \in Frames /\ f = stack[d]
  <2>1. stack \in Seq(Frames) /\ stack # <<>>
    BY DEF Kept, Calls, InLoop
  <2>2. d \in Nat \ {0} /\ d <= 6 /\ stack[d] \in Frames
    BY <2>1, Replaced DEF Kept, Calls
  <2>3. d \in 1..6
    <3> HIDE DEF d
    <3> QED BY <2>2
  <2>4. f = stack[d]
    BY DEF Top
  <2> QED BY <2>1, <2>2, <2>3, <2>4
<1>2. f.i # None /\ f.i < f.entry_end
  BY DEF InLoop
<1>3. d \in 1..5 /\ Clips(f, d, a, z) /\ Placed(f, d, tables, at)
  <2>1. d # 6
    <3>1. Len(stack) = 6 => stack[6].i = None
      BY DEF Kept, Calls
    <3> QED BY <1>1, <1>2, <3>1
  <2>2. Called(f, d, a, z) \/ Clips(f, d, a, z)
    BY <1>1, <2>1 DEF Kept, Calls
  <2>3. d \in 1..Len(stack)
    BY <1>1
  <2> QED BY <1>1, <1>2, <2>1, <2>2, <2>3 DEF Called, Kept, Calls
<1>4. /\ f.table \in 1..Len(tables) /\ n \in Nat /\ at[f.table] = [level |-> d, number |-> n]
      /\ f.base_step = Span(d) /\ f.base_offset = n * Span(d - 1)
  <2>1. /\ f.table \in 1..Len(tables) /\ at[f.table].level = d /\ f.base_step = Span(d)
        /\ f.base_offset = n * Span(d - 1)
    BY <1>3 DEF Placed
  <2>2. at[f.table] \in [level : 1..6, number : Nat]
    BY <2>1 DEF Kept, Tree
  <2> QED BY <2>1, <2>2
<1> DEFINE w == ENTRIES_PER_TABLE
           s == Span(d)
           i == f.i
           e == f.entry_end
           base == f.base_offset
<1>5. w \in Nat /\ s \in Nat \ {0} /\ Span(d - 1) = w * s
  <2> HIDE DEF d
  <2> QED BY <1>3, SpansAre
<1>6. i \in 0..e /\ e \in 1..w /\ i < e /\ base \in Nat /\ i \in Nat
  <2>1. i \in 0..e /\ e \in 1..w
    BY <1>3 DEF Clips
  <2>2. base \in Nat
    <3> HIDE DEF f
    <3> QED BY <1>1 DEF Frames
  <2>3. i < e
    BY <1>2
  <2> HIDE DEF i, e, w
  <2> QED BY <1>5, <2>1, <2>2, <2>3
<1>7. /\ CurStart(f) = base + i * s /\ CurEnd(f) = CurStart(f) + s /\ base = n * (w * s)
  BY <1>4, <1>5 DEF CurStart, CurEnd
<1>8. i \in Entries
  <2> HIDE DEF i, e
  <2> QED BY <1>5, <1>6 DEF Entries
<1> HIDE DEF w, s, i, e, n
<1> DEFINE x == i * s
           y == w * s
<1>9. x \in Nat /\ x + s <= y /\ x + s = (i + 1) * s /\ (w * n + i) * s = n * y + x /\ y \in Nat
  BY <1>4, <1>5, <1>6, SMT
<1>10. /\ CurStart(f) = (w * n + i) * s /\ CurStart(f) \in Nat /\ base <= CurStart(f)
       /\ CurEnd(f) <= base + y /\ CurEnd(f) = base + (i + 1) * s
  <2> HIDE DEF f, x, y, base
  <2>1. CurStart(f) = base + x /\ CurEnd(f) = CurStart(f) + s /\ base = n * y
    BY <1>7 DEF x, y
  <2>2. CurStart(f) \in Nat /\ base <= CurStart(f) /\ CurEnd(f) <= base + y /\ CurEnd(f) = base + (x + s)
    BY <1>5, <1>6, <1>9, <2>1
  <2> QED BY <1>9, <2>1, <2>2
<1>11. g \in Frames /\ g.i = i + 1 /\ g.table = f.table /\ g.base_offset = base /\ g.base_step = f.base_step
       /\ g.lin_start = f.lin_start /\ g.lin_end = f.lin_end /\ g.phys_start = f.phys_start
       /\ g.entry_end = f.entry_end
  <2> DEFINE i1 == i + 1
  <2>1. i1 \in Int /\ g = [f EXCEPT !.i = i1]
    BY <1>6 DEF i
  <2> HIDE DEF i1, g, f
  <2>2. g \in Frames
    BY <1>1, <2>1 DEF Frames
  <2>3. /\ g.i = i1 /\ g.table = f.table /\ g.base_offset = f.base_offset /\ g.base_step = f.base_step
        /\ g.lin_start = f.lin_start /\ g.lin_end = f.lin_end /\ g.phys_start = f.phys_start
        /\ g.entry_end = f.entry_end
    BY <1>1, <2>1 DEF Frames
  <2> QED BY <2>2, <2>3 DEF i1
<1>12. Progress(f) = Larger(f.lin_start, CurStart(f))
  BY <1>2, <1>7, <1>4 DEF Progress, i, s
<1>13. Progress(g) = Larger(f.lin_start, CurEnd(f))
  <2>1. g.i # None
    BY <1>6, <1>11 DEF None
  <2>2. Progress(g) = Larger(f.lin_start, base + (i + 1) * s)
    <3> HIDE DEF g
    <3> QED BY <1>4, <1>11, <2>1 DEF Progress, s
  <2> QED BY <1>10, <2>2
<1>14. Placed(g, d, tables, at)
  <2> HIDE DEF g, f
  <2> QED BY <1>3, <1>11 DEF Placed
<1>15. Clips(g, d, a, z)
  <2>1. g.i \in 0..g.entry_end
    BY <1>6, <1>11 DEF i, e
  <2> HIDE DEF g, f
  <2> QED BY <1>3, <1>11, <2>1 DEF Clips
<1> QED BY <1>1, <1>3, <1>4, <1>5, <1>6, <1>7, <1>8, <1>10, <1>11, <1>12, <1>13, <1>14, <1>15 DEF n, i, s, w

(* The calls when the innermost goes on to its next entry.                 *)
LEMMA NextEntryIs ==
  ASSUME NEW at, NEW a \in Nat, NEW z \in Nat, NEW B, NEW M,
         Kept(tables, stack, at, a, z, B, M), InLoop,
         NEW tb, NEW bt, Len(tb) \in Nat, Len(tb) >= Len(tables),
         \A k \in 1..Len(tables) : bt[k] = at[k] /\ (k # Top.table => tb[k] = tables[k])
  PROVE  LET u == NextEntry
             d == Len(stack)
             g == [Top EXCEPT !.i = @ + 1]
         IN  /\ u \in Seq(Frames) /\ Len(u) = d /\ u[d] = g /\ u[1].table = 1
             /\ \A j \in 1..d : Placed(u[j], j, tb, bt)
             /\ \A j \in 1..(d-1) : Clips(u[j], j, a, z) /\ Leads(u[j], u[j+1], tb)
<1> DEFINE u == NextEntry
           d == Len(stack)
           f == Top
           g == [f EXCEPT !.i = @ + 1]
<1>1. /\ stack \in Seq(Frames) /\ stack # <<>> /\ d \in 1..5 /\ f \in Frames /\ f = stack[d]
      /\ at[f.table].level = d
      /\ g \in Frames /\ g.table = f.table /\ g.i = f.i + 1
      /\ Placed(g, d, tables, at) /\ Clips(g, d, a, z)
  <2>1. at[f.table] = [level |-> d, number |-> at[f.table].number]
    BY InLoopIs
  <2>2. at[f.table].level = d
    <3> HIDE DEF f, d
    <3> QED BY <2>1
  <2>3. /\ stack \in Seq(Frames) /\ stack # <<>> /\ d \in 1..5 /\ f \in Frames /\ f = stack[d]
        /\ g \in Frames /\ g.table = f.table /\ g.i = f.i + 1
        /\ Placed(g, d, tables, at) /\ Clips(g, d, a, z)
    BY InLoopIs
  <2> QED BY <2>2, <2>3
<1>2. Calls(stack, tables, at, a, z) /\ Tree(tables, at)
  BY DEF Kept
<1> HIDE DEF g
<1>3. /\ u \in Seq(Frames) /\ Len(u) = d /\ u[d] = g /\ \A j \in 1..(d-1) : u[j] = stack[j]
  <2>1. u = Append(Pop, g)
    BY DEF NextEntry, g
  <2> HIDE DEF u
  <2> QED BY <1>1, <2>1, Replaced DEF Pop
<1> HIDE DEF u, f
<1>4. \A j \in 1..d : u[j].table = stack[j].table
  <2>1. \A j \in 1..d : j \in 1..(d-1) \/ j = d
    BY <1>1
  <2> QED BY <1>1, <1>3, <2>1
<1>5. ASSUME NEW j \in 1..d PROVE Placed(u[j], j, tb, bt)
  <2>1. Placed(u[j], j, tables, at)
    <3>1. j \in 1..(d-1) \/ j = d
      BY <1>1
    <3>2. Placed(stack[j], j, tables, at)
      BY <1>2 DEF Calls
    <3> QED BY <1>1, <1>3, <3>1, <3>2
  <2>2. u[j].table \in 1..Len(tables)
    BY <2>1 DEF Placed
  <2>3. bt[u[j].table] = at[u[j].table] /\ u[j].table \in 1..Len(tb)
    <3>1. Len(tables) \in Nat
      BY <1>2 DEF Tree
    <3> DEFINE k == u[j].table
               m == Len(tb)
               o == Len(tables)
    <3>2. k \in 1..o /\ m \in Nat /\ o \in Nat /\ m >= o /\ bt[k] = at[k]
      BY <2>2, <3>1
    <3> HIDE DEF k, m, o
    <3>3. k \in 1..m
      BY <3>2
    <3> QED BY <3>2, <3>3 DEF k, m
  <2> QED BY <2>1, <2>3 DEF Placed
<1>6. ASSUME NEW j \in 1..(d-1) PROVE Clips(u[j], j, a, z) /\ Leads(u[j], u[j+1], tb)
  <2>1. j \in 1..Len(stack) /\ j < Len(stack) /\ j \in 1..d /\ j + 1 \in 1..d /\ j # d
    BY <1>1
  <2>2. Clips(stack[j], j, a, z) /\ Leads(stack[j], stack[j+1], tables)
    BY <1>2, <2>1 DEF Calls
  <2>3. stack[j].table # f.table /\ stack[j].table \in 1..Len(tables)
    <3>1. Placed(stack[j], j, tables, at)
      BY <1>2, <2>1 DEF Calls
    <3> QED BY <1>1, <2>1, <3>1 DEF Placed
  <2>4. tb[stack[j].table] = tables[stack[j].table]
    BY <2>3 DEF f
  <2>5. u[j] = stack[j] /\ u[j+1].table = stack[j+1].table
    BY <1>3, <1>4, <2>1
  <2> QED BY <2>2, <2>4, <2>5 DEF Leads
<1>7. u[1].table = 1
  <2>1. 1 \in 1..d /\ stack[1].table = 1
    BY <1>1, <1>2 DEF Calls
  <2> QED BY <1>4, <2>1
<1> QED BY <1>3, <1>5, <1>6, <1>7 DEF u, g, f

(* Where the addresses from a to z are meant to lead.                      *)
Means(a, z, B, M) ==
  \A v \in 0..(Span(0) - 1) : a <= v /\ v < z /\ v \notin B => M[v] = v - a

(* An address is newly done only if it belongs to the entry.               *)
LEMMA InEntry ==
  ASSUME NEW at, NEW a \in Nat, NEW z \in Nat, NEW B, NEW M,
         Kept(tables, stack, at, a, z, B, M), InLoop, NEW v \in Nat
  PROVE  LET f == Top
             d == Len(stack)
             n == at[f.table].number
         IN  /\ CurStart(f) <= v /\ v < CurEnd(f) <=>
                  v \div Span(d - 1) = n /\ Index(v, d) = f.i
             /\ v \div Span(d - 1) = n /\ Index(v, d) = f.i => v % Span(d) = v - CurStart(f)
<1> DEFINE f == Top
           d == Len(stack)
           n == at[f.table].number
           i == f.i
           q == ENTRIES_PER_TABLE * n + i
<1>1. d \in 1..5 /\ n \in Nat /\ i \in Entries /\ CurStart(f) = q * Span(d) /\ CurEnd(f) = CurStart(f) + Span(d)
  BY InLoopIs
<1>2. q \in Nat
  <2> HIDE DEF n, i
  <2>1. ENTRIES_PER_TABLE \in Nat /\ i \in Nat
    BY <1>1, SpansAre DEF Entries
  <2> QED BY <1>1, <2>1
<1> HIDE DEF f, d, n, i
<1>3. v \div Span(d) = q <=> v \div Span(d - 1) = n /\ Index(v, d) = i
  <2>1. v \div Span(d) = q => v \div Span(d - 1) = n /\ Index(v, d) = i
    BY <1>1, IndexOf
  <2>2. v \div Span(d) = ENTRIES_PER_TABLE * (v \div Span(d - 1)) + Index(v, d)
    BY <1>1, IndexIs
  <2> QED BY <2>1, <2>2
<1> HIDE DEF q
<1>4. /\ v \div Span(d) = q <=> q * Span(d) <= v /\ v < q * Span(d) + Span(d)
      /\ v \div Span(d) = q => v % Span(d) = v - q * Span(d)
  <2>1. d \in 0..5
    BY <1>1
  <2> QED BY <1>2, <2>1, SpanHolds
<1> QED BY <1>1, <1>3, <1>4 DEF f, d, n, i

(* The walk of an address of the entry goes through it.                    *)
LEMMA WalkOfEntry ==
  ASSUME NEW at, NEW a \in Nat, NEW z \in Nat, NEW B, NEW M,
         Kept(tables, stack, at, a, z, B, M), InLoop, tables[Top.table][Top.i] = Absent,
         NEW v \in 0..(Span(0) - 1), CurStart(Top) <= v, v < CurEnd(Top),
         NEW l \in 1..4, NEW ts, Route(tables, ts, l, v),
         tables[ts[l]][Index(v, l)].kind = "absent"
  PROVE  l = Len(stack) /\ ts[l] = Top.table /\ Index(v, l) = Top.i
<1> DEFINE f == Top
           d == Len(stack)
           us == [j \in 1..d |-> stack[j].table]
<1>1. v \in Nat /\ d \in 1..5 /\ f = stack[d]
  <2>1. d \in 1..5 /\ f = stack[d]
    BY InLoopIs
  <2>2. Span(0) \in Nat
    BY SpansAre
  <2> QED BY <2>1, <2>2
<1>2. v \div Span(d - 1) = at[f.table].number /\ Index(v, d) = f.i
  BY <1>1, InEntry
<1>3. Route(tables, us, d, v)
  <2>1. Tree(tables, at) /\ Calls(stack, tables, at, a, z)
    BY DEF Kept
  <2>2. v \div Span(d - 1) = at[stack[d].table].number
    BY <1>1, <1>2
  <2> QED BY <1>1, <2>1, <2>2, CallsRoute
<1> HIDE DEF d, f
<1>4. us[d] = f.table
  BY <1>1
<1> HIDE DEF us
<1>5. CASE l < d
  <2>1. l \in 1..(d-1) /\ l \in 1..6 /\ d \in 1..6 /\ l <= l /\ l <= d
    BY <1>1, <1>5
  <2>2. ts[l] = us[l]
    <3>1. \A j \in 1..6 : j <= l /\ j <= d => Meet(ts, us, j)
      BY <1>3, <2>1, RouteUnique
    <3> QED BY <2>1, <3>1 DEF Meet
  <2>3. tables[us[l]][Index(v, l)].kind = "table"
    BY <1>3, <2>1 DEF Route
  <2> QED BY <2>2, <2>3
<1>6. CASE l >= d
  <2>1. d \in 1..6 /\ l \in 1..6 /\ d <= l /\ d <= d
    BY <1>1, <1>6
  <2>2. ts[d] = f.table
    <3>1. \A j \in 1..6 : j <= l /\ j <= d => Meet(ts, us, j)
      BY <1>3, <2>1, RouteUnique
    <3> QED BY <1>4, <2>1, <3>1 DEF Meet
  <2>3. l = d
    <3> SUFFICES ASSUME l > d PROVE FALSE
      BY <1>1, <1>6
    <3>1. d \in 1..(l-1)
      BY <1>1
    <3>2. tables[ts[d]][Index(v, d)].kind = "table"
      BY <3>1 DEF Route
    <3> QED BY <1>2, <2>2, <3>2 DEF Absent, f
  <2> QED BY <1>2, <2>2, <2>3 DEF d, f
<1> QED BY <1>1, <1>5, <1>6 DEF d

(* One more table entry for memory.                                        *)
LEMMA MapEntryKeeps ==
  ASSUME NEW at, NEW a \in Nat, NEW z \in Nat, NEW B, NEW M, Means(a, z, B, M),
         Kept(tables, stack, at, a, z, B, M), MapEntry
  PROVE  Kept(tables', stack', at, a, z, B, M)
<1> DEFINE f  == Top
           d  == Len(stack)
           n  == at[f.table].number
           k  == f.table
           i  == f.i
           g  == [f EXCEPT !.i = @ + 1]
           cp == f.phys_start + CurStart(f) - f.lin_start
           e  == Pte(IF f.base_step = PAGE THEN "page" ELSE "large", cp)
           tb == [tables EXCEPT ![k][i] = e]
           u  == NextEntry
<1>1. InLoop /\ Whole(f)
  BY DEF MapEntry
<1>2. CASE UNCHANGED <<tables, stack>>
  BY <1>2
<1>3. CASE ~UNCHANGED <<tables, stack>>
  <2>1. tables[k][i] = Absent /\ tables' = tb /\ stack' = u
    BY <1>3 DEF MapEntry, Dies
  <2>2. /\ stack # <<>> /\ d \in 1..5 /\ i \in Entries /\ k \in 1..Len(tables) /\ n \in Nat
        /\ at[k] = [level |-> d, number |-> n] /\ f.base_step = Span(d) /\ f \in Frames
        /\ Clips(f, d, a, z) /\ CurStart(f) \in Nat /\ CurEnd(f) = CurStart(f) + Span(d)
        /\ Progress(f) = Larger(f.lin_start, CurStart(f)) /\ Progress(g) = Larger(f.lin_start, CurEnd(f))
        /\ Clips(g, d, a, z) /\ f = stack[d] /\ f.base_offset \in Nat
    BY <1>1, InLoopIs
  <2>3. Tree(tables, at) /\ Calls(stack, tables, at, a, z) /\ Correct(tables, DoneBy(stack, a, z, B), M)
    BY DEF Kept
  <2>4. d \in {3, 4} /\ Span(d) \in Nat \ {0} /\ Span(0) \in Nat /\ ENTRIES_PER_TABLE \in Nat
    <3>1. Span(d) \in {PAGE, LARGE}
      BY <1>1, <2>2 DEF Whole
    <3> HIDE DEF d, f
    <3>2. d \in {3, 4}
      BY <2>2, <3>1, SpansAre
    <3>3. d \in 0..5 /\ 0 \in 0..5
      BY <3>2
    <3> QED BY <3>2, <3>3, SpansAre
  <2>5. f.lin_start <= CurStart(f) /\ CurEnd(f) <= f.lin_end
    BY <1>1 DEF Whole
  <2>6. /\ f.lin_start \in Nat /\ f.lin_end \in Nat /\ a <= f.lin_start /\ f.lin_end <= z
        /\ cp = CurStart(f) - a /\ cp \in Nat
    <3>1. f.lin_start \in Nat /\ f.lin_end \in Nat
      <4> HIDE DEF f
      <4> QED BY <2>2 DEF Frames
    <3>2. a <= f.lin_start /\ f.lin_end <= z /\ f.phys_start = f.lin_start - a
      <4>1. /\ f.lin_start = Larger(a, f.base_offset)
            /\ f.lin_end = Least(z, f.base_offset + Span(d - 1)) /\ f.phys_start = f.lin_start - a
        BY <2>2 DEF Clips
      <4>2. Span(d - 1) \in Nat
        <5> HIDE DEF d
        <5> QED BY <2>4, SpansAre
      <4> HIDE DEF f, d
      <4> QED BY <2>2, <3>1, <4>1, <4>2 DEF Larger, Least
    <3> HIDE DEF f
    <3> QED BY <2>2, <2>5, <3>1, <3>2
  <2> HIDE DEF f, d, n, k, i, g, u
  <2>7. e \in Ptes /\ e.kind \in {"page", "large"} /\ e.phys = cp
        /\ (e.kind = "page" => Span(d) = PAGE) /\ (e.kind = "large" => Span(d) = LARGE)
    <3>1. e = [kind |-> (IF f.base_step = PAGE THEN "page" ELSE "large"), phys |-> cp]
      BY DEF Pte
    <3>2. f.base_step = PAGE \/ f.base_step = LARGE
      BY <1>1 DEF Whole, f
    <3> HIDE DEF e, cp
    <3> QED BY <2>2, <2>6, <3>1, <3>2 DEF Ptes
  <2> HIDE DEF e
  <2>8. /\ tables \in Seq([Entries -> Ptes]) /\ Len(tables) \in Nat
        /\ tb \in Seq([Entries -> Ptes]) /\ Len(tb) = Len(tables)
        /\ \A m \in 1..Len(tables) : m # k => tb[m] = tables[m]
        /\ \A x \in Entries : tb[k][x] = IF x = i THEN e ELSE tables[k][x]
    <3>1. tables \in Seq([Entries -> Ptes]) /\ Len(tables) \in Nat
      BY <2>3 DEF Tree
    <3>2. tables[k] \in [Entries -> Ptes]
      BY <2>2, <3>1
    <3> DEFINE r == [tables[k] EXCEPT ![i] = e]
    <3>3. r \in [Entries -> Ptes] /\ \A x \in Entries : r[x] = IF x = i THEN e ELSE tables[k][x]
      BY <2>2, <2>7, <3>2
    <3>4. tb = [tables EXCEPT ![k] = r]
      OBVIOUS
    <3> HIDE DEF r, tb
    <3> QED BY <2>2, <3>1, <3>3, <3>4
  <2> HIDE DEF tb, cp
  <2>9. Tree(tb, at)
    <3>1. ASSUME NEW m \in 1..Len(tb), NEW x \in Entries
          PROVE  tb[m][x] = tables[m][x] \/ tb[m][x].kind \in {"page", "large"}
      BY <2>2, <2>7, <2>8, <3>1
    <3>3. at \in [1..Len(tb) -> [level : 1..6, number : Nat]] /\ at[1] = [level |-> 1, number |-> 0] /\ Len(tb) >= 1
      BY <2>3, <2>8 DEF Tree
    <3>4. ASSUME NEW m \in 1..Len(tb), NEW x \in Entries
          PROVE  /\ tb[m][x].kind = "absent" => tb[m][x] = Absent
                 /\ tb[m][x].kind = "table" =>
                      /\ tb[m][x].phys \in 1..Len(tb)
                      /\ at[tb[m][x].phys] = [level  |-> at[m].level + 1,
                                              number |-> ENTRIES_PER_TABLE * at[m].number + x]
      <4>1. CASE tb[m][x] = tables[m][x]
        <5>1. m \in 1..Len(tables)
          BY <2>8
        <5>2. /\ tables[m][x].kind = "absent" => tables[m][x] = Absent
              /\ tables[m][x].kind = "table" =>
                      /\ tables[m][x].phys \in 1..Len(tables)
                      /\ at[tables[m][x].phys] = [level  |-> at[m].level + 1,
                                              number |-> ENTRIES_PER_TABLE * at[m].number + x]
          BY <2>3, <5>1 DEF Tree
        <5> QED BY <2>8, <4>1, <5>2
      <4> QED BY <3>1, <4>1
    <3> QED BY <2>8, <3>3, <3>4 DEF Tree
  <2>10. /\ u \in Seq(Frames) /\ Len(u) = d /\ u[d] = g /\ u[1].table = 1
         /\ \A j \in 1..d : Placed(u[j], j, tb, at)
         /\ \A j \in 1..(d-1) : Clips(u[j], j, a, z) /\ Leads(u[j], u[j+1], tb)
    <3>1. Len(tb) \in Nat /\ Len(tb) >= Len(tables)
      BY <2>8
    <3> QED BY <1>1, <2>8, <3>1, NextEntryIs DEF u, g, f, d, k
  <2>11. ASSUME NEW v \in 0..(Span(0) - 1), NEW l \in 1..4, NEW ts, Route(tb, ts, l, v)
         PROVE  LET y == tb[ts[l]][Index(v, l)]
                IN  (y.kind = "absent" => v \notin DoneBy(u, a, z, B)) /\ Gives(y, v, M)
    <3>1. v \in Nat
      BY <2>4
    <3>2. \A j \in 1..l : /\ ts[j] \in 1..Len(tables) /\ at[ts[j]] = [level |-> j, number |-> v \div Span(j - 1)]
                          /\ Index(v, j) \in Entries
      <4> SUFFICES ASSUME NEW j \in 1..l
                   PROVE  /\ ts[j] \in 1..Len(tables) /\ at[ts[j]] = [level |-> j, number |-> v \div Span(j - 1)]
                          /\ Index(v, j) \in Entries
        OBVIOUS
      <4>1. j \in 1..5 /\ j \in 1..6 /\ l \in 1..6 /\ j <= l
        OBVIOUS
      <4>2. Route(tb, ts, j, v)
        BY <2>11, <4>1, RoutePrefix
      <4>3. ts[j] \in 1..Len(tb) /\ at[ts[j]] = [level |-> j, number |-> v \div Span(j - 1)]
        <5>1. Stands(tb, at, ts, j, v)
          BY <2>9, <4>1, <4>2, RouteIs
        <5> QED BY <5>1 DEF Stands
      <4>4. Index(v, j) \in Entries
        BY <3>1, <4>1, IndexIs
      <4> QED BY <2>8, <4>3, <4>4
    <3>3. \A j \in 1..l : tb[ts[j]][Index(v, j)] = IF ts[j] = k /\ Index(v, j) = i THEN e
                                                  ELSE tables[ts[j]][Index(v, j)]
      BY <2>8, <3>2
    <3>4. Route(tables, ts, l, v)
      <4>1. \A j \in 1..(l-1) : j \in 1..l
        OBVIOUS
      <4> QED BY <2>7, <2>11, <3>3, <4>1 DEF Route
    <3>5. l \in 1..l
      OBVIOUS
    <3>6. LET y == tables[ts[l]][Index(v, l)]
          IN  (y.kind = "absent" => v \notin DoneBy(stack, a, z, B)) /\ Gives(y, v, M)
      BY <2>3, <3>4 DEF Correct
    <3>7. CASE ts[l] = k /\ Index(v, l) = i
      <4>1. tb[ts[l]][Index(v, l)] = e
        BY <3>3, <3>5, <3>7
      <4>2. l = d /\ v \div Span(l - 1) = n
        <5>1. [level |-> l, number |-> v \div Span(l - 1)] = [level |-> d, number |-> n]
          BY <2>2, <3>2, <3>5, <3>7
        <5> QED BY <5>1
      <4>3. CurStart(f) <= v /\ v < CurEnd(f) /\ v % Span(d) = v - CurStart(f)
        BY <1>1, <3>1, <3>7, <4>2, InEntry DEF f, d, n, k, i
      <4>4. v \notin DoneBy(stack, a, z, B)
        BY <2>1, <3>6, <3>7 DEF Absent
      <4>5. v \notin B
        BY <4>4 DEF DoneBy
      <4>6. M[v] = v - a
        <5>1. a <= v /\ v < z
          <6> DEFINE cs == CurStart(f)
                     ce == CurEnd(f)
                     ls == f.lin_start
                     le == f.lin_end
          <6>1. /\ cs \in Nat /\ ce \in Nat /\ ls \in Nat /\ le \in Nat /\ a <= ls /\ ls <= cs /\ ce <= le
                /\ le <= z /\ cs <= v /\ v < ce
            <7>1. cs \in Nat /\ ce = cs + Span(d) /\ Span(d) \in Nat
              BY <2>2, <2>4
            <7>2. ls \in Nat /\ le \in Nat /\ a <= ls /\ le <= z
              BY <2>6
            <7>3. ls <= cs /\ ce <= le /\ cs <= v /\ v < ce
              BY <2>5, <4>3
            <7> HIDE DEF cs, ce, ls, le
            <7> QED BY <7>1, <7>2, <7>3
          <6> HIDE DEF cs, ce, ls, le
          <6> QED BY <3>1, <6>1
        <5> QED BY <4>5, <5>1 DEF Means
      <4>7. e.phys + (v % Span(d)) = M[v]
        <5>1. e.phys = CurStart(f) - a
          BY <2>6, <2>7
        <5> QED BY <2>2, <3>1, <4>3, <4>6, <5>1
      <4>8. Gives(e, v, M)
        BY <2>7, <4>7 DEF Gives
      <4> QED BY <2>7, <4>1, <4>8
    <3>8. CASE ~(ts[l] = k /\ Index(v, l) = i)
      <4>1. tb[ts[l]][Index(v, l)] = tables[ts[l]][Index(v, l)]
        BY <3>3, <3>5, <3>8
      <4> SUFFICES ASSUME tables[ts[l]][Index(v, l)].kind = "absent", v \in DoneBy(u, a, z, B) PROVE FALSE
        BY <3>6, <4>1
      <4>2. v \notin DoneBy(stack, a, z, B)
        BY <3>6
      <4>3. u[Len(u)] = g
        BY <2>10
      <4>4. CurStart(f) <= v /\ v < CurEnd(f)
        <5>1. a <= v /\ v < z /\ (v < Progress(g) \/ u = <<>>)
          BY <4>2, <4>3 DEF DoneBy
        <5>2. u # <<>>
          BY <2>2, <2>10
        <5>3. ~(v < Progress(f))
          BY <2>2, <4>2, <5>1, <5>2 DEF DoneBy, d, f
        <5> DEFINE cs == CurStart(f)
                   ce == CurEnd(f)
                   ls == f.lin_start
        <5>4. Progress(f) = Larger(ls, cs) /\ Progress(g) = Larger(ls, ce) /\ v < Progress(g) /\ ~(v < Progress(f))
          BY <2>2, <5>1, <5>2, <5>3
        <5>5. cs \in Nat /\ ls \in Nat /\ ce = cs + Span(d) /\ Span(d) \in Nat
          BY <2>2, <2>4, <2>6
        <5> HIDE DEF cs, ce, ls
        <5>6. cs <= v /\ v < ce
          BY <3>1, <5>4, <5>5 DEF Larger
        <5> QED BY <5>6 DEF cs, ce
      <4>5. ts[l] = k /\ Index(v, l) = i
        BY <1>1, <2>1, <3>4, <4>4, WalkOfEntry DEF f, k, i
      <4> QED BY <3>8, <4>5
    <3> QED BY <3>7, <3>8
  <2>12. Correct(tb, DoneBy(u, a, z, B), M)
    BY <2>11 DEF Correct
  <2>13. Calls(u, tb, at, a, z)
    <3>2. \A j \in 1..d : j < d => j \in 1..(d-1)
      BY <2>4
    <3>3. \A m \in 1..Len(tb) : at[m].level <= 4
      <4>1. Len(stack) <= 4
        <5>1. d <= 4
          BY <2>4
        <5> QED BY <5>1 DEF d
      <4> QED BY <2>3, <2>8, <4>1 DEF Calls
    <3> QED BY <2>2, <2>4, <2>10, <3>2, <3>3 DEF Calls
  <2> QED BY <2>1, <2>9, <2>12, <2>13 DEF Kept
<1> QED BY <1>2, <1>3

(* The call for the table that an entry leads to.                          *)
Reaches(tb, bt, at, next) ==
  /\ Len(tb) \in Nat /\ Len(tb) >= Len(tables)
  /\ \A k \in 1..Len(tables) : bt[k] = at[k] /\ (k # Top.table => tb[k] = tables[k])
  /\ next \in 1..Len(tb)
  /\ bt[next] = [level  |-> Len(stack) + 1,
                 number |-> ENTRIES_PER_TABLE * at[Top.table].number + Top.i]
  /\ tb[Top.table][Top.i].kind = "table" /\ tb[Top.table][Top.i].phys = next
  /\ Len(stack) <= 3 => \A k \in 1..Len(tb) : bt[k].level <= 4

CalledFor(next) ==
  Append(NextEntry, Call(next, CurStart(Top), Top.base_step \div ENTRIES_PER_TABLE,
                         Top.lin_start, Top.lin_end, Top.phys_start))

LEMMA DescendCalls ==
  ASSUME NEW at, NEW a \in Nat, NEW z \in Nat, NEW B, NEW M,
         Kept(tables, stack, at, a, z, B, M), InLoop, Meets(Top),
         NEW tb, NEW bt, NEW next, Reaches(tb, bt, at, next)
  PROVE  /\ Calls(CalledFor(next), tb, bt, a, z)
         /\ DoneBy(CalledFor(next), a, z, B) = DoneBy(stack, a, z, B)
<1> USE DEF Reaches
<1> DEFINE f  == Top
           d  == Len(stack)
           n  == at[f.table].number
           i  == f.i
           k  == f.table
           g  == [f EXCEPT !.i = @ + 1]
           c  == Call(next, CurStart(f), f.base_step \div ENTRIES_PER_TABLE,
                      f.lin_start, f.lin_end, f.phys_start)
           u  == NextEntry
           st == Append(u, c)
<1>1. /\ stack # <<>> /\ d \in 1..5 /\ i \in Entries /\ k \in 1..Len(tables) /\ n \in Nat
      /\ f.base_step = Span(d) /\ f \in Frames /\ f.base_offset \in Nat
      /\ Clips(f, d, a, z) /\ CurStart(f) \in Nat /\ CurEnd(f) = CurStart(f) + Span(d)
      /\ CurStart(f) = (ENTRIES_PER_TABLE * n + i) * Span(d)
      /\ f.base_offset <= CurStart(f) /\ CurEnd(f) <= f.base_offset + Span(d - 1)
      /\ Progress(f) = Larger(f.lin_start, CurStart(f))
      /\ Clips(g, d, a, z) /\ f = stack[d] /\ g.table = f.table /\ g.i = f.i + 1
  <2>1. /\ stack # <<>> /\ d \in 1..5 /\ i \in Entries /\ k \in 1..Len(tables) /\ n \in Nat
        /\ f.base_step = Span(d) /\ f \in Frames /\ f.base_offset \in Nat
        /\ Clips(f, d, a, z) /\ f = stack[d]
    BY InLoopIs
  <2>2. /\ CurStart(f) \in Nat /\ CurEnd(f) = CurStart(f) + Span(d)
        /\ CurStart(f) = (ENTRIES_PER_TABLE * n + i) * Span(d)
        /\ f.base_offset <= CurStart(f) /\ CurEnd(f) <= f.base_offset + Span(d - 1)
        /\ Progress(f) = Larger(f.lin_start, CurStart(f))
    BY InLoopIs
  <2>3. Clips(g, d, a, z) /\ g.table = f.table /\ g.i = f.i + 1
    BY InLoopIs
  <2> HIDE DEF f, d, n, i, k, g
  <2> QED BY <2>1, <2>2, <2>3
<1>2. /\ u \in Seq(Frames) /\ Len(u) = d /\ u[d] = g /\ u[1].table = 1
      /\ \A j \in 1..d : Placed(u[j], j, tb, bt)
      /\ \A j \in 1..(d-1) : Clips(u[j], j, a, z) /\ Leads(u[j], u[j+1], tb)
  BY NextEntryIs, ZenonT(30)
<1>3. /\ Span(d) \in Nat \ {0} /\ Span(d - 1) \in Nat \ {0} /\ Span(d) \div ENTRIES_PER_TABLE = Span(d + 1)
      /\ ENTRIES_PER_TABLE \in Nat /\ (d + 1) - 1 = d /\ Span(d + 1) \in Nat
  <2> HIDE DEF d
  <2>1. d \in 0..5 /\ d - 1 \in 0..5 /\ (d + 1) - 1 = d /\ d \in 1..5 /\ (d + 1 \in 0..5 \/ d + 1 = 6)
    <3>1. d \in 1..5
      BY <1>1
    <3> QED BY <3>1
  <2>2. Span(d) \in Nat \ {0} /\ Span(d - 1) \in Nat \ {0} /\ ENTRIES_PER_TABLE \in Nat
    BY <2>1, SpansAre
  <2>3. Span(d) \div ENTRIES_PER_TABLE = Span(d + 1)
    BY <2>1, SpansAre
  <2>4. Span(d + 1) \in Nat
    <3>1. \A l \in 0..5 : Span(l) \in Nat
      BY SpansAre
    <3>2. Span(6) \in Nat
      <4>1. Span(6) = 0
        BY SpansAre
      <4> QED BY <4>1
    <3> QED BY <2>1, <3>1, <3>2
  <2> QED BY <2>1, <2>2, <2>3, <2>4
<1>4. /\ f.lin_start \in Nat /\ f.lin_end \in Nat /\ f.phys_start \in Nat
      /\ f.lin_start = Larger(a, f.base_offset) /\ f.lin_end = Least(z, f.base_offset + Span(d - 1))
      /\ f.phys_start = f.lin_start - a
      /\ f.lin_start < CurEnd(f) /\ CurStart(f) < f.lin_end
  <2>1. /\ f.lin_start = Larger(a, f.base_offset) /\ f.lin_end = Least(z, f.base_offset + Span(d - 1))
        /\ f.phys_start = f.lin_start - a
    BY <1>1 DEF Clips
  <2>2. f.lin_start < CurEnd(f) /\ CurStart(f) < f.lin_end
    BY DEF Meets
  <2> HIDE DEF f, d
  <2>3. f.lin_start \in Nat /\ f.lin_end \in Nat /\ f.phys_start \in Nat
    BY <1>1 DEF Frames
  <2> QED BY <2>1, <2>2, <2>3
<1> HIDE DEF f, d, n, i, k, g, u
<1> DEFINE base == f.base_offset
           cs   == CurStart(f)
           ce   == CurEnd(f)
           ls   == f.lin_start
           le   == f.lin_end
           sp   == Span(d - 1)
<1>5. /\ base \in Nat /\ cs \in Nat /\ ce \in Nat /\ ls \in Nat /\ le \in Nat /\ sp \in Nat
      /\ base <= cs /\ ce <= base + sp /\ ls = Larger(a, base) /\ le = Least(z, base + sp)
      /\ ls < ce /\ cs < le /\ ce = cs + Span(d)
  <2>1. /\ base \in Nat /\ cs \in Nat /\ ce = cs + Span(d)
        /\ base <= cs /\ ce <= base + sp
    BY <1>1
  <2>2. Span(d) \in Nat /\ sp \in Nat
    BY <1>3
  <2>3. /\ ls \in Nat /\ le \in Nat /\ ls = Larger(a, base) /\ le = Least(z, base + sp)
        /\ ls < ce /\ cs < le
    BY <1>4
  <2> HIDE DEF cs, ce, ls, le, sp, base
  <2>4. ce \in Nat
    BY <2>1, <2>2
  <2> QED BY <2>1, <2>2, <2>3, <2>4
<1>6. /\ c = [table |-> next, base_offset |-> cs, base_step |-> Span(d + 1), lin_start |-> ls,
              lin_end |-> le, phys_start |-> f.phys_start, i |-> None, entry_end |-> None]
      /\ next \in Nat
  <2>1. f.base_step \div ENTRIES_PER_TABLE = Span(d + 1)
    BY <1>1, <1>3
  <2>2. next \in Nat
    OBVIOUS
  <2> QED BY <2>1, <2>2 DEF Call
<1> HIDE DEF c
<1>7. c \in Frames
  <2> HIDE DEF cs, ls, le
  <2>1. None \in Int
    BY DEF None
  <2> QED BY <1>3, <1>4, <1>5, <1>6, <2>1 DEF Frames
<1>8. /\ c.table = next /\ c.base_offset = cs /\ c.base_step = Span(d + 1) /\ c.lin_start = ls
      /\ c.lin_end = le /\ c.phys_start = f.phys_start /\ c.i = None
  BY <1>6
<1>9. Placed(c, d + 1, tb, bt)
  <2>1. bt[next].level = d + 1 /\ bt[next].number = ENTRIES_PER_TABLE * n + i
    BY DEF d, n, i, f
  <2>2. cs = (ENTRIES_PER_TABLE * n + i) * Span((d + 1) - 1)
    BY <1>1, <1>3
  <2> HIDE DEF cs
  <2> QED BY <1>8, <2>1, <2>2 DEF Placed
<1> HIDE DEF base, cs, ce, ls, le, sp
<1>10. Called(c, d + 1, a, z)
  <2>1. Larger(ls, cs) = Larger(a, cs)
    BY <1>5 DEF Larger
  <2>2. Least(le, ce) = Least(z, ce)
    <3>1. le \in Nat /\ ce \in Nat /\ base \in Nat /\ sp \in Nat /\ ce <= base + sp
      BY <1>5
    <3>2. le = Least(z, base + sp)
      BY <1>5
    <3> DEFINE t == base + sp
    <3>3. t \in Nat /\ ce <= t /\ le = Least(z, t)
      BY <3>1, <3>2
    <3> HIDE DEF t
    <3> QED BY <3>1, <3>3 DEF Least
  <2>3. a <= ls /\ ls < ce /\ cs < le
    BY <1>5 DEF Larger
  <2>4. ce = cs + Span((d + 1) - 1)
    BY <1>3, <1>5
  <2>5. f.phys_start = ls - a
    BY <1>4 DEF ls
  <2>6. c.i = None /\ a <= c.lin_start /\ c.phys_start = c.lin_start - a
    BY <1>8, <2>3, <2>5
  <2>7. Larger(c.lin_start, c.base_offset) = Larger(a, c.base_offset)
    BY <1>8, <2>1
  <2>8. Least(c.lin_end, c.base_offset + Span((d + 1) - 1)) = Least(z, c.base_offset + Span((d + 1) - 1))
    BY <1>8, <2>2, <2>4
  <2>9. c.lin_start < c.base_offset + Span((d + 1) - 1) /\ c.base_offset < c.lin_end
    BY <1>8, <2>3, <2>4
  <2> QED BY <2>6, <2>7, <2>8, <2>9, Zenon DEF Called
<1>11. /\ st \in Seq(Frames) /\ Len(st) = d + 1 /\ st[d + 1] = c /\ \A j \in 1..d : st[j] = u[j]
  BY <1>1, <1>2, <1>7, SMTT(30)
<1> HIDE DEF st
<1>12. Leads(g, c, tb)
  <2>1. tb[k][i].kind = "table" /\ tb[k][i].phys = next
    BY DEF k, i, f
  <2>2. g.table = k /\ g.i >= 1 /\ g.i - 1 = i
    <3>1. g.i = i + 1 /\ i \in Nat
      <4>1. i \in Nat
        BY <1>1, <1>3 DEF Entries
      <4> QED BY <1>1, <4>1 DEF i
    <3>2. g.table = k
      BY <1>1 DEF k
    <3> DEFINE gi == g.i
    <3>3. gi = i + 1 /\ i \in Nat
      BY <3>1
    <3> HIDE DEF gi
    <3>4. gi >= 1 /\ gi - 1 = i
      BY <3>3
    <3> QED BY <3>2, <3>4 DEF gi
  <2> QED BY <1>8, <2>1, <2>2 DEF Leads
<1>13. Calls(st, tb, bt, a, z)
  <2>1. ASSUME NEW j \in 1..(d + 1) PROVE Placed(st[j], j, tb, bt)
    <3>1. j \in 1..d \/ j = d + 1
      BY <1>1
    <3> QED BY <1>2, <1>9, <1>11, <3>1
  <2>2. ASSUME NEW j \in 1..(d + 1), j < d + 1
        PROVE  Clips(st[j], j, a, z) /\ Leads(st[j], st[j+1], tb)
    <3>1. j \in 1..(d-1) \/ j = d
      BY <1>1, <2>2
    <3>2. CASE j \in 1..(d-1)
      <4>1. j + 1 \in 1..d /\ j \in 1..d
        BY <1>1, <3>2
      <4> QED BY <1>2, <1>11, <3>2, <4>1
    <3>3. CASE j = d
      <4>1. d \in 1..d
        <5>1. d \in 1..5
          BY <1>1
        <5> QED BY <5>1
      <4>2. st[d] = g /\ st[d + 1] = c
        BY <1>2, <1>11, <4>1
      <4>3. Clips(g, d, a, z)
        BY <1>1
      <4> QED BY <1>12, <3>3, <4>2, <4>3
    <3> QED BY <3>1, <3>2, <3>3
  <2>3. st[1].table = 1 /\ 1 \in 1..d
    BY <1>1, <1>2, <1>11, SMTT(30)
  <2>4. d + 1 <= 4 => \A m \in 1..Len(tb) : bt[m].level <= 4
    <3>1. d + 1 <= 4 => d <= 3
      BY <1>1
    <3> QED BY <3>1 DEF d
  <2>5. d + 1 = 6 => st[6].i = None /\ st[5].i >= 1
    <3> SUFFICES ASSUME d = 5 PROVE st[6].i = None /\ st[5].i >= 1
      BY <1>1
    <3>1. st[6] = c /\ st[5] = g
      BY <1>2, <1>11
    <3>2. g.i >= 1
      BY <1>12 DEF Leads
    <3> QED BY <1>8, <3>1, <3>2
  <2>6. d + 1 = 5 => st[5].i = None
    BY <1>8, <1>11
  <2>7. /\ st # <<>> /\ Len(st) <= 6
        /\ Len(st) <= 5 => Called(st[Len(st)], Len(st), a, z)
    BY <1>1, <1>10, <1>11
  <2> QED BY <1>11, <2>1, <2>2, <2>3, <2>4, <2>5, <2>6, <2>7 DEF Calls
<1>14. DoneBy(st, a, z, B) = DoneBy(stack, a, z, B)
  <2>1. Progress(c) = Progress(f)
    <3>1. Progress(c) = Larger(ls, cs + 0)
      BY <1>8 DEF Progress
    <3> QED BY <1>1, <1>5, <3>1 DEF ls, cs
  <2>2. st # <<>> /\ st[Len(st)] = c /\ stack # <<>> /\ stack[Len(stack)] = f
    BY <1>1, <1>11 DEF d
  <2> QED BY <2>1, <2>2 DEF DoneBy
<1> QED BY <1>13, <1>14 DEF st, c, u, f, CalledFor

(* A walk ends at a new table at once, and comes to it by the entry.       *)
Ends(tb, tc, k, i, ts, l, v) ==
  \/ ts[l] \in 1..Len(tb) /\ Route(tb, ts, l, v)
  \/ /\ l \in 2..4 /\ ts[l] = Len(tc) /\ Route(tb, ts, l - 1, v)
     /\ ts[l - 1] = k /\ Index(v, l - 1) = i

Extends(tb, tc, k, i) ==
  /\ Len(tc) = Len(tb) + 1 /\ tc[Len(tc)] = EmptyTable
  /\ \A m \in 1..Len(tb) : \A x \in Entries : (m # k \/ x # i) => tc[m][x] = tb[m][x]
  /\ tc[k][i].kind = "table" /\ tc[k][i].phys = Len(tc)

LEMMA NewTable ==
  ASSUME NEW tb, NEW at, Tree(tb, at), NEW tc, NEW bt, Tree(tc, bt), NEW k \in 1..Len(tb), NEW i \in Entries,
         Extends(tb, tc, k, i),
         NEW v \in 0..(Span(0) - 1), NEW l \in 1..4, NEW ts, Route(tc, ts, l, v)
  PROVE  Ends(tb, tc, k, i, ts, l, v)
<1> USE DEF Extends
<1> DEFINE N == Len(tc)
<1>1. v \in Nat /\ Len(tb) \in Nat /\ Len(tb) >= 1 /\ N = Len(tb) + 1
  BY SpansAre DEF Tree
<1> HIDE DEF N
<1>2. ASSUME NEW j \in 1..l PROVE ts[j] \in 1..N /\ Index(v, j) \in Entries
  <2>1. j \in 1..5 /\ j \in 1..6 /\ l \in 1..6 /\ j <= l
    OBVIOUS
  <2>2. Route(tc, ts, j, v)
    BY <2>1, RoutePrefix
  <2>3. Stands(tc, bt, ts, j, v)
    BY <2>1, <2>2, RouteIs
  <2>4. Index(v, j) \in Entries
    BY <1>1, <2>1, IndexIs
  <2> QED BY <2>3, <2>4 DEF Stands, N
<1>3. ASSUME NEW j \in 1..(l-1)
      PROVE  /\ tc[ts[j]][Index(v, j)].kind = "table" /\ tc[ts[j]][Index(v, j)].phys = ts[j+1]
             /\ ts[j] \in 1..Len(tb) /\ Index(v, j) \in Entries
  <2>1. tc[ts[j]][Index(v, j)].kind = "table" /\ tc[ts[j]][Index(v, j)].phys = ts[j+1]
    BY DEF Route
  <2>2. j \in 1..l
    OBVIOUS
  <2>3. ts[j] # N
    <3>1. ts[j] = N => tc[ts[j]][Index(v, j)] = Absent
      <4>1. tc[N] = EmptyTable
        BY DEF N
      <4> QED BY <1>2, <2>2, <4>1 DEF EmptyTable
    <3> QED BY <2>1, <3>1 DEF Absent
  <2>4. ts[j] \in 1..Len(tb)
    <3> DEFINE t == ts[j]
               o == Len(tb)
    <3>1. t \in 1..N /\ t # N /\ o \in Nat /\ N = o + 1
      BY <1>1, <1>2, <2>2, <2>3
    <3> HIDE DEF t, o
    <3>2. t \in 1..o
      BY <3>1
    <3> QED BY <3>2 DEF t, o
  <2> QED BY <1>2, <2>1, <2>2, <2>4
<1>4. ASSUME NEW j \in 1..(l-1), ts[j + 1] # N
      PROVE  tb[ts[j]][Index(v, j)].kind = "table" /\ tb[ts[j]][Index(v, j)].phys = ts[j+1]
  <2>1. ts[j] # k \/ Index(v, j) # i
    BY <1>3, <1>4 DEF N
  <2> QED BY <1>3, <2>1
<1>5. ASSUME NEW j \in 1..(l-1), ts[j + 1] = N
      PROVE  ts[j] = k /\ Index(v, j) = i
  <2> SUFFICES ASSUME ts[j] # k \/ Index(v, j) # i PROVE FALSE
    OBVIOUS
  <2>1. tc[ts[j]][Index(v, j)] = tb[ts[j]][Index(v, j)]
    BY <1>3
  <2>2. tb[ts[j]][Index(v, j)].kind = "table" /\ tb[ts[j]][Index(v, j)].phys = N
    BY <1>3, <1>5, <2>1
  <2>3. tb[ts[j]][Index(v, j)].phys \in 1..Len(tb)
    BY <1>3, <2>2 DEF Tree
  <2> DEFINE o == Len(tb)
  <2>4. N \in 1..o /\ o \in Nat /\ N = o + 1
    BY <1>1, <2>2, <2>3
  <2> HIDE DEF o
  <2> QED BY <2>4
<1>6. ts[1] = 1 /\ ts[1] # N
  <2>1. ts[1] = 1
    BY DEF Route
  <2>2. N # 1
    <3> DEFINE o == Len(tb)
    <3>1. o \in Nat /\ o >= 1 /\ N = o + 1
      BY <1>1
    <3> HIDE DEF o
    <3> QED BY <3>1
  <2> QED BY <2>1, <2>2
<1>7. CASE ts[l] # N
  <2>1. ASSUME NEW j \in 1..(l-1) PROVE ts[j + 1] # N
    <3>1. j + 1 \in 1..(l-1) \/ j + 1 = l
      OBVIOUS
    <3>2. CASE j + 1 \in 1..(l-1)
      <4> SUFFICES ASSUME ts[j + 1] = N PROVE FALSE
        OBVIOUS
      <4> DEFINE t == ts[j + 1]
                 o == Len(tb)
      <4>1. t \in 1..o /\ o \in Nat /\ N = o + 1 /\ t = N
        BY <1>1, <1>3, <3>2
      <4> HIDE DEF t, o
      <4> QED BY <4>1
    <3> QED BY <1>7, <3>1, <3>2
  <2>2. Route(tb, ts, l, v)
    BY <1>4, <1>6, <2>1 DEF Route
  <2>3. ts[l] \in 1..Len(tb)
    <3> DEFINE t == ts[l]
               o == Len(tb)
    <3>1. t \in 1..N /\ t # N /\ o \in Nat /\ N = o + 1
      <4>1. l \in 1..l
        OBVIOUS
      <4> QED BY <1>1, <1>2, <1>7, <4>1
    <3> HIDE DEF t, o
    <3>2. t \in 1..o
      BY <3>1
    <3> QED BY <3>2 DEF t, o
  <2> QED BY <2>2, <2>3 DEF Ends
<1>8. CASE ts[l] = N
  <2>1. l \in 2..4
    <3>1. l # 1
      BY <1>6, <1>8
    <3> QED BY <3>1
  <2> DEFINE h == l - 1
  <2>2. h \in 1..(l-1) /\ h + 1 = l /\ h \in 1..3
    BY <2>1
  <2> HIDE DEF h
  <2>3. ts[h] = k /\ Index(v, h) = i
    BY <1>5, <1>8, <2>2
  <2>4. ASSUME NEW j \in 1..(h-1)
        PROVE  tb[ts[j]][Index(v, j)].kind = "table" /\ tb[ts[j]][Index(v, j)].phys = ts[j+1]
    <3>1. j \in 1..(l-1) /\ j + 1 \in 1..(l-1)
      BY <2>2
    <3>2. ts[j + 1] # N
      <4> SUFFICES ASSUME ts[j + 1] = N PROVE FALSE
        OBVIOUS
      <4> DEFINE t == ts[j + 1]
                 o == Len(tb)
      <4>1. t \in 1..o /\ o \in Nat /\ N = o + 1 /\ t = N
        BY <1>1, <1>3, <3>1
      <4> HIDE DEF t, o
      <4> QED BY <4>1
    <3> QED BY <1>4, <3>1, <3>2
  <2>5. Route(tb, ts, h, v)
    BY <1>6, <2>4 DEF Route
  <2> QED BY <1>8, <2>1, <2>3, <2>5 DEF h, N, Ends
<1> QED BY <1>7, <1>8

(* The next table, which may be a new one.                                 *)
LEMMA DescendKeeps ==
  ASSUME NEW at, NEW a \in Nat, NEW z \in Nat, NEW B, NEW M,
         Kept(tables, stack, at, a, z, B, M), Descend
  PROVE  \E bt : Kept(tables', stack', bt, a, z, B, M)
<1> DEFINE f    == Top
           d    == Len(stack)
           n    == at[f.table].number
           k    == f.table
           i    == f.i
           pte  == tables[k][i]
           q    == ENTRIES_PER_TABLE * n + i
           N    == Len(tables) + 1
<1>1. InLoop
  BY DEF Descend
<1>2. CASE UNCHANGED <<tables, stack>>
  BY <1>2
<1>3. CASE ~UNCHANGED <<tables, stack>>
  <2>1. /\ Meets(f) /\ pte.kind \notin {"page", "large"}
        /\ \/ /\ pte = Absent
              /\ tables' = Append([tables EXCEPT ![k][i] = Pte("table", N)], EmptyTable)
              /\ stack' = CalledFor(N)
           \/ /\ pte # Absent
              /\ tables' = tables /\ stack' = CalledFor(pte.phys)
    BY <1>3 DEF Descend, Dies, NeedsTable, CalledFor
  <2>2. /\ d \in 1..5 /\ i \in Entries /\ k \in 1..Len(tables) /\ n \in Nat
        /\ at[k] = [level |-> d, number |-> n]
    BY <1>1, InLoopIs
  <2>3. Tree(tables, at) /\ Calls(stack, tables, at, a, z) /\ Correct(tables, DoneBy(stack, a, z, B), M)
    BY DEF Kept
  <2>4. /\ tables \in Seq([Entries -> Ptes]) /\ Len(tables) \in Nat /\ Len(tables) >= 1
        /\ at \in [1..Len(tables) -> [level : 1..6, number : Nat]]
    BY <2>3 DEF Tree
  <2>5. q \in Nat
    <3>1. ENTRIES_PER_TABLE \in Nat /\ i \in Nat
      BY <2>2, SpansAre DEF Entries
    <3> HIDE DEF i, n
    <3> QED BY <2>2, <3>1
  <2>6. d <= 3 => \A m \in 1..Len(tables) : at[m].level <= 4
    <3> SUFFICES ASSUME d <= 3 PROVE \A m \in 1..Len(tables) : at[m].level <= 4
      OBVIOUS
    <3>1. Len(stack) <= 4
      <4> HIDE DEF d
      <4>1. d <= 4
        BY <2>2
      <4> QED BY <4>1 DEF d
    <3> QED BY <2>3, <3>1 DEF Calls
  <2>7. CASE pte # Absent /\ tables' = tables /\ stack' = CalledFor(pte.phys)
    <3>1. pte \in Ptes /\ pte.kind = "table" /\ pte.phys \in 1..Len(tables)
          /\ at[pte.phys] = [level |-> d + 1, number |-> q]
      <4>1. pte \in Ptes
        BY <2>2, <2>4
      <4>2. pte.kind # "absent"
        BY <2>2, <2>3, <2>7 DEF Tree
      <4>3. pte.kind = "table"
        BY <2>1, <4>1, <4>2 DEF Ptes
      <4>4. /\ pte.phys \in 1..Len(tables)
            /\ at[pte.phys] = [level |-> at[k].level + 1, number |-> ENTRIES_PER_TABLE * at[k].number + i]
        BY <2>2, <2>3, <4>3 DEF Tree
      <4>5. at[k].level = d /\ at[k].number = n
        <5> HIDE DEF d, n, k
        <5> QED BY <2>2
      <4> QED BY <4>1, <4>3, <4>4, <4>5
    <3>2. Calls(stack', tables, at, a, z) /\ DoneBy(stack', a, z, B) = DoneBy(stack, a, z, B)
      <4>1. Reaches(tables, at, at, pte.phys)
        BY <2>4, <2>6, <3>1 DEF Reaches
      <4> QED BY <1>1, <2>1, <2>7, <4>1, DescendCalls
    <3> QED BY <2>3, <2>7, <3>2 DEF Kept
  <2>8. CASE /\ pte = Absent
             /\ tables' = Append([tables EXCEPT ![k][i] = Pte("table", N)], EmptyTable)
             /\ stack' = CalledFor(N)
    <3> DEFINE tc == tables'
               bt == [m \in 1..N |-> IF m = N THEN [level |-> d + 1, number |-> q] ELSE at[m]]
               e  == Pte("table", N)
    <3>1. e \in Ptes /\ e.kind = "table" /\ e.phys = N /\ N \in Nat
      BY <2>4 DEF Pte, Ptes
    <3>2. EmptyTable \in [Entries -> Ptes]
      BY DEF EmptyTable, Absent, Ptes
    <3> HIDE DEF e
    <3>3. /\ tc \in Seq([Entries -> Ptes]) /\ Len(tc) = N /\ tc[N] = EmptyTable
          /\ \A m \in 1..Len(tables) : m # k => tc[m] = tables[m]
          /\ \A x \in Entries : tc[k][x] = IF x = i THEN e ELSE tables[k][x]
      <4> DEFINE r == [tables[k] EXCEPT ![i] = e]
                 s == [tables EXCEPT ![k] = r]
      <4>1. r \in [Entries -> Ptes] /\ \A x \in Entries : r[x] = IF x = i THEN e ELSE tables[k][x]
        <5>1. tables[k] \in [Entries -> Ptes]
          BY <2>2, <2>4
        <5> QED BY <2>2, <3>1, <5>1
      <4>2. tc = Append(s, EmptyTable)
        BY <2>8 DEF e
      <4> HIDE DEF r
      <4>3. /\ s \in Seq([Entries -> Ptes]) /\ Len(s) = Len(tables) /\ s[k] = r
            /\ \A m \in 1..Len(tables) : m # k => s[m] = tables[m]
        BY <2>2, <2>4, <4>1
      <4> HIDE DEF s, N
      <4>4. Append(s, EmptyTable) \in Seq([Entries -> Ptes]) /\ Len(Append(s, EmptyTable)) = Len(s) + 1
            /\ Append(s, EmptyTable)[Len(s) + 1] = EmptyTable
            /\ \A m \in 1..Len(s) : Append(s, EmptyTable)[m] = s[m]
        BY <3>2, <4>3
      <4> HIDE DEF k
      <4> QED BY <2>2, <4>1, <4>2, <4>3, <4>4 DEF N
    <3>4. /\ bt \in [1..N -> [level : 1..6, number : Nat]] /\ bt[N] = [level |-> d + 1, number |-> q]
          /\ \A m \in 1..Len(tables) : bt[m] = at[m] /\ m \in 1..N /\ m # N
      <4> DEFINE L  == Len(tables)
                 nw == [level |-> d + 1, number |-> q]
      <4>1. L \in Nat /\ L >= 1 /\ N = L + 1 /\ nw \in [level : 1..6, number : Nat]
            /\ at \in [1..L -> [level : 1..6, number : Nat]]
            /\ bt = [m \in 1..N |-> IF m = N THEN nw ELSE at[m]]
        <5>1. nw \in [level : 1..6, number : Nat]
          <6> HIDE DEF d, q
          <6> QED BY <2>2, <2>5
        <5>2. bt = [m \in 1..N |-> IF m = N THEN nw ELSE at[m]]
          OBVIOUS
        <5> QED BY <2>4, <5>1, <5>2
      <4> HIDE DEF L, nw, N, bt
      <4>2. /\ bt \in [1..N -> [level : 1..6, number : Nat]] /\ bt[N] = nw
            /\ \A m \in 1..L : bt[m] = at[m] /\ m \in 1..N /\ m # N
        BY <4>1
      <4> QED BY <4>2 DEF L, nw
    <3> HIDE DEF tc, bt
    <3>5. Tree(tc, bt)
      <4>1. Len(tc) >= 1 /\ bt[1] = [level |-> 1, number |-> 0]
        <5>1. 1 \in 1..Len(tables) /\ N >= 1
          BY <2>4
        <5> QED BY <2>3, <3>3, <3>4, <5>1 DEF Tree
      <4>2. ASSUME NEW m \in 1..N, NEW x \in Entries
            PROVE  /\ tc[m][x].kind = "absent" => tc[m][x] = Absent
                   /\ tc[m][x].kind = "table" =>
                        /\ tc[m][x].phys \in 1..N
                        /\ bt[tc[m][x].phys] = [level  |-> bt[m].level + 1,
                                                number |-> ENTRIES_PER_TABLE * bt[m].number + x]
        <5>1. m = N \/ m \in 1..Len(tables)
          BY <2>4
        <5>2. CASE m = N
          <6>1. tc[m][x] = Absent
            BY <3>3, <5>2 DEF EmptyTable
          <6> QED BY <6>1 DEF Absent
        <5>3. CASE m \in 1..Len(tables) /\ ~(m = k /\ x = i)
          <6>1. tc[m][x] = tables[m][x]
            BY <3>3, <5>3
          <6>2. /\ tables[m][x].kind = "absent" => tables[m][x] = Absent
                /\ tables[m][x].kind = "table" =>
                        /\ tables[m][x].phys \in 1..Len(tables)
                        /\ at[tables[m][x].phys] = [level  |-> at[m].level + 1,
                                                    number |-> ENTRIES_PER_TABLE * at[m].number + x]
            BY <2>3, <5>3 DEF Tree
          <6> QED BY <3>4, <5>3, <6>1, <6>2
        <5>4. CASE m = k /\ x = i
          <6>1. tc[m][x] = e
            BY <2>2, <3>3, <5>4
          <6>2. bt[m].level = d /\ bt[m].number = n
            <7>1. bt[m] = [level |-> d, number |-> n]
              BY <2>2, <3>4, <5>4
            <7> HIDE DEF d, n
            <7> QED BY <7>1
          <6>3. N \in 1..N
            BY <2>4
          <6> QED BY <3>1, <3>4, <5>4, <6>1, <6>2, <6>3
        <5> QED BY <5>1, <5>2, <5>3, <5>4
      <4> QED BY <3>3, <3>4, <4>1, <4>2 DEF Tree
    <3>6. tc[k][i].kind = "table" /\ tc[k][i].phys = N
      BY <2>2, <3>1, <3>3
    <3>7. ASSUME NEW v \in 0..(Span(0) - 1), NEW l \in 1..4, NEW ts, Route(tc, ts, l, v)
          PROVE  LET y == tc[ts[l]][Index(v, l)]
                 IN  (y.kind = "absent" => v \notin DoneBy(stack, a, z, B)) /\ Gives(y, v, M)
      <4>1. \A m \in 1..Len(tables) : \A x \in Entries : (m # k \/ x # i) => tc[m][x] = tables[m][x]
        BY <3>3
      <4>2. \/ ts[l] \in 1..Len(tables) /\ Route(tables, ts, l, v)
            \/ /\ l \in 2..4 /\ ts[l] = N /\ Route(tables, ts, l - 1, v)
               /\ ts[l - 1] = k /\ Index(v, l - 1) = i
        <5>1. Extends(tables, tc, k, i)
          BY <3>3, <3>6, <4>1 DEF Extends
        <5>2. Ends(tables, tc, k, i, ts, l, v)
          BY <2>2, <2>3, <3>5, <3>7, <5>1, NewTable
        <5> QED BY <3>3, <5>2 DEF Ends
      <4>3. Index(v, l) \in Entries
        <5>1. v \in Nat /\ l \in 1..5
          BY SpansAre
        <5> QED BY <5>1, IndexIs
      <4>4. CASE ts[l] \in 1..Len(tables) /\ Route(tables, ts, l, v)
        <5>1. LET y == tables[ts[l]][Index(v, l)]
              IN  (y.kind = "absent" => v \notin DoneBy(stack, a, z, B)) /\ Gives(y, v, M)
          BY <2>3, <4>4 DEF Correct
        <5>2. CASE ts[l] # k \/ Index(v, l) # i
          BY <4>1, <4>3, <4>4, <5>1, <5>2
        <5>3. CASE ts[l] = k /\ Index(v, l) = i
          BY <3>6, <5>3 DEF Gives
        <5> QED BY <5>2, <5>3
      <4>5. CASE /\ l \in 2..4 /\ ts[l] = N /\ Route(tables, ts, l - 1, v)
                 /\ ts[l - 1] = k /\ Index(v, l - 1) = i
        <5>1. tc[ts[l]][Index(v, l)] = Absent
          BY <3>3, <4>3, <4>5 DEF EmptyTable
        <5>2. v \notin DoneBy(stack, a, z, B)
          <6>1. l - 1 \in 1..4
            BY <4>5
          <6>2. tables[k][i].kind = "absent"
            BY <2>8 DEF Absent
          <6> QED BY <2>3, <4>5, <6>1, <6>2 DEF Correct
        <5> QED BY <5>1, <5>2 DEF Absent, Gives
      <4> QED BY <4>2, <4>4, <4>5
    <3>8. Correct(tc, DoneBy(stack, a, z, B), M)
      BY <3>7 DEF Correct
    <3>9. Calls(stack', tc, bt, a, z) /\ DoneBy(stack', a, z, B) = DoneBy(stack, a, z, B)
      <4>1. Len(tc) \in Nat /\ Len(tc) >= Len(tables) /\ N \in 1..Len(tc)
        BY <2>4, <3>3
      <4>2. \A m \in 1..Len(tables) : bt[m] = at[m] /\ (m # k => tc[m] = tables[m])
        BY <3>3, <3>4
      <4>3. d <= 3 => \A m \in 1..Len(tc) : bt[m].level <= 4
        <5> SUFFICES ASSUME d <= 3, NEW m \in 1..Len(tc) PROVE bt[m].level <= 4
          OBVIOUS
        <5>1. m \in 1..Len(tables) \/ m = N
          BY <2>4, <3>3
        <5>2. CASE m = N
          <6>1. bt[m].level = d + 1
            <7> HIDE DEF d, q
            <7> QED BY <3>4, <5>2
          <6> HIDE DEF d
          <6> QED BY <2>2, <6>1
        <5> QED BY <2>6, <3>4, <5>1, <5>2
      <4>4. Reaches(tc, bt, at, N)
        BY <3>4, <3>6, <4>1, <4>2, <4>3 DEF Reaches
      <4> QED BY <1>1, <2>1, <2>8, <4>4, DescendCalls
    <3> QED BY <3>5, <3>8, <3>9 DEF Kept, tc
  <2> QED BY <2>1, <2>7, <2>8
<1> QED BY <1>2, <1>3

(* The end of a call: what lies in its table is done.                      *)
LEMMA ReturnKeeps ==
  ASSUME NEW at, NEW a \in Nat, NEW z \in Nat, NEW B, NEW M,
         Kept(tables, stack, at, a, z, B, M), Return
  PROVE  Kept(tables, stack', at, a, z, B, M)
<1> DEFINE f == Top
           d == Len(stack)
           n == at[f.table].number
<1>1. /\ stack # <<>> /\ f.i # None /\ f.i = f.entry_end /\ stack' = Pop
      /\ Tree(tables, at) /\ Calls(stack, tables, at, a, z) /\ Correct(tables, DoneBy(stack, a, z, B), M)
  BY DEF Return, Kept
<1>2. stack \in Seq(Frames) /\ d \in 1..6 /\ f \in Frames /\ f = stack[d]
  <2>1. stack \in Seq(Frames)
    BY <1>1 DEF Calls
  <2>2. d \in Nat \ {0} /\ d <= 6 /\ stack[d] \in Frames
    BY <1>1, <2>1, Replaced DEF Calls
  <2>3. d \in 1..6
    <3> HIDE DEF d
    <3> QED BY <2>2
  <2>4. f = stack[d]
    BY DEF Top
  <2> QED BY <2>1, <2>2, <2>3, <2>4
<1>3. d \in 1..4 /\ Clips(f, d, a, z) /\ Placed(f, d, tables, at)
  <2>1. d # 6
    BY <1>1, <1>2 DEF Calls
  <2>2. Clips(f, d, a, z)
    <3>1. Called(f, d, a, z) \/ Clips(f, d, a, z)
      <4>1. Len(stack) <= 5
        <5>1. d <= 5
          BY <1>2, <2>1
        <5> QED BY <5>1
      <4> QED BY <1>1, <1>2, <4>1 DEF Calls
    <3> QED BY <1>1, <3>1 DEF Called
  <2>3. d # 5
    <3> SUFFICES ASSUME d = 5 PROVE FALSE
      OBVIOUS
    <3>1. f.i < f.entry_end
      BY <1>1, <1>2 DEF Calls
    <3> DEFINE x == f.i
               y == f.entry_end
    <3>2. x < y /\ x = y /\ y \in 1..ENTRIES_PER_TABLE
      BY <1>1, <2>2, <3>1 DEF Clips
    <3>3. ENTRIES_PER_TABLE \in Nat
      BY SpansAre
    <3> HIDE DEF x, y
    <3> QED BY <3>2, <3>3
  <2>4. d \in 1..Len(stack)
    <3>1. d \in 1..6
      BY <1>2
    <3>2. d \in 1..d
      <4> HIDE DEF d
      <4> QED BY <3>1
    <3> QED BY <3>2
  <2>5. d \in 1..4
    <3> HIDE DEF d
    <3> QED BY <1>2, <2>1, <2>3
  <2> QED BY <1>1, <1>2, <2>2, <2>4, <2>5 DEF Calls
<1>4. /\ Pop \in Seq(Frames) /\ Len(Pop) = d - 1 /\ \A j \in 1..(d-1) : Pop[j] = stack[j]
  BY <1>1, <1>2, Replaced DEF Pop
<1>5. \A m \in 1..Len(tables) : at[m].level <= 4
  <2>1. Len(stack) <= 4
    <3>1. d <= 4
      <4>1. d \in 1..4
        BY <1>3
      <4> HIDE DEF d
      <4> QED BY <4>1
    <3> QED BY <3>1
  <2> QED BY <1>1, <2>1 DEF Calls
<1>6. Calls(Pop, tables, at, a, z)
  <2>1. \A j \in 1..(d-1) : /\ Placed(stack[j], j, tables, at) /\ Clips(stack[j], j, a, z)
                            /\ Leads(stack[j], stack[j+1], tables)
    <3>1. \A j \in 1..(d-1) : j \in 1..Len(stack) /\ j < Len(stack)
      BY <1>3
    <3> QED BY <1>1, <3>1 DEF Calls
  <2>2. \A j \in 1..(d-1) : j < d - 1 => j \in 1..(d-1) /\ j + 1 \in 1..(d-1)
    BY <1>3
  <2>3. Pop # <<>> => 1 \in 1..(d-1) /\ d - 1 \in 1..(d-1)
    <3>1. Pop # <<>> => Len(Pop) # 0
      BY <1>4
    <3> HIDE DEF d
    <3> QED BY <1>3, <1>4, <3>1
  <2>4. Pop # <<>> => Pop[1].table = 1 /\ Clips(Pop[Len(Pop)], Len(Pop), a, z)
    <3>1. stack[1].table = 1
      BY <1>1 DEF Calls
    <3> QED BY <1>4, <2>1, <2>3, <3>1
  <2>5. Len(Pop) <= 3
    <3> HIDE DEF d
    <3> QED BY <1>3, <1>4
  <2>6. ASSUME NEW j \in 1..Len(Pop) PROVE Placed(Pop[j], j, tables, at)
    BY <1>4, <2>1
  <2>7. ASSUME NEW j \in 1..Len(Pop), j < Len(Pop)
        PROVE  Clips(Pop[j], j, a, z) /\ Leads(Pop[j], Pop[j+1], tables)
    <3>1. j \in 1..(d-1) /\ j + 1 \in 1..(d-1)
      BY <1>4, <2>2, <2>7
    <3>2. Pop[j] = stack[j] /\ Pop[j+1] = stack[j+1]
      BY <1>4, <3>1
    <3> QED BY <2>1, <3>1, <3>2
  <2> HIDE DEF d
  <2> QED BY <1>4, <1>5, <2>4, <2>5, <2>6, <2>7 DEF Calls
<1> DEFINE base == f.base_offset
           ee   == f.entry_end
           sp   == Span(d - 1)
           t    == base + sp
           ls   == f.lin_start
           le   == f.lin_end
           P    == Progress(f)
<1>7. /\ base \in Nat /\ ls \in Nat /\ le \in Nat /\ sp \in Nat /\ P \in Nat
      /\ ls = Larger(a, base) /\ le = Least(z, t) /\ ls <= P /\ le <= P
  <2>1. base \in Nat /\ ls \in Nat /\ le \in Nat
    <3> HIDE DEF f
    <3> QED BY <1>2 DEF Frames
  <2>2. /\ ls = Larger(a, base) /\ le = Least(z, t) /\ ee \in 1..ENTRIES_PER_TABLE
        /\ le <= base + ee * Span(d)
    BY <1>3 DEF Clips
  <2>3. Span(d) \in Nat /\ sp \in Nat /\ ENTRIES_PER_TABLE \in Nat
    <3>1. d \in 0..5 /\ d - 1 \in 0..5
      BY <1>3
    <3> HIDE DEF d
    <3> QED BY <3>1, SpansAre
  <2>4. P = Larger(ls, base + ee * Span(d))
    <3>1. f.base_step = Span(d)
      BY <1>3 DEF Placed
    <3> QED BY <1>1, <3>1 DEF Progress
  <2> HIDE DEF base, ls, le, sp, P, ee, d
  <2> DEFINE x == ee * Span(d)
  <2>5. x \in Nat
    BY <2>2, <2>3
  <2> HIDE DEF x
  <2>6. P = Larger(ls, base + x) /\ le <= base + x
    BY <2>2, <2>4 DEF x
  <2> QED BY <2>1, <2>2, <2>3, <2>5, <2>6 DEF Larger
<1> HIDE DEF f, d, n, base, ee, sp, t, ls, le, P
<1>8. CASE d = 1
  <2>1. base = 0
    <3>1. n = 0
      <4>1. f.table = 1
        BY <1>1, <1>2, <1>8 DEF Calls
      <4>2. at[1].number = 0
        BY <1>1 DEF Tree
      <4> QED BY <4>1, <4>2 DEF n
    <3>2. base = n * Span(d - 1)
      BY <1>3 DEF Placed, base, n
    <3>3. Span(d - 1) \in Nat
      BY <1>7 DEF sp
    <3> QED BY <3>1, <3>2, <3>3
  <2>2. ASSUME NEW v \in 0..(Span(0) - 1), a <= v, v < z PROVE v < P
    <3>1. sp = Span(0)
      BY <1>8 DEF sp
    <3>2. v < t /\ v \in Nat /\ t \in Nat
      BY <1>7, <2>1, <3>1 DEF t
    <3> QED BY <1>7, <2>2, <3>2 DEF Least
  <2>3. DoneBy(Pop, a, z, B) \subseteq DoneBy(stack, a, z, B)
    BY <1>1, <1>2, <2>2 DEF DoneBy, P, d
  <2>4. Correct(tables, DoneBy(Pop, a, z, B), M)
    BY <1>1, <2>3, CorrectKept
  <2> QED BY <1>1, <1>6, <2>4 DEF Kept
<1>9. CASE d # 1
  <2> DEFINE h == d - 1
             p == stack[h]
  <2>1. h \in 1..3 /\ h + 1 = d /\ h \in 1..(d-1) /\ h \in 1..Len(stack) /\ h < Len(stack)
    <3>1. d \in 1..4 /\ d # 1
      BY <1>3, <1>9
    <3>2. h \in 1..3 /\ h + 1 = d /\ h \in 1..(d-1) /\ h \in 1..d /\ h < d
      BY <3>1
    <3> HIDE DEF h
    <3> QED BY <3>2 DEF d
  <2> HIDE DEF h
  <2>2. p \in Frames /\ Placed(p, h, tables, at) /\ Clips(p, h, a, z) /\ Leads(p, f, tables)
    BY <1>1, <1>2, <2>1 DEF Calls
  <2> DEFINE m   == at[p.table].number
             pi  == p.i
             pb  == p.base_offset
             pls == p.lin_start
             Q   == Progress(p)
             s   == Span(h)
  <2>3. /\ p.table \in 1..Len(tables) /\ m \in Nat /\ pi \in Nat /\ pi >= 1 /\ pi - 1 \in Entries
        /\ pb \in Nat /\ pls = Larger(a, pb) /\ pb = m * Span(h - 1) /\ p.base_step = s
    <3>1. p.table \in 1..Len(tables) /\ pb = m * Span(h - 1) /\ p.base_step = s
      BY <2>2 DEF Placed
    <3>2. m \in Nat
      BY <1>1, <3>1 DEF Tree
    <3>3. pi \in 0..p.entry_end /\ p.entry_end \in 1..ENTRIES_PER_TABLE /\ pls = Larger(a, pb) /\ pi >= 1
      BY <2>2 DEF Clips, Leads
    <3>4. pb \in Nat
      <4> HIDE DEF p
      <4> QED BY <2>2 DEF Frames
    <3>5. ENTRIES_PER_TABLE \in Nat
      BY SpansAre
    <3> DEFINE e == p.entry_end
    <3>6. pi \in 0..e /\ e \in 1..ENTRIES_PER_TABLE
      BY <3>3
    <3> HIDE DEF pi, e
    <3>7. pi \in Nat /\ pi - 1 \in Entries
      BY <3>3, <3>5, <3>6 DEF Entries
    <3> QED BY <3>1, <3>2, <3>3, <3>4, <3>7
  <2>4. at[f.table].number = ENTRIES_PER_TABLE * m + (pi - 1)
    <3>1. tables[p.table][pi - 1].kind = "table" /\ tables[p.table][pi - 1].phys = f.table
      BY <2>2 DEF Leads
    <3> DEFINE k == p.table
               x == pi - 1
    <3>2. k \in 1..Len(tables) /\ x \in Entries /\ tables[k][x].kind = "table" /\ tables[k][x].phys = f.table
      BY <2>3, <3>1
    <3> HIDE DEF k, x
    <3>3. at[tables[k][x].phys] = [level |-> at[k].level + 1, number |-> ENTRIES_PER_TABLE * at[k].number + x]
      BY <1>1, <3>2 DEF Tree
    <3>4. at[f.table].number = ENTRIES_PER_TABLE * at[k].number + x
      BY <3>2, <3>3
    <3> QED BY <3>4 DEF k, x
  <2>5. base = at[f.table].number * s /\ sp = s
    <3>1. h = d - 1
      BY DEF h
    <3> QED BY <1>3, <3>1 DEF Placed, base, sp
  <2>6. Q = Larger(pls, pb + pi * s)
    <3>1. pi # None
      BY <2>3 DEF None
    <3> QED BY <2>3, <3>1 DEF Progress
  <2>7. Span(h - 1) = ENTRIES_PER_TABLE * s /\ s \in Nat /\ ENTRIES_PER_TABLE \in Nat
    <3>1. h \in 1..5 /\ h \in 0..5
      BY <2>1
    <3> QED BY <3>1, SpansAre
  <2> HIDE DEF p, m, pi, pb, pls, Q, s
  <2>8. pb <= base /\ pb + pi * s = t
    <3> DEFINE w == ENTRIES_PER_TABLE
               x == pi * s
               y == m * (w * s)
    <3>1. x \in Nat /\ y \in Nat /\ (w * m + (pi - 1)) * s = y + x - s /\ x >= s
      BY <2>3, <2>7, SMT
    <3>2. pb = y /\ base = (w * m + (pi - 1)) * s
      BY <2>3, <2>4, <2>5, <2>7
    <3> HIDE DEF x, y, w
    <3>3. base = y + x - s
      BY <3>1, <3>2
    <3>4. pb <= base /\ pb + x = base + s
      BY <2>7, <3>1, <3>2, <3>3
    <3> QED BY <2>5, <3>4 DEF t, x
  <2>9. ASSUME NEW v \in 0..(Span(0) - 1), a <= v, v < z, v < Q PROVE v < P
    <3>1. v \in Nat
      BY SpansAre
    <3>2. t \in Nat
      BY <1>7 DEF t
    <3>3. Q = Larger(pls, t) /\ pls = Larger(a, pb) /\ pls \in Nat
      BY <2>3, <2>6, <2>8 DEF Larger
    <3>4. CASE v < t
      BY <1>7, <2>9, <3>1, <3>2, <3>4 DEF Least
    <3>5. CASE v >= t
      <4>1. v < pls
        BY <2>9, <3>1, <3>2, <3>3, <3>5 DEF Larger
      <4>2. pls <= ls
        BY <1>7, <2>3, <2>8, <3>3 DEF Larger
      <4> QED BY <1>7, <3>1, <3>3, <4>1, <4>2
    <3> QED BY <3>1, <3>2, <3>4, <3>5
  <2>10. Pop # <<>> /\ Pop[Len(Pop)] = p
    BY <1>4, <2>1 DEF h, p
  <2>11. DoneBy(Pop, a, z, B) \subseteq DoneBy(stack, a, z, B)
    BY <1>1, <1>2, <2>9, <2>10 DEF DoneBy, P, Q, d
  <2>12. Correct(tables, DoneBy(Pop, a, z, B), M)
    BY <1>1, <2>11, CorrectKept
  <2> QED BY <1>1, <1>6, <2>12 DEF Kept
<1> QED BY <1>8, <1>9

-----------------------------------------------------------------------------
(* init_paging: first the one range, then the other.                       *)

LEMMA FirstCall ==
  ASSUME NEW tb, NEW at, Tree(tb, at), \A k \in 1..Len(tb) : at[k].level <= 4,
         NEW a \in Nat, NEW z \in Nat
  PROVE  LET st == <<Call(1, 0, PML4_STEP, a, z, 0)>>
         IN  Calls(st, tb, at, a, z) /\ st # <<>> /\ Progress(st[Len(st)]) = a
<1> DEFINE c  == Call(1, 0, PML4_STEP, a, z, 0)
           st == <<c>>
<1>1. /\ PML4_STEP = Span(1) /\ Span(1) \in Nat /\ Span(0) \in Nat /\ None \in Int
      /\ Len(tb) \in Nat /\ Len(tb) >= 1 /\ at[1] = [level |-> 1, number |-> 0]
  BY SpansAre DEF None, Tree
<1>2. c = [table |-> 1, base_offset |-> 0, base_step |-> Span(1), lin_start |-> a, lin_end |-> z,
           phys_start |-> 0, i |-> None, entry_end |-> None]
  BY <1>1 DEF Call
<1> HIDE DEF c
<1>3. c \in Frames
  BY <1>1, <1>2 DEF Frames
<1>4. /\ c.table = 1 /\ c.base_offset = 0 /\ c.base_step = Span(1) /\ c.lin_start = a /\ c.lin_end = z
      /\ c.phys_start = 0 /\ c.i = None
  BY <1>2
<1>5. Placed(c, 1, tb, at)
  <2>1. 1 \in 1..Len(tb)
    <3> DEFINE o == Len(tb)
    <3>1. o \in Nat /\ o >= 1
      BY <1>1
    <3> HIDE DEF o
    <3>2. 1 \in 1..o
      BY <3>1
    <3> QED BY <3>2 DEF o
  <2>2. at[1].level = 1 /\ at[1].number * Span(1 - 1) = 0
    BY <1>1
  <2> QED BY <1>4, <2>1, <2>2 DEF Placed
<1>6. Called(c, 1, a, z)
  BY <1>4 DEF Called
<1>7. st \in Seq(Frames) /\ Len(st) = 1 /\ st[1] = c
  BY <1>3
<1> HIDE DEF st
<1>8. \A j \in 1..1 : j = 1
  OBVIOUS
<1>9. Calls(st, tb, at, a, z)
  BY <1>4, <1>5, <1>6, <1>7, <1>8 DEF Calls
<1>10. Progress(c) = a
  BY <1>4 DEF Progress, Larger
<1> QED BY <1>7, <1>9, <1>10 DEF st, c

Meanings == [v \in 0..(Span(0) - 1) |-> Meant(v)]
High     == HIGH_BASE..(HIGH_BASE + phys_mem_end - 1)

KeptHigh   == \E at : Kept(tables, stack, at, HIGH_BASE, HIGH_BASE + phys_mem_end, {}, Meanings)
KeptKernel == \E at : Kept(tables, stack, at, KERNEL_BASE, KERNEL_BASE + KERNEL_SIZE, High, Meanings)

(* Between the calls the tables are a tree and nothing but what was asked  *)
(* for is mapped; the second range starts from all that the first has done.*)
PageInv ==
  /\ phys_mem_end \in Nat /\ stage \in {"start", "high", "kernel", "loaded", "returned"}
  /\ stage \in {"start", "loaded", "returned"} => stack = <<>>
  /\ stage = "high" => KeptHigh
  /\ stage \in {"kernel", "loaded", "returned"} => KeptKernel

LEMMA Meaning ==
  ASSUME phys_mem_end \in Nat
  PROVE  /\ Means(HIGH_BASE, HIGH_BASE + phys_mem_end, {}, Meanings)
         /\ Means(KERNEL_BASE, KERNEL_BASE + KERNEL_SIZE, High, Meanings)
         /\ {HIGH_BASE, HIGH_BASE + phys_mem_end, KERNEL_BASE, KERNEL_BASE + KERNEL_SIZE} \subseteq Nat
<1>1. {HIGH_BASE, HIGH_BASE + phys_mem_end, KERNEL_BASE, KERNEL_BASE + KERNEL_SIZE} \subseteq Nat
      /\ KERNEL_SIZE \in Nat
  BY PagingConstants
<1>2. Span(0) \in Nat
  BY SpansAre
<1>3. \A v \in 0..(Span(0) - 1) : Meanings[v] = Meant(v)
  BY DEF Meanings
<1>4. Means(HIGH_BASE, HIGH_BASE + phys_mem_end, {}, Meanings)
  <2> SUFFICES ASSUME NEW v \in 0..(Span(0) - 1), HIGH_BASE <= v, v < HIGH_BASE + phys_mem_end
               PROVE  Meant(v) = v - HIGH_BASE
    BY <1>3 DEF Means
  <2>1. v \in HIGH_BASE..(HIGH_BASE + phys_mem_end - 1)
    BY <1>1, <1>2
  <2> QED BY <2>1 DEF Meant
<1>5. Means(KERNEL_BASE, KERNEL_BASE + KERNEL_SIZE, High, Meanings)
  <2> SUFFICES ASSUME NEW v \in 0..(Span(0) - 1), KERNEL_BASE <= v, v < KERNEL_BASE + KERNEL_SIZE, v \notin High
               PROVE  Meant(v) = v - KERNEL_BASE
    BY <1>3 DEF Means
  <2>1. v \in KERNEL_BASE..(KERNEL_BASE + KERNEL_SIZE - 1)
    BY <1>1, <1>2
  <2> QED BY <2>1 DEF Meant, High
<1> QED BY <1>1, <1>4, <1>5

(* A turn of map_pages, whatever range it maps.                            *)
LEMMA CallsKeep ==
  ASSUME NEW a \in Nat, NEW z \in Nat, NEW B, NEW M, Means(a, z, B, M),
         \E at : Kept(tables, stack, at, a, z, B, M), map_pages
  PROVE  \E at : Kept(tables', stack', at, a, z, B, M)
<1> PICK at : Kept(tables, stack, at, a, z, B, M)
  OBVIOUS
<1>1. CASE Enter
  BY <1>1, EnterKeeps
<1>2. CASE MapEntry
  BY <1>2, MapEntryKeeps
<1>3. CASE Descend
  BY <1>3, DescendKeeps
<1>4. CASE Return
  <2>1. Kept(tables, stack', at, a, z, B, M)
    BY <1>4, ReturnKeeps
  <2>2. tables' = tables
    BY <1>4 DEF Return
  <2> QED BY <2>1, <2>2
<1> QED BY <1>1, <1>2, <1>3, <1>4 DEF map_pages

LEMMA PageStep ==
  ASSUME PageInv, init_paging \/ return_paging
  PROVE  PageInv'
<1>1. phys_mem_end' = phys_mem_end /\ phys_mem_end \in Nat
  BY DEF PageInv, init_paging, return_paging, MapHigh, MapKernel, store_pml4, map_pages,
         Enter, MapEntry, Descend, Return, Dies
<1>2. Meanings' = Meanings /\ High' = High
  BY <1>1 DEF Meanings, High, Meant
<1> DEFINE h == HIGH_BASE
           m == HIGH_BASE + phys_mem_end
           k == KERNEL_BASE
           e == KERNEL_BASE + KERNEL_SIZE
<1>3. h \in Nat /\ m \in Nat /\ k \in Nat /\ e \in Nat /\ m = h + phys_mem_end
      /\ Means(h, m, {}, Meanings) /\ Means(k, e, High, Meanings)
  BY <1>1, Meaning
<1>4. /\ KeptHigh <=> \E at : Kept(tables, stack, at, h, m, {}, Meanings)
      /\ KeptHigh' <=> \E at : Kept(tables', stack', at, h, m, {}, Meanings)
      /\ KeptKernel <=> \E at : Kept(tables, stack, at, k, e, High, Meanings)
      /\ KeptKernel' <=> \E at : Kept(tables', stack', at, k, e, High, Meanings)
  BY <1>1, <1>2 DEF KeptHigh, KeptKernel, Kept, Calls, Tree, Correct, DoneBy
<1> HIDE DEF h, m, k, e
<1>5. CASE MapHigh
  <2>1. /\ stage = "start" /\ stage' = "high" /\ tables' = <<EmptyTable>>
        /\ stack' = <<Call(1, 0, PML4_STEP, h, m, 0)>>
    BY <1>5 DEF MapHigh, h, m
  <2> DEFINE tb == <<EmptyTable>>
             at == [x \in {1} |-> [level |-> 1, number |-> 0]]
             st == <<Call(1, 0, PML4_STEP, h, m, 0)>>
  <2>2. /\ tb \in Seq([Entries -> Ptes]) /\ Len(tb) = 1 /\ tb[1] = EmptyTable /\ \A j \in 1..1 : j = 1
        /\ at \in [1..1 -> [level : 1..6, number : Nat]] /\ at[1] = [level |-> 1, number |-> 0]
    <3>1. EmptyTable \in [Entries -> Ptes]
      BY DEF EmptyTable, Absent, Ptes
    <3>2. 1..1 = {1}
      OBVIOUS
    <3> HIDE DEF at
    <3>3. at = [x \in {1} |-> [level |-> 1, number |-> 0]]
      BY DEF at
    <3>4. [level |-> 1, number |-> 0] \in [level : 1..6, number : Nat]
      OBVIOUS
    <3> QED BY <3>1, <3>2, <3>3, <3>4
  <2> HIDE DEF tb, at
  <2>3. ASSUME NEW j \in 1..Len(tb), NEW x \in Entries PROVE tb[j][x] = Absent /\ tb[j][x].kind = "absent"
    BY <2>2 DEF EmptyTable, Absent
  <2>4. Tree(tb, at)
    BY <2>2, <2>3 DEF Tree
  <2>5. \A j \in 1..Len(tb) : at[j].level <= 4
    BY <2>2
  <2>6. Calls(st, tb, at, h, m) /\ st # <<>> /\ Progress(st[Len(st)]) = h
    BY <1>3, <2>4, <2>5, FirstCall
  <2> HIDE DEF st
  <2>7. DoneBy(st, h, m, {}) = {}
    <3> SUFFICES ASSUME NEW v \in 0..(Span(0) - 1), h <= v, v < h PROVE FALSE
      BY <2>6 DEF DoneBy
    <3>1. v \in Nat
      BY SpansAre
    <3> QED BY <1>3, <3>1
  <2>8. Correct(tb, DoneBy(st, h, m, {}), Meanings)
    <3> SUFFICES ASSUME NEW v \in 0..(Span(0) - 1), NEW l \in 1..4, NEW ts, Route(tb, ts, l, v)
                 PROVE  tb[ts[l]][Index(v, l)].kind = "absent"
      BY <2>7, Zenon DEF Correct, Gives
    <3>1. l \in 1..5 /\ v \in Nat
      BY SpansAre
    <3>2. Stands(tb, at, ts, l, v)
      BY <2>4, <3>1, RouteIs
    <3>3. Index(v, l) \in Entries
      BY <3>1, IndexIs
    <3> QED BY <2>3, <3>2, <3>3 DEF Stands
  <2>9. Kept(tables', stack', at, h, m, {}, Meanings)
    BY <2>1, <2>4, <2>6, <2>8 DEF Kept, tb, st
  <2> QED BY <1>1, <1>4, <2>1, <2>9 DEF PageInv
<1>6. CASE MapKernel
  <2>1. /\ stage = "high" /\ stage' = "kernel" /\ tables' = tables /\ stack = <<>>
        /\ stack' = <<Call(1, 0, PML4_STEP, k, e, 0)>>
    BY <1>6 DEF MapKernel, k, e
  <2>2. PICK at : Kept(tables, stack, at, h, m, {}, Meanings)
    BY <1>4, <2>1 DEF PageInv
  <2> DEFINE st == <<Call(1, 0, PML4_STEP, k, e, 0)>>
  <2>3. /\ Tree(tables, at) /\ Correct(tables, DoneBy(stack, h, m, {}), Meanings)
        /\ \A j \in 1..Len(tables) : at[j].level <= 4
    <3>1. Len(stack) <= 4
      BY <2>1
    <3> QED BY <2>2, <3>1 DEF Kept, Calls
  <2>4. Calls(st, tables, at, k, e) /\ st # <<>> /\ Progress(st[Len(st)]) = k
    BY <1>3, <2>3, FirstCall
  <2> HIDE DEF st
  <2>5. DoneBy(st, k, e, High) \subseteq DoneBy(stack, h, m, {})
    <3> SUFFICES ASSUME NEW v \in DoneBy(st, k, e, High)
                 PROVE  v \in 0..(Span(0) - 1) /\ h <= v /\ v < m
      BY <2>1 DEF DoneBy
    <3>1. v \in 0..(Span(0) - 1) /\ (v \in High \/ (k <= v /\ v < k))
      BY <2>4 DEF DoneBy
    <3>2. v \in Nat
      BY <3>1, SpansAre
    <3>3. v \in High
      BY <1>3, <3>1, <3>2
    <3> QED BY <1>1, <1>3, <3>1, <3>2, <3>3 DEF High, h
  <2>6. Correct(tables, DoneBy(st, k, e, High), Meanings)
    BY <2>3, <2>5, CorrectKept
  <2>7. Kept(tables', stack', at, k, e, High, Meanings)
    BY <2>1, <2>3, <2>4, <2>6 DEF Kept, st
  <2> QED BY <1>1, <1>4, <2>1, <2>7 DEF PageInv
<1>7. CASE store_pml4 \/ return_paging
  <2>1. /\ tables' = tables /\ stack' = stack /\ stage \in {"kernel", "loaded"} /\ stage' \in {"loaded", "returned"}
        /\ stack = <<>>
    BY <1>7 DEF store_pml4, return_paging, PageInv
  <2>2. KeptKernel
    BY <2>1 DEF PageInv
  <2>3. KeptKernel'
    BY <1>4, <2>1, <2>2
  <2> QED BY <1>1, <2>1, <2>3 DEF PageInv
<1>8. CASE map_pages
  <2>1. stage' = stage /\ stack # <<>>
    BY <1>8 DEF map_pages, Enter, MapEntry, Descend, Return, Dies, InLoop
  <2>2. CASE stage = "high"
    <3>1. KeptHigh'
      BY <1>3, <1>4, <1>8, <2>2, CallsKeep DEF PageInv
    <3> QED BY <1>1, <2>1, <2>2, <3>1 DEF PageInv
  <2>3. CASE stage = "kernel"
    <3>1. KeptKernel'
      BY <1>3, <1>4, <1>8, <2>3, CallsKeep DEF PageInv
    <3> QED BY <1>1, <2>1, <2>3, <3>1 DEF PageInv
  <2> QED BY <2>1, <2>2, <2>3 DEF PageInv
<1> QED BY <1>5, <1>6, <1>7, <1>8 DEF init_paging

(* While map_pages runs for one of the ranges, the tables form a tree of   *)
(* tables that are where their numbers say, and what is done is mapped as  *)
(* it is meant; at the end both ranges are done, in four levels.           *)
THEOREM PagesInvariant == Spec => []PageInv
<1>1. Init => PageInv
  BY PagingConstants DEF Init, PInit, PageInv
<1>2. PageInv /\ [Next]_vars => PageInv'
  <2> SUFFICES ASSUME PageInv, [Next]_vars PROVE PageInv'
    OBVIOUS
  <2>1. CASE UNCHANGED pagingVars
    BY <2>1 DEF PageInv, KeptHigh, KeptKernel, Kept, Meanings, Meant, High, pagingVars
  <2>2. CASE init_paging \/ return_paging
    BY <2>2, PageStep
  <2>3. init_paging \/ return_paging \/ UNCHANGED pagingVars
    BY DEF Next, vars, Bootstrapping, MainStep, main, MainFlags, MainHandlers, MainPic, MainMemory,
           DivideError, MainThreads, PageFault, Processor, Accepted, Tick, OtherDevice, Halted, Interrupt
  <2> QED BY <2>1, <2>2, <2>3
<1> QED BY <1>1, <1>2, PTL DEF Spec

-----------------------------------------------------------------------------
(* The walk of the processor.                                              *)

IsWalk(w, v) ==
  w = [lev \in 1..4 |->
         IF lev = 1 THEN tables[1][(v \div Steps[1]) % ENTRIES_PER_TABLE]
         ELSE IF w[lev - 1].kind = "table"
              THEN tables[w[lev - 1].phys][(v \div Steps[lev]) % ENTRIES_PER_TABLE]
         ELSE w[lev - 1]]

WalkOf(v) == CHOOSE w : IsWalk(w, v)

(* The next entry on a walk.                                               *)
Onward(e, v, l) == IF e.kind = "table" THEN tables[e.phys][Index(v, l)] ELSE e

Walked(w, v) ==
  /\ w[1] = tables[1][Index(v, 1)]
  /\ \A l \in 2..4 : w[l] = Onward(w[l - 1], v, l)

LEMMA WalkStep ==
  ASSUME NEW v \in Nat
  PROVE  Walked(WalkOf(v), v)
<1> DEFINE e1 == tables[1][Index(v, 1)]
           e2 == Onward(e1, v, 2)
           e3 == Onward(e2, v, 3)
           e4 == Onward(e3, v, 4)
           W  == WalkOf(v)
           g  == [l \in 1..4 |-> IF l = 1 THEN e1 ELSE IF l = 2 THEN e2 ELSE IF l = 3 THEN e3 ELSE e4]
           Walks(w) == w = [l \in 1..4 |-> IF l = 1 THEN e1 ELSE Onward(w[l - 1], v, l)]
<1>1. ASSUME NEW w PROVE IsWalk(w, v) <=> Walks(w)
  <2>1. \A l \in 1..4 : (v \div Steps[l]) % ENTRIES_PER_TABLE = Index(v, l)
    BY SpansAre DEF Index
  <2>2. 1 \in 1..4
    OBVIOUS
  <2>3. \A l \in 1..4 :
          (IF l = 1 THEN tables[1][(v \div Steps[1]) % ENTRIES_PER_TABLE]
           ELSE IF w[l - 1].kind = "table"
                THEN tables[w[l - 1].phys][(v \div Steps[l]) % ENTRIES_PER_TABLE]
           ELSE w[l - 1])
          = (IF l = 1 THEN e1 ELSE Onward(w[l - 1], v, l))
    BY <2>1, <2>2, Zenon DEF Onward
  <2> HIDE DEF e1
  <2> QED BY <2>3, Zenon DEF IsWalk
<1> HIDE DEF e1, e2, e3, e4
<1>2. Walks(g)
  <2>1. g[1] = e1 /\ g[2] = e2 /\ g[3] = e3 /\ g[4] = e4
    OBVIOUS
  <2>2. \A l \in 1..4 : g[l] = IF l = 1 THEN e1 ELSE Onward(g[l - 1], v, l)
    <3> SUFFICES ASSUME NEW l \in 1..4 PROVE g[l] = IF l = 1 THEN e1 ELSE Onward(g[l - 1], v, l)
      OBVIOUS
    <3>1. CASE l = 1
      BY <2>1, <3>1
    <3>2. CASE l = 2
      <4>1. g[l - 1] = e1
        BY <2>1, <3>2
      <4> QED BY <2>1, <3>2, <4>1 DEF e2
    <3>3. CASE l = 3
      <4>1. g[l - 1] = e2
        BY <2>1, <3>3
      <4> QED BY <2>1, <3>3, <4>1 DEF e3
    <3>4. CASE l = 4
      <4>1. g[l - 1] = e3
        BY <2>1, <3>4
      <4> QED BY <2>1, <3>4, <4>1 DEF e4
    <3> QED BY <3>1, <3>2, <3>3, <3>4
  <2>3. DOMAIN g = 1..4 /\ g = [l \in 1..4 |-> g[l]]
    OBVIOUS
  <2> HIDE DEF g
  <2> QED BY <2>2, <2>3, Zenon
<1>3. IsWalk(g, v)
  BY <1>1, <1>2
<1>4. IsWalk(W, v)
  BY <1>3, Zenon DEF WalkOf
<1>5. Walks(W)
  BY <1>1, <1>4
<1> HIDE DEF W
<1>6. \A l \in 1..4 : W[l] = IF l = 1 THEN e1 ELSE Onward(W[l - 1], v, l)
  BY <1>5, Zenon
<1>7. \A l \in 2..4 : l \in 1..4 /\ l # 1
  OBVIOUS
<1>8. 1 \in 1..4
  OBVIOUS
<1>9. W[1] = e1
  BY <1>6, <1>8
<1>10. ASSUME NEW l \in 2..4 PROVE W[l] = Onward(W[l - 1], v, l)
  BY <1>6, <1>7
<1>11. Walked(W, v)
  BY <1>9, <1>10 DEF Walked, e1
<1> QED BY <1>11 DEF W

(* It ends at an entry that is no table, and goes by tables until then.    *)
LEMMA WalkEnds ==
  ASSUME NEW at, Tree(tables, at), \A k \in 1..Len(tables) : at[k].level <= 4,
         NEW v \in 0..(Span(0) - 1)
  PROVE  \E l \in 1..4 : \E ts :
           /\ Route(tables, ts, l, v) /\ WalkOf(v)[4] = tables[ts[l]][Index(v, l)]
           /\ WalkOf(v)[4] \in Ptes /\ WalkOf(v)[4].kind # "table"
<1> DEFINE W  == WalkOf(v)
           e1 == W[1]
           e2 == W[2]
           e3 == W[3]
           e4 == W[4]
           ts == [j \in 1..5 |-> IF j = 1 THEN 1 ELSE IF j = 2 THEN e1.phys ELSE IF j = 3 THEN e2.phys
                                 ELSE IF j = 4 THEN e3.phys ELSE e4.phys]
<1>1. v \in Nat
  BY SpansAre
<1>2. /\ e1 = tables[1][Index(v, 1)] /\ e2 = Onward(e1, v, 2) /\ e3 = Onward(e2, v, 3)
      /\ e4 = Onward(e3, v, 4)
  <2>1. Walked(W, v)
    BY <1>1, WalkStep
  <2> HIDE DEF W
  <2>7. \A l \in 2..4 : W[l] = Onward(W[l - 1], v, l)
    BY <2>1 DEF Walked
  <2>2. e1 = tables[1][Index(v, 1)]
    BY <2>1 DEF Walked
  <2>3. 2 \in 2..4 /\ 3 \in 2..4 /\ 4 \in 2..4 /\ 2 - 1 = 1 /\ 3 - 1 = 2 /\ 4 - 1 = 3
    OBVIOUS
  <2>4. e2 = Onward(e1, v, 2)
    BY <2>3, <2>7
  <2>5. e3 = Onward(e2, v, 3)
    BY <2>3, <2>7
  <2>6. e4 = Onward(e3, v, 4)
    BY <2>3, <2>7
  <2> QED BY <2>2, <2>4, <2>5, <2>6
<1> HIDE DEF W
<1>3. ts[1] = 1 /\ ts[2] = e1.phys /\ ts[3] = e2.phys /\ ts[4] = e3.phys /\ ts[5] = e4.phys
  OBVIOUS
<1> HIDE DEF e1, e2, e3, e4, ts
<1> DEFINE En(l) == tables[ts[l]][Index(v, l)]
<1>4. ASSUME NEW l \in 1..4, \A j \in 1..(l-1) : En(j).kind = "table" /\ En(j).phys = ts[j+1]
      PROVE  Route(tables, ts, l, v) /\ En(l) \in Ptes /\ ts[l] \in 1..Len(tables) /\ at[ts[l]].level = l
             /\ Index(v, l) \in Entries
  <2>1. Route(tables, ts, l, v)
    BY <1>3, <1>4 DEF Route
  <2>2. l \in 1..5
    OBVIOUS
  <2>3. Stands(tables, at, ts, l, v)
    BY <2>1, <2>2, RouteIs
  <2>4. Index(v, l) \in Entries
    BY <1>1, <2>2, IndexIs
  <2>5. ts[l] \in 1..Len(tables) /\ at[ts[l]] = [level |-> l, number |-> v \div Span(l - 1)]
    BY <2>3 DEF Stands
  <2>6. at[ts[l]].level = l
    BY <2>5
  <2>7. tables[ts[l]] \in [Entries -> Ptes]
    BY <2>5 DEF Tree
  <2> QED BY <2>1, <2>4, <2>5, <2>6, <2>7
<1>5. En(1) = e1
  BY <1>2, <1>3
<1>6. ASSUME NEW l \in 1..4, Route(tables, ts, l, v), En(l) \in Ptes, En(l).kind # "table", e4 = En(l)
      PROVE  \E h \in 1..4 : \E us :
               /\ Route(tables, us, h, v) /\ e4 = tables[us[h]][Index(v, h)]
               /\ e4 \in Ptes /\ e4.kind # "table"
  BY <1>6
<1> SUFFICES \E h \in 1..4 : \E us :
               /\ Route(tables, us, h, v) /\ e4 = tables[us[h]][Index(v, h)]
               /\ e4 \in Ptes /\ e4.kind # "table"
  BY DEF e4, W
<1> HIDE DEF En
<1>7. 1 \in 1..4 /\ 2 \in 1..4 /\ 3 \in 1..4 /\ 4 \in 1..4
  OBVIOUS
<1>8. Route(tables, ts, 1, v) /\ En(1) \in Ptes
  <2>1. \A j \in 1..(1-1) : En(j).kind = "table" /\ En(j).phys = ts[j+1]
    OBVIOUS
  <2> QED BY <1>4, <1>7, <2>1
<1>9. CASE e1.kind # "table"
  <2>1. e2 = e1
    BY <1>2, <1>9 DEF Onward
  <2>2. e3 = e1
    BY <1>2, <1>9, <2>1 DEF Onward
  <2>3. e4 = e1
    BY <1>2, <1>9, <2>2 DEF Onward
  <2> QED BY <1>5, <1>6, <1>7, <1>8, <1>9, <2>3
<1>10. CASE e1.kind = "table"
  <2>1. En(2) = e2
    BY <1>2, <1>3, <1>10 DEF Onward, En
  <2>2. \A j \in 1..(2-1) : En(j).kind = "table" /\ En(j).phys = ts[j+1]
    <3>1. \A j \in 1..(2-1) : j = 1 /\ j + 1 = 2
      OBVIOUS
    <3>2. En(1).kind = "table" /\ En(1).phys = ts[2]
      BY <1>3, <1>5, <1>10
    <3> QED BY <3>1, <3>2
  <2>3. Route(tables, ts, 2, v) /\ En(2) \in Ptes
    BY <1>4, <1>7, <2>2
  <2>4. CASE e2.kind # "table"
    <3>1. e3 = e2
      BY <1>2, <2>4 DEF Onward
    <3>2. e4 = e2
      BY <1>2, <2>4, <3>1 DEF Onward
    <3> QED BY <1>6, <1>7, <2>1, <2>3, <2>4, <3>2
  <2>5. CASE e2.kind = "table"
    <3>1. En(3) = e3
      BY <1>2, <1>3, <2>5 DEF Onward, En
    <3>2. \A j \in 1..(3-1) : En(j).kind = "table" /\ En(j).phys = ts[j+1]
      <4>1. \A j \in 1..(3-1) : (j = 1 /\ j + 1 = 2) \/ (j = 2 /\ j + 1 = 3)
        OBVIOUS
      <4>2. /\ En(1).kind = "table" /\ En(1).phys = ts[2]
            /\ En(2).kind = "table" /\ En(2).phys = ts[3]
        BY <1>3, <1>5, <1>10, <2>1, <2>5
      <4> QED BY <4>1, <4>2
    <3>3. Route(tables, ts, 3, v) /\ En(3) \in Ptes
      BY <1>4, <1>7, <3>2
    <3>4. CASE e3.kind # "table"
      <4>1. e4 = e3
        BY <1>2, <3>4 DEF Onward
      <4> QED BY <1>6, <1>7, <3>1, <3>3, <3>4, <4>1
    <3>5. CASE e3.kind = "table"
      <4>1. En(4) = e4
        BY <1>2, <1>3, <3>5 DEF Onward, En
      <4>2. \A j \in 1..(4-1) : En(j).kind = "table" /\ En(j).phys = ts[j+1]
        <5>1. \A j \in 1..(4-1) : (j = 1 /\ j + 1 = 2) \/ (j = 2 /\ j + 1 = 3) \/ (j = 3 /\ j + 1 = 4)
          OBVIOUS
        <5>2. /\ En(1).kind = "table" /\ En(1).phys = ts[2]
              /\ En(2).kind = "table" /\ En(2).phys = ts[3]
              /\ En(3).kind = "table" /\ En(3).phys = ts[4]
          BY <1>3, <1>5, <1>10, <2>1, <2>5, <3>1, <3>5
        <5> QED BY <5>1, <5>2
      <4>3. /\ Route(tables, ts, 4, v) /\ En(4) \in Ptes /\ ts[4] \in 1..Len(tables) /\ at[ts[4]].level = 4
            /\ Index(v, 4) \in Entries
        BY <1>4, <1>7, <4>2
      <4>4. e4.kind # "table"
        <5> SUFFICES ASSUME e4.kind = "table" PROVE FALSE
          OBVIOUS
        <5> DEFINE t == ts[4]
                   x == Index(v, 4)
        <5>1. t \in 1..Len(tables) /\ x \in Entries /\ tables[t][x].kind = "table" /\ at[t].level = 4
          BY <4>1, <4>3 DEF En
        <5> HIDE DEF t, x
        <5>2. /\ tables[t][x].phys \in 1..Len(tables)
              /\ at[tables[t][x].phys] = [level |-> at[t].level + 1, number |-> ENTRIES_PER_TABLE * at[t].number + x]
          BY <5>1 DEF Tree
        <5> DEFINE p == tables[t][x].phys
        <5>3. at[p].level = 5 /\ p \in 1..Len(tables)
          BY <5>1, <5>2
        <5> HIDE DEF p
        <5>4. at[p].level <= 4
          BY <5>3
        <5> QED BY <5>3, <5>4
      <4> QED BY <1>6, <1>7, <4>1, <4>3, <4>4
    <3> QED BY <3>4, <3>5
  <2> QED BY <2>4, <2>5
<1> QED BY <1>9, <1>10

(* Once init_paging has set cr3, every address leads where memory.h says   *)
(* and every other one nowhere, for tables, memory and bases of any size.  *)
THEOREM MemoryMapped == Spec => []Mapped
<1>1. PageInv => Mapped
  <2> SUFFICES ASSUME PageInv, stage = "loaded", NEW v \in 0..(ENTRIES_PER_TABLE * PML4_STEP - 1)
               PROVE  Translate(v) = Meant(v)
    BY DEF Mapped
  <2>1. v \in 0..(Span(0) - 1) /\ v \in Nat
    <3>1. Span(0) = ENTRIES_PER_TABLE * PML4_STEP
      BY DEF Span
    <3> DEFINE s == Span(0)
    <3>2. s \in Nat /\ v \in 0..(s-1)
      BY <3>1, SpansAre
    <3> HIDE DEF s
    <3>3. v \in Nat
      BY <3>2
    <3> QED BY <3>2, <3>3 DEF s
  <2> DEFINE e == WalkOf(v)[4]
             k == KERNEL_BASE
             z == KERNEL_BASE + KERNEL_SIZE
  <2>2. Translate(v) = CASE e.kind = "page"  -> e.phys + (v % PAGE)
                         [] e.kind = "large" -> e.phys + (v % LARGE)
                         [] OTHER            -> None
    BY DEF Translate, WalkOf, IsWalk
  <2>3. PICK at : Kept(tables, stack, at, k, z, High, Meanings)
    BY DEF PageInv, KeptKernel
  <2>4. stack = <<>> /\ k \in Nat /\ z \in Nat /\ phys_mem_end \in Nat /\ KERNEL_SIZE \in Nat
    BY PagingConstants DEF PageInv
  <2>5. /\ Tree(tables, at) /\ \A j \in 1..Len(tables) : at[j].level <= 4
        /\ Correct(tables, DoneBy(stack, k, z, High), Meanings)
    <3>1. Len(stack) <= 4
      BY <2>4
    <3> QED BY <2>3, <3>1 DEF Kept, Calls
  <2> DEFINE Found(l, ts) == /\ Route(tables, ts, l, v) /\ e = tables[ts[l]][Index(v, l)]
                             /\ e \in Ptes /\ e.kind # "table"
  <2>12. \E l \in 1..4 : \E ts : Found(l, ts)
    BY <2>1, <2>5, WalkEnds
  <2>13. PICK l \in 1..4 : \E ts : Found(l, ts)
    BY <2>12
  <2>6. PICK ts : Found(l, ts)
    BY <2>13
  <2> HIDE DEF e
  <2>7. /\ e.kind = "absent" => v \notin DoneBy(stack, k, z, High)
        /\ Gives(e, v, Meanings)
    BY <2>1, <2>5, <2>6 DEF Correct
  <2>8. Meanings[v] = Meant(v)
    BY <2>1 DEF Meanings
  <2>9. CASE e.kind = "absent"
    <3>1. v \notin High /\ ~(k <= v /\ v < z)
      BY <2>1, <2>4, <2>7, <2>9 DEF DoneBy
    <3>2. v \notin KERNEL_BASE..(KERNEL_BASE + KERNEL_SIZE - 1)
      BY <2>1, <2>4, <3>1
    <3>3. Meant(v) = None
      BY <3>1, <3>2 DEF Meant, High
    <3> QED BY <2>2, <2>9, <3>3
  <2>10. CASE e.kind = "page"
    BY <2>2, <2>7, <2>8, <2>10 DEF Gives
  <2>11. CASE e.kind = "large"
    BY <2>2, <2>7, <2>8, <2>11 DEF Gives
  <2> QED BY <2>6, <2>9, <2>10, <2>11 DEF Ptes
<1> QED BY <1>1, PagesInvariant, PTL
=============================================================================
