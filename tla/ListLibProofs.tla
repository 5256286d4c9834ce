--------------------------- MODULE ListLibProofs ---------------------------
(***************************************************************************)
(* list.c keeps its promise for any number of lists and of entries:        *)
(* Rings, and that ListLib implements Deques.                              *)
(***************************************************************************)
EXTENDS ListLib, RingProofs

Memories == Pointers(Nodes, Nodes \cup {NULL})

(* The lists of the heads as sequences.                                    *)
Now == [h \in Heads |-> Seq_(h)]

(* Every entry is in the ring of one head at most.                         *)
RingsAre(l, q) ==
  /\ l \in Memories
  /\ q \in [Heads -> Seq(Entries)]
  /\ \A h \in Heads : Ring(l, h, q[h])
  /\ \A g, h \in Heads : g # h => Members(q[g]) \cap Members(q[h]) = {}

IInv == RingsAre(ls, Now)

LEMMA NodesOK ==
  /\ IsFiniteSet(Nodes) /\ Cardinality(Nodes) \in Nat
  /\ Entries \subseteq Nodes /\ Heads \subseteq Nodes
  /\ Seq(Entries) \subseteq Seq(Nodes)
<1>1. IsFiniteSet(Nodes)
  BY Finite, FS_Union DEF Nodes
<1>2. Entries \subseteq Nodes /\ Heads \subseteq Nodes
  BY DEF Nodes
<1>3. QED
  BY <1>1, <1>2, FS_CardinalityType

(* Rings determine what is read.                                           *)
LEMMA Reads ==
  ASSUME NEW l, NEW q, RingsAre(l, q), NEW h \in Heads
  PROVE  Contents(l, h, Limit) = q[h] /\ WellFormed(l, h, Limit)
<1>1. /\ l \in Pointers(Nodes, Nodes \cup {NULL}) /\ h \in Nodes
      /\ q[h] \in Seq(Nodes) /\ Ring(l, h, q[h])
  BY NodesOK DEF RingsAre, Memories
<1>2. Limit \in Nat /\ Len(q[h]) < Limit
  BY <1>1, NodesOK, RingFits DEF Limit
<1>3. QED
  BY <1>1, <1>2, RingIsRead

LEMMA ReadsNow ==
  ASSUME NEW q, RingsAre(ls, q)
  PROVE  Now = q /\ IInv
<1>1. \A h \in Heads : Seq_(h) = q[h]
  BY Reads DEF Seq_
<1>2. Now = q
  BY <1>1 DEF Now, RingsAre
<1>3. QED
  BY <1>2 DEF IInv

LEMMA ReadsNext ==
  ASSUME NEW q, RingsAre(ls', q)
  PROVE  Now' = q /\ IInv'
<1>1. \A h \in Heads : Seq_(h)' = q[h]
  BY Reads DEF Seq_
<1>2. Now' = q
  BY <1>1 DEF Now, RingsAre
<1>3. QED
  BY <1>2 DEF IInv

(* Nothing but the ring of h changes: its new entries are s.               *)
LEMMA OneRing ==
  ASSUME IInv, NEW l2 \in Memories, NEW h \in Heads, NEW s \in Seq(Entries),
         Ring(l2, h, s),
         \A g \in Heads \ {h} : Members(Now[g]) \cap Members(s) = {},
         \A x \in Nodes, g \in Heads \ {h} :
            x \in {g} \cup Members(Now[g]) =>
              l2.next[x] = ls.next[x] /\ l2.prev[x] = ls.prev[x]
  PROVE  RingsAre(l2, [Now EXCEPT ![h] = s])
<1> DEFINE q == [Now EXCEPT ![h] = s]
<1>1. /\ q \in [Heads -> Seq(Entries)]
      /\ q[h] = s /\ \A g \in Heads \ {h} : q[g] = Now[g]
  BY DEF IInv, RingsAre
<1>2. ASSUME NEW g \in Heads \ {h} PROVE Ring(l2, g, q[g])
  <2>1. Ring(ls, g, Now[g]) /\ Now[g] \in Seq(Nodes)
    BY NodesOK DEF IInv, RingsAre
  <2>2. {g} \cup Members(Now[g]) \subseteq Nodes
    BY <2>1, NodesOK DEF Members
  <2>3. QED
    BY <1>1, <2>1, <2>2, RingFrame
<1>3. \A f, g \in Heads : f # g => Members(q[f]) \cap Members(q[g]) = {}
  BY <1>1 DEF IInv, RingsAre
<1>4. QED
  BY <1>1, <1>2, <1>3 DEF RingsAre

LEMMA OffMeans ==
  ASSUME IInv, NEW e \in Entries
  PROVE  /\ \A h \in Heads : On(e, h) <=> e \in Members(Now[h])
         /\ \A h \in Heads : DOMAIN Now[h] = 1..Len(Now[h])
         /\ e \in Nodes /\ \A h \in Heads : e # h
BY Separate, NodesOK DEF IInv, RingsAre, On, Now, Members

LEMMA RingsApart ==
  ASSUME IInv, NEW g \in Heads, NEW h \in Heads, g # h
  PROVE  ({g} \cup Members(Now[g])) \cap ({h} \cup Members(Now[h])) = {}
<1>1. Members(Now[g]) \subseteq Entries /\ Members(Now[h]) \subseteq Entries
  BY DEF IInv, RingsAre, Members
<1>2. Members(Now[g]) \cap Members(Now[h]) = {}
  BY DEF IInv, RingsAre
<1>3. QED
  BY <1>1, <1>2, Separate

LEMMA InitRings == Init => IInv /\ D!Init
<1> SUFFICES ASSUME Init PROVE IInv /\ D!Init
  OBVIOUS
<1> DEFINE q == [h \in Heads |-> <<>>]
<1>1. ls \in Memories
  BY DEF Init, Memories, Pointers, Nodes
<1>2. \A h \in Heads : Ring(ls, h, <<>>)
  BY DEF Init, Ring, Stop, Nodes
<1>3. RingsAre(ls, q)
  BY <1>1, <1>2 DEF RingsAre, Members
<1>4. Now = q /\ IInv
  <2> HIDE DEF q
  <2> QED BY <1>3, ReadsNow
<1>5. QED
  BY <1>4 DEF D!Init, Now

(* Entry e joins the ring of h.                                            *)
LEMMA Joins ==
  ASSUME IInv, NEW e \in Entries, NEW h \in Heads, Off(e),
         ls' \in Memories, NEW s \in Seq(Entries), Ring(ls', h, s),
         Members(s) = Members(Now[h]) \cup {e},
         \A x \in Nodes : x # e /\ x \notin {h} \cup Members(Now[h]) =>
           ls'.next[x] = ls.next[x] /\ ls'.prev[x] = ls.prev[x]
  PROVE  Now' = [Now EXCEPT ![h] = s] /\ IInv'
<1>1. \A g \in Heads : e \notin Members(Now[g])
  BY OffMeans DEF Off
<1>2. ASSUME NEW x \in Nodes, NEW g \in Heads \ {h}, x \in {g} \cup Members(Now[g])
      PROVE  ls'.next[x] = ls.next[x] /\ ls'.prev[x] = ls.prev[x]
  <2>1. x # e
    BY <1>1, <1>2, OffMeans
  <2>2. x \notin {h} \cup Members(Now[h])
    BY <1>2, RingsApart
  <2>3. QED
    BY <2>1, <2>2
<1>3. \A g \in Heads \ {h} : Members(Now[g]) \cap Members(s) = {}
  BY <1>1 DEF IInv, RingsAre
<1>4. QED
  BY <1>2, <1>3, OneRing, ReadsNext

LEMMA RingOf ==
  ASSUME IInv, NEW h \in Heads
  PROVE  /\ ls \in Pointers(Nodes, Nodes \cup {NULL})
         /\ Now[h] \in Seq(Nodes) /\ Now[h] \in Seq(Entries)
         /\ Ring(ls, h, Now[h]) /\ h \in Nodes
         /\ Now \in [Heads -> Seq(Entries)]
BY NodesOK DEF IInv, RingsAre, Memories

LEMMA OffIsFree ==
  ASSUME IInv, NEW e \in Entries, Off(e)
  PROVE  D!Free(e)
BY OffMeans DEF Off, D!Free, D!Elements, Now, Members

LEMMA AddRings ==
  ASSUME IInv, NEW e \in Entries, NEW h \in Heads, Add(e, h)
  PROVE  IInv' /\ D!Add(e, h)
<1> DEFINE one == <<e>>
           s   == one \o Now[h]
<1>1. e \in Nodes /\ e # h /\ e \notin Members(Now[h])
  BY OffMeans DEF Add, Off
<1>2. one \in Seq(Entries) /\ Members(one) = {e}
  BY DEF Members
<1>3. Ring(ls', h, s) /\ ls' \in Memories
  BY <1>1, RingOf, RingAdd, ListOpsType DEF Add, Memories
<1> HIDE DEF one
<1>4. s \in Seq(Entries) /\ Members(s) = Members(Now[h]) \cup {e}
  BY <1>2, RingOf, MembersConcat
<1>5. \A x \in Nodes : x # e /\ x \notin {h} \cup Members(Now[h]) =>
        ls'.next[x] = ls.next[x] /\ ls'.prev[x] = ls.prev[x]
  BY <1>1, RingOf, AddFrame DEF Add
<1> HIDE DEF s
<1>6. Now' = [Now EXCEPT ![h] = s] /\ IInv'
  BY <1>3, <1>4, <1>5, Joins DEF Add
<1>7. QED
  BY <1>6, OffIsFree DEF D!Add, Now, s, one, Add

LEMMA AddTailRings ==
  ASSUME IInv, NEW e \in Entries, NEW h \in Heads, AddTail(e, h)
  PROVE  IInv' /\ D!AddTail(e, h)
<1> DEFINE s == Append(Now[h], e)
<1>1. e \in Nodes /\ e # h /\ e \notin Members(Now[h])
  BY OffMeans DEF AddTail, Off
<1>2. Ring(ls', h, s) /\ ls' \in Memories
  BY <1>1, RingOf, RingAddTail, ListOpsType DEF AddTail, Memories
<1>3. s \in Seq(Entries) /\ Members(s) = Members(Now[h]) \cup {e}
  BY RingOf, MembersAppend
<1>4. \A x \in Nodes : x # e /\ x \notin {h} \cup Members(Now[h]) =>
        ls'.next[x] = ls.next[x] /\ ls'.prev[x] = ls.prev[x]
  BY <1>1, RingOf, AddTailFrame DEF AddTail
<1> HIDE DEF s
<1>5. Now' = [Now EXCEPT ![h] = s] /\ IInv'
  BY <1>2, <1>3, <1>4, Joins DEF AddTail
<1>6. QED
  BY <1>5, OffIsFree DEF D!AddTail, Now, s, AddTail

LEMMA DelRings ==
  ASSUME IInv, NEW e \in Entries, Del(e)
  PROVE  IInv' /\ \E h \in Heads : D!Del(e, h)
<1>1. PICK h \in Heads : e \in Members(Now[h])
  BY OffMeans DEF Del, Off
<1>2. PICK i \in 1..Len(Now[h]) : Now[h][i] = e
  BY <1>1 DEF Members
<1> DEFINE s == Cut(Now[h], i)
<1>3. Ring(ls', h, s)
  BY <1>2, RingOf, RingDel DEF Del
<1>4. ls' \in Memories
  BY RingOf, NodesOK, ListOpsType DEF Del, Memories
<1>5. s \in Seq(Entries) /\ Members(s) = Members(Now[h]) \ {e}
  <2>1. \A j, k \in 1..Len(Now[h]) : Now[h][j] = Now[h][k] => j = k
    BY RingOf DEF Ring
  <2>2. QED
    BY <1>2, <2>1, RingOf, CutType, MembersCut
<1>6. ASSUME NEW x \in Nodes, NEW g \in Heads \ {h}, x \in {g} \cup Members(Now[g])
      PROVE  ls'.next[x] = ls.next[x] /\ ls'.prev[x] = ls.prev[x]
  <2>1. x \notin {h} \cup Members(Now[h])
    BY <1>6, RingsApart
  <2>2. QED
    BY <1>1, <2>1, RingOf, DelFrame DEF Del
<1>7. \A g \in Heads \ {h} : Members(Now[g]) \cap Members(s) = {}
  BY <1>5 DEF IInv, RingsAre
<1>8. s = D!Without(Now[h], i)
  BY RingOf, CutRemoves DEF D!Without
<1> HIDE DEF s
<1>9. Now' = [Now EXCEPT ![h] = s] /\ IInv'
  BY <1>3, <1>4, <1>5, <1>6, <1>7, OneRing, ReadsNext
<1>10. D!Del(e, h)
  <2>1. i \in DOMAIN Now[h]
    BY RingOf
  <2>2. QED
    BY <1>2, <1>8, <1>9, <2>1 DEF D!Del, Now
<1>11. QED
  BY <1>9, <1>10

LEMMA SpliceRings ==
  ASSUME IInv, NEW l \in Heads, NEW h \in Heads, Splice(l, h)
  PROVE  IInv' /\ D!Splice(l, h)
<1> DEFINE a == Now[l]
           b == Now[h]
           q == [Now EXCEPT ![h] = a \o b, ![l] = <<>>]
<1>1. /\ a \in Seq(Entries) /\ b \in Seq(Entries)
      /\ a \in Seq(Nodes) /\ b \in Seq(Nodes)
      /\ Ring(ls, l, a) /\ Ring(ls, h, b) /\ l # h /\ l \in Nodes /\ h \in Nodes
      /\ ls \in Pointers(Nodes, Nodes \cup {NULL})
  BY RingOf DEF Splice
<1>2. ({l} \cup Members(a)) \cap ({h} \cup Members(b)) = {}
  BY <1>1, RingsApart
<1>3. ls' = ListSplice(ls, l, h)
  BY DEF Splice
<1>4. /\ Ring(ls', h, a \o b) /\ Ring(ls', l, <<>>)
      /\ \A x \in Nodes : x \notin {l, h} \cup Members(a) \cup Members(b) =>
           ls'.next[x] = ls.next[x] /\ ls'.prev[x] = ls.prev[x]
  <2> HIDE DEF a, b
  <2>1. Members(a) \cap Members(b) = {} /\ l \notin Members(b) /\ h \notin Members(a)
    BY <1>2
  <2>2. Nodes \subseteq Nodes \cup {NULL}
    OBVIOUS
  <2>3. QED
    BY <1>1, <1>3, <2>1, <2>2, RingSplice
<1>5. ls' \in Memories
  <2>1. /\ \A x \in Nodes : ls.next[x] \in Nodes \cup {NULL}
        /\ \A x \in Nodes : ls.prev[x] \in Nodes \cup {NULL}
    BY <1>1 DEF Pointers
  <2>2. QED
    BY <1>1, <1>3, <2>1 DEF ListSplice, ListEmpty, ListInit, SetNext, SetPrev,
                            Pointers, Memories
<1>6. a \o b \in Seq(Entries) /\ Members(a \o b) = Members(a) \cup Members(b)
  BY <1>1, MembersConcat
<1>7. /\ q \in [Heads -> Seq(Entries)]
      /\ q[h] = a \o b /\ q[l] = <<>>
      /\ \A g \in Heads \ {l, h} : q[g] = Now[g]
  <2> HIDE DEF a, b
  <2>1. <<>> \in Seq(Entries)
    OBVIOUS
  <2>2. QED BY <1>1, <1>6, <2>1, RingOf
<1> HIDE DEF q, a, b
<1>8. ASSUME NEW g \in Heads PROVE Ring(ls', g, q[g])
  <2>1. CASE g \in {l, h}
    BY <2>1, <1>4, <1>7
  <2>2. CASE g \notin {l, h}
    <3>1. Ring(ls, g, Now[g]) /\ Now[g] \in Seq(Nodes) /\ g \in Nodes
      BY RingOf
    <3>2. {g} \cup Members(Now[g]) \subseteq Nodes
      BY <3>1 DEF Members
    <3>3. /\ ({g} \cup Members(Now[g])) \cap ({l} \cup Members(a)) = {}
          /\ ({g} \cup Members(Now[g])) \cap ({h} \cup Members(b)) = {}
      BY <2>2, RingsApart DEF a, b
    <3>4. \A x \in {g} \cup Members(Now[g]) :
            ls'.next[x] = ls.next[x] /\ ls'.prev[x] = ls.prev[x]
      BY <1>4, <3>2, <3>3
    <3>5. Ring(ls', g, Now[g])
      BY <3>1, <3>4, RingFrame
    <3>6. QED BY <1>7, <2>2, <3>5
  <2>3. QED BY <2>1, <2>2
<1>9. \A f, g \in Heads : f # g => Members(q[f]) \cap Members(q[g]) = {}
  <2>1. Members(<<>>) = {}
    BY DEF Members
  <2>2. \A f, g \in Heads : f # g => Members(Now[f]) \cap Members(Now[g]) = {}
    BY DEF IInv, RingsAre
  <2>3. /\ Members(q[h]) = Members(Now[l]) \cup Members(Now[h])
        /\ Members(q[l]) = {}
        /\ \A g \in Heads \ {l, h} : Members(q[g]) = Members(Now[g])
    BY <1>6, <1>7, <2>1 DEF a, b
  <2>4. QED
    BY <2>2, <2>3
<1>10. RingsAre(ls', q)
  BY <1>5, <1>7, <1>8, <1>9 DEF RingsAre
<1>11. Now' = q /\ IInv'
  BY <1>10, ReadsNext
<1>12. QED
  BY <1>11 DEF D!Splice, q, a, b, Now

-----------------------------------------------------------------------------
(* Results.                                                                *)

LEMMA RingStep ==
  ASSUME IInv, [Next]_ls
  PROVE  IInv' /\ [D!Next]_Now
<1>1. ASSUME NEW e \in Entries, NEW h \in Heads, Add(e, h) \/ AddTail(e, h)
      PROVE  IInv' /\ D!Next
  BY <1>1, AddRings, AddTailRings DEF D!Next
<1>2. ASSUME NEW e \in Entries, Del(e) PROVE IInv' /\ D!Next
  BY <1>2, DelRings DEF D!Next
<1>3. ASSUME NEW l \in Heads, NEW h \in Heads, Splice(l, h)
      PROVE  IInv' /\ D!Next
  BY <1>3, SpliceRings DEF D!Next, Splice
<1>4. CASE UNCHANGED ls
  <2>1. Now' = Now
    BY <1>4 DEF Now, Seq_
  <2>2. QED
    BY <1>4, <2>1 DEF IInv
<1>5. QED
  BY <1>1, <1>2, <1>3, <1>4 DEF Next

LEMMA RingInvariant == Spec => []IInv
<1>1. Init => IInv
  BY InitRings
<1>2. IInv /\ [Next]_ls => IInv'
  BY RingStep
<1>3. QED
  BY <1>1, <1>2, PTL DEF Spec

(* After any calls of list.h, in any order, the rings of all heads are     *)
(* closed in both directions, for any number of heads and entries.         *)
THEOREM RingsClosed == Spec => []Rings
<1>1. IInv => Rings
  BY Reads DEF IInv, Rings
<1>2. QED
  BY <1>1, RingInvariant, PTL

(* Every operation of list.c does to the pointers what its counterpart in  *)
(* Deques does to the sequences.                                           *)
THEOREM ListsAreDeques == Spec => ImplementsDeques
<1>1. Init => D!Init
  BY InitRings
<1>2. IInv /\ [Next]_ls => [D!Next]_Now
  BY RingStep
<1>3. QED
  BY <1>1, <1>2, RingInvariant, PTL DEF Spec, ImplementsDeques, D!Spec, Now
=============================================================================
