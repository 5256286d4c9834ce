------------------------------- MODULE Lists -------------------------------
(***************************************************************************)
(* The intrusive doubly linked circular lists of list.c.                   *)
(*                                                                         *)
(* The memory of all `struct list_head' objects is one record `ls' of two  *)
(* functions, ls.next and ls.prev, over the nodes.  A list is a head node  *)
(* that is a member of its own ring; an entry does not know which list it  *)
(* is on, and list_del leaves the pointers of the removed entry as they    *)
(* were.  Every operator below is one C function, or one store of it where *)
(* the caller can be interrupted between two stores.                       *)
(***************************************************************************)
EXTENDS Naturals, Sequences, FiniteSets

(* list_init: an empty ring.                                               *)
ListInit(ls, h) ==
  [next |-> [ls.next EXCEPT ![h] = h],
   prev |-> [ls.prev EXCEPT ![h] = h]]

(* The first two stores of list_insert, which only touch the new node.     *)
LinkNew(ls, n, p, q) ==
  [next |-> [ls.next EXCEPT ![n] = q],
   prev |-> [ls.prev EXCEPT ![n] = p]]

(* One store through a `next' or a `prev' pointer.                         *)
SetNext(ls, n, q) == [ls EXCEPT !.next = [@ EXCEPT ![n] = q]]
SetPrev(ls, n, p) == [ls EXCEPT !.prev = [@ EXCEPT ![n] = p]]

(* list_insert: new node n between the neighbours p and q.                 *)
ListInsert(ls, n, p, q) ==
  SetPrev(SetNext(LinkNew(ls, n, p, q), p, n), q, n)

ListAdd(ls, n, h)     == ListInsert(ls, n, h, ls.next[h])

\* Mutant: the entry is added at the wrong end.
ListAddTailAtFront(ls, n, h) == ListAdd(ls, n, h)

ListAddTail(ls, n, h) == ListInsert(ls, n, ls.prev[h], h)

\* Mutant: the backward pointer of the successor is forgotten.
ListDelForward(ls, e) == SetNext(ls, ls.prev[e], ls.next[e])

(* list_del: the neighbours of e are joined, e keeps its stale pointers.   *)
ListDel(ls, e) ==
  SetPrev(SetNext(ls, ls.prev[e], ls.next[e]), ls.next[e], ls.prev[e])

ListEmpty(ls, h) == ls.next[h] = h

\* Mutant: the newest entry of a queue is taken, not the oldest.
ListFirstLast(ls, h) == ls.prev[h]

ListFirst(ls, h) == ls.next[h]

\* Mutant: the list that was spliced is not emptied.
ListSpliceKeeps(ls, l, h) ==
  LET first == ls.next[l]
      last  == ls.prev[l]
      next  == ls.next[h]
  IN  IF ListEmpty(ls, l) THEN ls
      ELSE SetPrev(SetNext(SetNext(SetPrev(ls, first, h), h, first),
                           last, next),
                   next, last)

(* list_splice: everything on l goes to the front of h, l becomes empty.   *)
ListSplice(ls, l, h) ==
  IF ListEmpty(ls, l) THEN ls
  ELSE LET first == ls.next[l]
           last  == ls.prev[l]
           next  == ls.next[h]
       IN  ListInit(SetPrev(SetNext(SetNext(SetPrev(ls, first, h), h, first),
                                    last, next),
                            next, last), l)

-----------------------------------------------------------------------------
(* Reading a ring as list_size does, for the properties: the nodes met     *)
(* from head h by following the pointers f, stopping at h or after bound   *)
(* steps (a ring that does not come back to its head within the bound is   *)
(* broken).                                                                *)
Follow(f, e) == IF e \in DOMAIN f THEN f[e] ELSE e

Walk(f, h, bound) ==
  LET node[k \in 0..bound] == IF k = 0 THEN h ELSE Follow(f, node[k-1])
      len == CHOOSE k \in 0..bound :
               /\ k = bound \/ node[k+1] = h
               /\ \A j \in 1..k : node[j] # h
  IN  [k \in 1..len |-> node[k]]

Contents(ls, h, bound) == Walk(ls.next, h, bound)

(* The ring of h is closed: it comes back to h, and the backward pointers  *)
(* are the forward ones reversed.                                          *)
WellFormed(ls, h, bound) ==
  LET s == Contents(ls, h, bound)
      back == Walk(ls.prev, h, bound)
  IN  /\ Len(s) < bound
      /\ Len(back) = Len(s)
      /\ \A k \in 1..Len(s) : back[k] = s[Len(s) + 1 - k]
=============================================================================
