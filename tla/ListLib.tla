------------------------------ MODULE ListLib ------------------------------
(***************************************************************************)
(* The list library on its own: any sequence of legal calls of list.h on   *)
(* the heads Heads and the entries Entries.  A call is legal when an entry *)
(* is added while it is on no list and deleted while it is on one; nothing *)
(* in the entry tells, so removed entries keep their stale pointers.       *)
(***************************************************************************)
EXTENDS Lists

CONSTANTS Entries, Heads, NULL

ASSUME Separate == Entries \cap Heads = {} /\ NULL \notin Entries \cup Heads
ASSUME Finite   == IsFiniteSet(Entries) /\ IsFiniteSet(Heads)

VARIABLE ls

Nodes == Entries \cup Heads
Limit == Cardinality(Nodes) + 1

Seq_(h) == Contents(ls, h, Limit)
On(e, h) == \E k \in DOMAIN Seq_(h) : Seq_(h)[k] = e
Off(e)   == \A h \in Heads : ~On(e, h)

(* Every head is set up by LIST_HEAD or list_init, entries are zeroed.     *)
Init == ls = [next |-> [x \in Nodes |-> IF x \in Heads THEN x ELSE NULL],
              prev |-> [x \in Nodes |-> IF x \in Heads THEN x ELSE NULL]]

Add(e, h)     == Off(e) /\ ls' = ListAdd(ls, e, h)
AddTail(e, h) == Off(e) /\ ls' = ListAddTail(ls, e, h)
Del(e)        == ~Off(e) /\ ls' = ListDel(ls, e)
Splice(l, h)  == l # h /\ ls' = ListSplice(ls, l, h)

Next == \/ \E e \in Entries, h \in Heads : Add(e, h) \/ AddTail(e, h)
        \/ \E e \in Entries : Del(e)
        \/ \E l, h \in Heads : Splice(l, h)

Spec == Init /\ [][Next]_ls

(* The rings stay closed in both directions, whatever stale pointers the   *)
(* entries bring with them.                                                *)
Rings == \A h \in Heads : WellFormed(ls, h, Limit)

(* list.c implements sequences.                                            *)
D == INSTANCE Deques WITH seqs <- [h \in Heads |-> Seq_(h)]
ImplementsDeques == D!Spec
=============================================================================
