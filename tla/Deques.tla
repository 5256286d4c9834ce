------------------------------- MODULE Deques -------------------------------
(* What list.h promises: lists as sequences, every entry on one at most.   *)
EXTENDS Naturals, Sequences

CONSTANTS Entries, Heads
VARIABLE seqs

Elements(q) == {q[k] : k \in DOMAIN q}
Free(e)     == \A h \in Heads : e \notin Elements(seqs[h])

Init == seqs = [h \in Heads |-> <<>>]

Add(e, h)     == Free(e) /\ seqs' = [seqs EXCEPT ![h] = <<e>> \o @]
AddTail(e, h) == Free(e) /\ seqs' = [seqs EXCEPT ![h] = Append(@, e)]
Without(q, k) == SubSeq(q, 1, k-1) \o SubSeq(q, k+1, Len(q))
Del(e, h) ==
  \E k \in DOMAIN seqs[h] :
    seqs[h][k] = e /\ seqs' = [seqs EXCEPT ![h] = Without(@, k)]
Splice(l, h) ==
  seqs' = [seqs EXCEPT ![h] = seqs[l] \o @, ![l] = <<>>]

Next == \/ \E e \in Entries, h \in Heads : Add(e, h) \/ AddTail(e, h) \/ Del(e, h)
        \/ \E l, h \in Heads : l # h /\ Splice(l, h)

Spec == Init /\ [][Next]_seqs
=============================================================================
