----------------------------- MODULE Scheduler -----------------------------
(***************************************************************************)
(* What the thread lists promise, without pointers: one thread has the     *)
(* processor, the others stand in first-come first-served queues, and no   *)
(* thread stands in two places.                                            *)
(***************************************************************************)
EXTENDS Naturals, Sequences

CONSTANTS Threads, Main, Idle

VARIABLES
  cpu,      \* the thread that runs
  ready,    \* threads that wait for the processor
  asleep,   \* threads in sleep()
  waiting   \* threads in mutex_lock()

vars == <<cpu, ready, asleep, waiting>>

In(u, q)     == \E k \in DOMAIN q : q[k] = u
Nowhere(u)   == u # cpu /\ ~In(u, ready) /\ ~In(u, asleep) /\ ~In(u, waiting)
Without(q, k) == SubSeq(q, 1, k-1) \o SubSeq(q, k+1, Len(q))

Init == cpu = Main /\ ready = <<Idle>> /\ asleep = <<>> /\ waiting = <<>>

(* The next thread in q gets the processor.                                *)
Dispatch(q) == q # <<>> /\ cpu' = Head(q) /\ ready' = Tail(q)

Rotate  == Dispatch(Append(ready, cpu)) /\ UNCHANGED <<asleep, waiting>>
Sleep   == Dispatch(ready) /\ asleep' = Append(asleep, cpu) /\ UNCHANGED waiting
Block   == Dispatch(ready) /\ waiting' = Append(waiting, cpu) /\ UNCHANGED asleep
Exit    == Dispatch(ready) /\ UNCHANGED <<asleep, waiting>>

(* A new thread, or a woken one that has left the sleepers.                *)
Add(u) ==
  /\ Nowhere(u)
  /\ ready' = Append(ready, u)
  /\ UNCHANGED <<cpu, asleep, waiting>>

Rouse(u) ==
  /\ \E k \in DOMAIN asleep : asleep[k] = u /\ asleep' = Without(asleep, k)
  /\ UNCHANGED <<cpu, ready, waiting>>

(* The thread that has waited longest for the mutex.                       *)
Notify ==
  /\ waiting # <<>>
  /\ waiting' = Tail(waiting)
  /\ ready' = Append(ready, Head(waiting))
  /\ UNCHANGED <<cpu, asleep>>

Next == \/ Rotate \/ Sleep \/ Block \/ Exit \/ Notify
        \/ \E u \in Threads : Add(u) \/ Rouse(u)

Spec == Init /\ [][Next]_vars
=============================================================================
