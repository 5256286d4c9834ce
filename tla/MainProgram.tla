---------------------------- MODULE MainProgram ----------------------------
(***************************************************************************)
(* main.c from the first create_thread on: the boot thread and the threads *)
(* it starts, as clients of Threading.  A client step is one call of the   *)
(* interface together with the assignments and tests of main.c around it.  *)
(* work() only takes time: the timer may fire at "user" anyway.            *)
(***************************************************************************)
EXTENDS Threading

CONSTANTS
  Phases,      \* the parts of main() that run, out of Parts
  Count,       \* 100 in main.c: turns of thread_2
  Depth,       \* 20: depth of the chain
  Wakes,       \* 10: times main wakes the sleeper
  Workers,     \* 5: threads on the mutex
  Iterations   \* 10: lock/unlock pairs of each

Parts == <<"two", "chain", "sleeper", "mutex">>

ASSUME ClientOK ==
  /\ Phases \subseteq {Parts[k] : k \in DOMAIN Parts}
  /\ Count \in Nat /\ Depth \in Nat /\ Wakes \in Nat
  /\ Workers \in Nat \ {0} /\ Iterations \in Nat

VARIABLES
  at,             \* where the thread stands in its function of main.c
  n,              \* its loop counter, counting down, or its depth
  th,             \* main's th1, th2, sleeper and th_mutex[]
  thread_1_stop,
  sleeper_stop

flags   == <<thread_1_stop, sleeper_stop>>
allVars == <<vars, at, n, th, flags>>

(* The k-th part of main() or the first later one that runs.               *)
Enter(k) ==
  LET rest == {j \in k..Len(Parts) : Parts[j] \in Phases}
  IN  IF rest = {} THEN "main_exit"
      ELSE Parts[CHOOSE j \in rest : \A i \in rest : j <= i]

MInit ==
  /\ Init
  /\ at = [t \in Threads |-> CASE t = Main -> Enter(1)
                               [] t = Idle -> "idle"
                               [] OTHER    -> "over"]
  /\ n = [t \in Threads |-> IF t = Main THEN Wakes ELSE 0]
  /\ th = [two |-> <<>>, sleeper |-> <<>>, mutex |-> <<>>]
  /\ thread_1_stop = FALSE
  /\ sleeper_stop = FALSE

-----------------------------------------------------------------------------
(* Calls, from label l to label m of the thread's function.                *)

Goes(t, l, m) == at[t] = l /\ at' = [at EXCEPT ![t] = m]

Says(t, l, m) == Goes(t, l, m) /\ CallPrintf(t) /\ UNCHANGED <<n, th, flags>>
Exits(t, l)   == Goes(t, l, "over") /\ CallExit(t) /\ UNCHANGED <<n, th, flags>>
Waits(t, l, m, u) ==
  Goes(t, l, m) /\ CallWait(t, u) /\ UNCHANGED <<n, th, flags>>

(* create_thread with the entry point and the integer argument.            *)
Spawns(t, l, m, entry, k) ==
  /\ at[t] = l
  /\ \E u \in Threads :
       /\ CallCreate(t, u)
       /\ at' = [at EXCEPT ![t] = m, ![u] = entry]
       /\ n' = [n EXCEPT ![u] = k]
  /\ UNCHANGED <<th, flags>>

(* The result of create_thread is stored.                                  *)
Keeps(t, l, m, where) ==
  /\ Goes(t, l, m) /\ InUser(t)
  /\ th' = [th EXCEPT ![where] = Append(@, arg[t])]
  /\ UNCHANGED <<vars, n, flags>>

-----------------------------------------------------------------------------
(* The functions of main.c.                                                *)

Thread1(t) ==
  \/ ~thread_1_stop /\ Says(t, "thread_1", "thread_1")
  \/ thread_1_stop /\ Exits(t, "thread_1")

Thread2(t) ==
  \/ /\ n[t] > 0 /\ Goes(t, "thread_2", "thread_2") /\ CallPrintf(t)
     /\ n' = [n EXCEPT ![t] = @ - 1]
     /\ UNCHANGED <<th, flags>>
  \/ n[t] = 0 /\ Exits(t, "thread_2")

ThreadChain(t) ==
  \/ Says(t, "thread_chain", "chain_test")
  \/ n[t] > 0 /\ Spawns(t, "chain_test", "chain_made", "thread_chain", n[t] - 1)
  \/ Waits(t, "chain_made", "chain_end", arg[t])
  \/ n[t] = 0 /\ Exits(t, "chain_test")
  \/ Exits(t, "chain_end")

ThreadSleeper(t) ==
  \/ Says(t, "thread_sleeper", "sleeper_test")
  \/ /\ ~sleeper_stop /\ Goes(t, "sleeper_test", "sleeper_woken")
     /\ CallSleep(t) /\ UNCHANGED <<n, th, flags>>
  \/ Says(t, "sleeper_woken", "sleeper_test")
  \/ sleeper_stop /\ Says(t, "sleeper_test", "sleeper_end")
  \/ Exits(t, "sleeper_end")

ThreadMutex(t) ==
  \/ /\ n[t] > 0 /\ Goes(t, "thread_mutex", "mutex_in")
     /\ CallMutexLock(t) /\ UNCHANGED <<n, th, flags>>
  \/ Says(t, "mutex_in", "mutex_work")
  \/ Says(t, "mutex_work", "mutex_out")
  \/ /\ Goes(t, "mutex_out", "thread_mutex") /\ CallMutexUnlock(t)
     /\ n' = [n EXCEPT ![t] = @ - 1] /\ UNCHANGED <<th, flags>>
  \/ n[t] = 0 /\ Exits(t, "thread_mutex")

(* main.c 125-135: th1 and th2.                                            *)
MainTwo(t) ==
  \/ Spawns(t, "two", "two_th1", "thread_1", 0)
  \/ Keeps(t, "two_th1", "two_more", "two")
  \/ Spawns(t, "two_more", "two_th2", "thread_2", Count)
  \/ Keeps(t, "two_th2", "two_poll", "two")
  \/ Says(t, "two_poll", "two_poll") /\ tstate[th.two[2]] = "RUNNING"
  \/ /\ at[t] = "two_poll" /\ tstate[th.two[2]] # "RUNNING"
     /\ Waits(t, "two_poll", "two_joined", th.two[2])
  \/ Says(t, "two_joined", "two_stop")
  \/ /\ Goes(t, "two_stop", "two_end") /\ CallWait(t, th.two[1])
     /\ thread_1_stop' = TRUE /\ UNCHANGED <<n, th, sleeper_stop>>
  \/ Says(t, "two_end", Enter(2))

MainChain(t) ==
  \/ Says(t, "chain", "chain_start")
  \/ Spawns(t, "chain_start", "chain_wait", "thread_chain", Depth)
  \/ Waits(t, "chain_wait", Enter(3), arg[t])

(* main.c 140-149.                                                         *)
MainSleeper(t) ==
  \/ Says(t, "sleeper", "sleeper_start")
  \/ Spawns(t, "sleeper_start", "sleeper_made", "thread_sleeper", 0)
  \/ Keeps(t, "sleeper_made", "sleeper_send", "sleeper")
  \/ n[t] > 0 /\ Says(t, "sleeper_send", "sleeper_wake")
  \/ /\ Goes(t, "sleeper_wake", "sleeper_yield")
     /\ CallWake(t, th.sleeper[1]) /\ UNCHANGED <<n, th, flags>>
  \/ /\ Goes(t, "sleeper_yield", "sleeper_send") /\ CallYield(t)
     /\ n' = [n EXCEPT ![t] = @ - 1] /\ UNCHANGED <<th, flags>>
  \/ /\ n[t] = 0 /\ Goes(t, "sleeper_send", "sleeper_wait")
     /\ CallWake(t, th.sleeper[1])
     /\ sleeper_stop' = TRUE /\ UNCHANGED <<n, th, thread_1_stop>>
  \/ /\ at[t] = "sleeper_wait"
     /\ Waits(t, "sleeper_wait", Enter(4), th.sleeper[1])

(* main.c 151-159: th_mutex[] is used up from its front.                   *)
MainMutex(t) ==
  \/ Says(t, "mutex", "mutex_start")
  \/ Len(th.mutex) < Workers
     /\ Spawns(t, "mutex_start", "mutex_made", "thread_mutex", Iterations)
  \/ Keeps(t, "mutex_made", "mutex_start", "mutex")
  \/ Len(th.mutex) = Workers /\ Goes(t, "mutex_start", "mutex_wait")
     /\ InUser(t) /\ UNCHANGED <<vars, n, th, flags>>
  \/ /\ th.mutex # <<>> /\ Goes(t, "mutex_wait", "mutex_wait")
     /\ CallWait(t, Head(th.mutex))
     /\ th' = [th EXCEPT !.mutex = Tail(@)] /\ UNCHANGED <<n, flags>>
  \/ /\ th.mutex = <<>> /\ Goes(t, "mutex_wait", "main_exit")
     /\ InUser(t) /\ UNCHANGED <<vars, n, th, flags>>

MainThread(t) ==
  MainTwo(t) \/ MainChain(t) \/ MainSleeper(t) \/ MainMutex(t)
  \/ Exits(t, "main_exit")

IdleThread(t) == Goes(t, "idle", "idle") /\ CallYield(t)
                 /\ UNCHANGED <<n, th, flags>>

Client(t) ==
  \/ Thread1(t) \/ Thread2(t) \/ ThreadChain(t) \/ ThreadSleeper(t)
  \/ ThreadMutex(t) \/ MainThread(t) \/ IdleThread(t)

Runs(t) == Kernel(t) /\ UNCHANGED <<at, n, th, flags>>
Timer   == (Tick \/ Hlt) /\ UNCHANGED <<at, n, th, flags>>

MNext == Timer \/ \E t \in Threads : Client(t) \/ Runs(t)

(* Fairness.  A thread that gets the processor again and again executes    *)
(* its statements: the timer period, 1 ms, is far longer than a statement. *)
(* A thread that finds its lock free again and again gets it at some time. *)
(* The timer keeps firing, and it is not locked to the output: again and   *)
(* again it finds a thread in work(), outside the kernel.                  *)
TimerInWork == Timer /\ pc[current] = "user" /\ current # Idle
Proceeds(t) == Client(t) \/ (Runs(t) /\ ~(\E l \in Wanted(t) : ~Available(l, t)))

MFairness ==
  /\ SF_allVars(TimerInWork)
  /\ \A t \in Threads : SF_allVars(Runs(t)) /\ SF_allVars(Proceeds(t))

MSpec == MInit /\ [][MNext]_allVars /\ MFairness

-----------------------------------------------------------------------------
(* main() comes to its thread_exit(): every wait() in it returns.  It does  *)
(* not always: see MainOutcome and the README.                              *)
MainDone     == at[Main] = "over" /\ tstate[Main] = "TERMINATED"
MainFinishes == <>MainDone

(* main() comes to its end, unless its last wake() found the sleeper on its *)
(* way from the test of sleeper_stop into sleep(): then the sleeper sleeps  *)
(* for ever.  Nothing else can stop main.c.                                 *)
MainOutcome ==
  <>(MainDone \/ [](\E t \in Threads :
                      /\ at[t] = "sleeper_woken" /\ tstate[t] = "SLEEPING"
                      /\ sleeper_stop))

(* A runnable thread gets the processor.                                   *)
EveryThreadRuns ==
  \A t \in Threads :
    (t \in allocated /\ tstate[t] = "RUNNING" /\ current # t) ~> (current = t)

(* wait() has returned only when the thread has left its function: main    *)
(* prints "Thread2 is terminated" and "Thread1 is terminated" truthfully.  *)
Joined ==
  /\ at[Main] \in {"two_stop", "two_end"} /\ pc[Main] = "user" =>
       \A t \in Threads : at[t] # "thread_2"
  /\ at[Main] = "chain" /\ pc[Main] = "user" => \A t \in Threads : at[t] # "thread_1"
=============================================================================
