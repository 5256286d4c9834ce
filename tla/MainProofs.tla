----------------------------- MODULE MainProofs -----------------------------
(***************************************************************************)
(* main.c uses the kernel as Threading assumes, so that what is proved of  *)
(* the kernel holds while main.c runs, and what it prints after its waits  *)
(* is true.  For every set of threads, all loop bounds of main.c and every *)
(* assumption TickFree on the timer, the empty one included.               *)
(***************************************************************************)
EXTENDS MainProgram, ThreadingProofs

-----------------------------------------------------------------------------
(* main.c as a client.                                                     *)

(* A thread's step is a call, or touches nothing of the kernel's.          *)
LEMMA ClientCalls ==
  ASSUME TypeOK, NEW t \in Threads, Client(t)
  PROVE  Call(t) \/ UNCHANGED vars
<1>1. ASSUME NEW u, CallWait(t, u) \/ CallWake(t, u) \/ (u \in Threads /\ CallCreate(t, u))
      PROVE  Call(t)
  BY <1>1 DEF TypeOK, CallWait, CallWake, CallOn, Owns, Call
<1>2. CASE Thread1(t)
  BY <1>2 DEF Thread1, Says, Exits, Call
<1>3. CASE Thread2(t)
  BY <1>3 DEF Thread2, Exits, Call
<1>4. CASE ThreadChain(t)
  BY <1>1, <1>4 DEF ThreadChain, Says, Spawns, Waits, Exits, Call
<1>5. CASE ThreadSleeper(t)
  BY <1>5 DEF ThreadSleeper, Says, Exits, Call
<1>6. CASE ThreadMutex(t)
  BY <1>6 DEF ThreadMutex, Says, Exits, Call
<1>7. CASE IdleThread(t)
  BY <1>7 DEF IdleThread, Call
<1>8. CASE MainTwo(t)
  BY <1>1, <1>8 DEF MainTwo, Spawns, Keeps, Says, Waits, Call
<1>9. CASE MainChain(t)
  BY <1>1, <1>9 DEF MainChain, Spawns, Says, Waits, Call
<1>10. CASE MainSleeper(t)
  BY <1>1, <1>10 DEF MainSleeper, Spawns, Keeps, Says, Waits, Call
<1>11. CASE MainMutex(t)
  BY <1>1, <1>11 DEF MainMutex, Spawns, Keeps, Says, Call
<1>12. CASE Exits(t, "main_exit")
  BY <1>12 DEF Exits, Call
<1> QED BY <1>2, <1>3, <1>4, <1>5, <1>6, <1>7, <1>8, <1>9, <1>10, <1>11, <1>12
        DEF Client, MainThread

LEMMA MainSteps == TypeOK /\ [MNext]_allVars => [Next]_vars
<1> SUFFICES ASSUME TypeOK, [MNext]_allVars PROVE [Next]_vars
  OBVIOUS
<1>1. CASE Timer
  BY <1>1 DEF Timer, Next
<1>2. ASSUME NEW t \in Threads, Client(t) PROVE [Next]_vars
  BY <1>2, ClientCalls DEF Next
<1>3. ASSUME NEW t \in Threads, Runs(t) PROVE [Next]_vars
  BY <1>3 DEF Runs, Next
<1>4. CASE UNCHANGED allVars
  BY <1>4 DEF allVars
<1> QED BY <1>1, <1>2, <1>3, <1>4 DEF MNext

LEMMA MainTypes == MSpec => []TypeOK
<1>1. MInit => TypeOK
  BY InitType DEF MInit
<1>2. TypeOK /\ [MNext]_allVars => TypeOK'
  BY MainSteps, TypeStep
<1> QED BY <1>1, <1>2, PTL DEF MSpec

(* Every statement of main.c is one of the calls that Threading allows its *)
(* clients or leaves the kernel alone: each run of it is one of the        *)
(* kernel's, wherever the timer fires.                                     *)
THEOREM MainIsClient == MSpec => Spec
<1>1. MInit => Init
  BY DEF MInit
<1> QED BY <1>1, MainSteps, MainTypes, PTL DEF MSpec, Spec

(* So the locks exclude while main.c runs, the interrupt flag is restored, *)
(* and no assertion of spin_unlock or mutex_unlock fails.                  *)
THEOREM MainKeepsKernel ==
  MSpec => [](SpinExclusion /\ MutexExclusion /\ FlagRestored /\ NeverDies)
BY MainIsClient, SpinLocksExclude, MutexExcludes, FlagsRestored,
   AssertionsHold, PTL

-----------------------------------------------------------------------------
(* What a step of the kernel, and of a client, may do.                     *)

Creates == {"create_lock", "create_log", "create_set"}
Waiting == {"wait_loop", "wait_log", "wait_free"}
Parting == {"exit_lock", "exit_log", "exit_set", "exit_unlock", "exit_yield",
            "exit_returned"}

(* Inside a function a thread keeps its argument and only moves on: it     *)
(* leaves create_thread's first part with the new thread runnable, and the *)
(* loop of wait() when the awaited thread has terminated.                  *)
Body(t) ==
  /\ pc[t] # "user" \/ UNCHANGED pc
  /\ arg' = arg
  /\ \E l \in Labels : pc' = [pc EXCEPT ![t] = l]
  /\ pc'[t] \in Parting => pc[t] \in Parting
  /\ pc'[t] \in Waiting => pc[t] \in Waiting
  /\ pc'[t] = "wait_loop" => pc[t] = "wait_loop"
  /\ \A u \in Threads : tstate'[u] = "TERMINATED" =>
       tstate[u] = "TERMINATED" \/ (u = t /\ pc[t] \in Parting)
  /\ pc[t] \in Creates => pc'[t] \in Creates \/ tstate'[arg[t]] = "RUNNING"
  /\ pc[t] = "wait_loop" => pc'[t] = "wait_loop" \/ tstate[arg[t]] = "TERMINATED"
  /\ \/ UNCHANGED <<allocated, parent>>
     \/ /\ pc[t] \in Waiting /\ allocated' = allocated \ {arg[t]}
        /\ parent' = [parent EXCEPT ![arg[t]] = NULL]

LEMMA KernelBody ==
  ASSUME TypeOK, NEW t \in Threads, Kernel(t)
  PROVE  Body(t)
<1> USE DEF TypeOK, Body, Creates, Waiting, Parting, Goto, At, userVars, cpuVars
<1>0. /\ pc[t] \in Labels /\ "user" \in Labels
      /\ pc = [pc EXCEPT ![t] = pc[t]]
  BY LabelTypes
<1>1. CASE Spin(t)
  <2>1. UNCHANGED <<pc, arg, tstate, allocated, parent>>
    BY <1>1 DEF Spin
  <2> QED BY <1>0, <2>1, <1>1 DEF Spin, Wanted, AfterLock, AfterLog
<1> DEFINE Along(k, l) == /\ k # "user" /\ k # "wait_loop" /\ l # "wait_loop"
                          /\ l \in Parting => k \in Parting
                          /\ l \in Waiting => k \in Waiting
                          /\ k \in Creates => l \in Creates
<1>2. ASSUME UNCHANGED <<arg, tstate, allocated, parent>>,
             NEW l \in Labels, pc' = [pc EXCEPT ![t] = l], Along(pc[t], l)
      PROVE  Body(t)
  BY <1>2
<1>3. CASE LockMgmt(t)
  <2>1. PICK l \in DOMAIN AfterLock : At(t, l) /\ pc' = [pc EXCEPT ![t] = AfterLock[l]]
    BY <1>3 DEF LockMgmt
  <2>2. UNCHANGED <<arg, tstate, allocated, parent>>
    BY <1>3 DEF LockMgmt
  <2>3. AfterLock[l] \in Labels
    BY Tables
  <2>4. Along(l, AfterLock[l])
    BY DEF AfterLock
  <2> HIDE DEF Along
  <2> QED BY <1>2, <2>1, <2>2, <2>3, <2>4
<1>4. CASE UnlockMgmt(t)
  <2>1. PICK l \in DOMAIN AfterUnlock : At(t, l) /\ pc' = [pc EXCEPT ![t] = AfterUnlock[l]]
    BY <1>4 DEF UnlockMgmt
  <2>2. UNCHANGED <<arg, tstate, allocated, parent>>
    BY <1>4 DEF UnlockMgmt
  <2>3. AfterUnlock[l] \in Labels
    BY Tables
  <2>4. Along(l, AfterUnlock[l])
    BY DEF AfterUnlock
  <2> HIDE DEF Along
  <2> QED BY <1>2, <2>1, <2>2, <2>3, <2>4
<1>5. CASE LogBegin(t)
  <2>1. UNCHANGED <<pc, arg, tstate, allocated, parent>>
    BY <1>5 DEF LogBegin
  <2>2. pc[t] \in DOMAIN AfterLog
    BY <1>5 DEF LogBegin
  <2> QED BY <1>0, <2>1, <2>2 DEF AfterLog
<1>6. CASE LogEnd(t)
  <2>1. PICK l \in DOMAIN AfterLog : At(t, l) /\ pc' = [pc EXCEPT ![t] = AfterLog[l]]
    BY <1>6 DEF LogEnd
  <2>2. UNCHANGED <<arg, tstate, allocated, parent>>
    BY <1>6 DEF LogEnd
  <2>3. AfterLog[l] \in Labels
    BY Tables
  <2>4. Along(l, AfterLog[l])
    BY DEF AfterLog
  <2>5. pc[t] = l /\ AfterLog[l] \in Labels /\ Along(pc[t], AfterLog[l])
    BY <2>1, <2>3, <2>4
  <2> HIDE DEF Along, Body, TypeOK, Creates, Waiting, Parting
  <2>6. ASSUME NEW m, m = AfterLog[l] PROVE Body(t)
    <3>1. m \in Labels /\ pc' = [pc EXCEPT ![t] = m] /\ Along(pc[t], m)
      BY <2>1, <2>5, <2>6
    <3> QED BY <1>2, <2>2, <3>1
  <2>7. \E m : m = AfterLog[l]
    OBVIOUS
  <2> QED BY <2>6, <2>7
<1>7. CASE CreateSet(t)
  <2>1. /\ pc[t] = "create_set" /\ pc' = [pc EXCEPT ![t] = "insert"]
        /\ tstate' = [tstate EXCEPT ![arg[t]] = "RUNNING"]
        /\ UNCHANGED <<arg, allocated, parent>>
    BY <1>7 DEF CreateSet
  <2>2. "insert" \in Labels
    BY LabelTypes DEF MgmtLabels
  <2>3. /\ pc'[t] = "insert" /\ tstate'[arg[t]] = "RUNNING"
        /\ \A u \in Threads : tstate'[u] = "TERMINATED" => tstate[u] = "TERMINATED"
    BY <2>1
  <2> QED BY <2>1, <2>2, <2>3
<1>8. CASE Insert(t) \/ InsertNext(t) \/ InsertPrev(t) \/ WakeDel(t)
           \/ WakeDelNext(t) \/ WakeDelPrev(t)
  <2>1. UNCHANGED <<arg, tstate, allocated, parent>>
    BY <1>8 DEF Insert, InsertNext, InsertPrev, WakeDel, WakeDelNext, WakeDelPrev
  <2>2. PICK l \in MgmtLabels : pc' = [pc EXCEPT ![t] = l] /\ Along(pc[t], l)
    BY <1>8 DEF Insert, InsertNext, InsertPrev, WakeDel, WakeDelNext,
                WakeDelPrev, MgmtLabels
  <2>3. l \in Labels
    BY LabelTypes
  <2> QED BY <1>2, <2>1, <2>2, <2>3
<1>9. CASE WakeTest(t)
  BY <1>9, LabelTypes DEF WakeTest, MgmtLabels
<1>10. CASE SleepSet(t) \/ SleepYield(t)
  BY <1>10, LabelTypes DEF SleepSet, SleepYield, MgmtLabels
<1>11. CASE ExitSet(t) \/ ExitYield(t)
  BY <1>11, LabelTypes DEF ExitSet, ExitYield, MgmtLabels
<1>12. CASE WaitSpin(t)
  BY <1>0, <1>12 DEF WaitSpin
<1>13. CASE WaitDone(t)
  BY <1>13, LabelTypes DEF WaitDone
<1>14. CASE WaitFree(t)
  BY <1>0, <1>14 DEF WaitFree
<1>15. CASE MutexTry(t)
  <2>1. /\ UNCHANGED <<arg, tstate, allocated, parent>> /\ pc[t] = "mlock_try"
        /\ \E l \in {"mlock_log", "mlock_first_log", "user"} : pc' = [pc EXCEPT ![t] = l]
    BY <1>15 DEF MutexTry, LeaveMutex
  <2>2. {"mlock_log", "mlock_first_log", "user"} \subseteq Labels
    BY LabelTypes DEF MutexLabels
  <2> QED BY <2>1, <2>2
<1>16. CASE MutexEnqueue(t)
  <2>1. /\ UNCHANGED <<arg, allocated, parent>> /\ pc[t] = "mlock_enqueue"
        /\ pc' = [pc EXCEPT ![t] = "mlock_try"]
        /\ tstate' = tstate \/ tstate' = [tstate EXCEPT ![t] = "WAITING"]
    BY <1>16 DEF MutexEnqueue
  <2>2. \A u \in Threads : tstate'[u] = "TERMINATED" => tstate[u] = "TERMINATED"
    BY <2>1
  <2>3. \E l \in Labels : pc' = [pc EXCEPT ![t] = l]
    <3>1. "mlock_try" \in Labels
      BY LabelTypes DEF MutexLabels
    <3> QED BY <2>1, <3>1
  <2>4. pc'[t] = "mlock_try"
    BY <2>1
  <2> QED BY <2>1, <2>2, <2>3, <2>4
<1>17. CASE MutexInit(t) \/ MutexNotify(t)
  <2>1. /\ UNCHANGED <<arg, allocated, parent>>
        /\ pc[t] \in {"mlock_init", "munlock_notify"}
        /\ pc' = [pc EXCEPT ![t] = "user"]
        /\ tstate' = tstate \/ tstate' = [tstate EXCEPT ![arg[t]] = "RUNNING"]
    BY <1>17 DEF MutexInit, MutexNotify, LeaveMutex
  <2>2. \A u \in Threads : tstate'[u] = "TERMINATED" => tstate[u] = "TERMINATED"
    BY <2>1
  <2>3. \E l \in Labels : pc' = [pc EXCEPT ![t] = l]
    BY <1>0, <2>1
  <2>4. pc'[t] = "user"
    BY <2>1
  <2> QED BY <2>1, <2>2, <2>3, <2>4
<1> QED BY <1>1, <1>3, <1>4, <1>5, <1>6, <1>7, <1>8, <1>9, <1>10, <1>11, <1>12,
           <1>13, <1>14, <1>15, <1>16, <1>17 DEF Kernel

(* A call changes its thread, and a slot that create_thread takes.         *)
Calling(t) ==
  /\ pc[t] = "user" /\ tstate' = tstate
  /\ \A s \in Threads \ {t} : arg'[s] = arg[s]
  /\ \A s \in Threads \ {t} : pc'[s] = pc[s] \/ (s \notin allocated /\ pc'[s] = "user")
  /\ allocated \subseteq allocated'
  /\ \A s \in allocated : parent'[s] = parent[s]
  /\ pc'[t] \in Waiting => pc'[t] = "wait_loop" /\ Owns(t, arg'[t])
  /\ pc'[t] \in Parting => CallExit(t)

LEMMA CallsCall ==
  ASSUME TypeOK, NEW t \in Threads, Call(t)
  PROVE  Calling(t)
<1> USE DEF TypeOK, Calling, Waiting, Parting, Goto, InUser, At, userVars
<1>1. CASE CallYield(t) \/ CallPrintf(t) \/ CallSleep(t) \/ CallExit(t)
  BY <1>1 DEF CallYield, CallPrintf, CallSleep, CallExit
<1>2. CASE CallMutexLock(t)
  BY <1>2 DEF CallMutexLock
<1>3. CASE CallMutexUnlock(t)
  <2>1. /\ UNCHANGED <<tstate, allocated, parent>> /\ pc[t] = "user"
        /\ arg' = arg \/ \E x : arg' = [arg EXCEPT ![t] = x]
        /\ pc' = pc \/ \E l \in {"munlock_log", "user"} : pc' = [pc EXCEPT ![t] = l]
    BY <1>3 DEF CallMutexUnlock
  <2> QED BY <2>1
<1>4. ASSUME NEW u \in Threads, CallCreate(t, u) PROVE Calling(t)
  BY <1>4 DEF CallCreate
<1>5. ASSUME NEW u \in Threads, CallWake(t, u) \/ CallWait(t, u) PROVE Calling(t)
  BY <1>5 DEF CallWake, CallWait, CallOn, Owns
<1> QED BY <1>1, <1>2, <1>3, <1>4, <1>5 DEF Call

(* Nobody waits for the boot thread, and its slot is never given back.     *)
MainStays ==
  /\ Main \in allocated /\ parent[Main] = NULL
  /\ \A t \in Threads : pc[t] \in Waiting => arg[t] # Main

LEMMA MainStaysNext == TypeOK /\ MainStays /\ [Next]_vars => MainStays'
<1> SUFFICES ASSUME TypeOK, MainStays, [Next]_vars PROVE MainStays'
  OBVIOUS
<1>0. Main \in Threads /\ NULL \notin Threads
  BY ConstantsOK DEF Nodes
<1>1. CASE Tick \/ Hlt \/ UNCHANGED vars
  BY <1>1 DEF Tick, Hlt, vars, MainStays
<1>2. ASSUME NEW t \in Threads, Call(t) PROVE MainStays'
  <2>1. Calling(t)
    BY <1>2, CallsCall
  <2>2. Main \in allocated' /\ parent'[Main] = NULL
    BY <2>1 DEF Calling, MainStays
  <2>3. ASSUME NEW s \in Threads, pc'[s] \in Waiting PROVE arg'[s] # Main
    <3>1. CASE s = t
      BY <1>0, <2>1, <2>3, <3>1 DEF Calling, MainStays, Owns
    <3>2. CASE s # t
      BY <2>1, <2>3, <3>2 DEF Calling, MainStays, Waiting
    <3> QED BY <3>1, <3>2
  <2> QED BY <2>2, <2>3 DEF MainStays
<1>3. ASSUME NEW t \in Threads, Kernel(t) PROVE MainStays'
  <2>1. Body(t)
    BY <1>3, KernelBody
  <2>2. Main \in allocated' /\ parent'[Main] = NULL
    BY <1>0, <2>1 DEF Body, MainStays, TypeOK
  <2>3. ASSUME NEW s \in Threads, pc'[s] \in Waiting PROVE arg'[s] # Main
    BY <2>1, <2>3 DEF Body, MainStays, TypeOK
  <2> QED BY <2>2, <2>3 DEF MainStays
<1> QED BY <1>1, <1>2, <1>3 DEF Next

-----------------------------------------------------------------------------
(* The invariant of main.c: which thread stands at which label, and what   *)
(* main() knows of thread_1 and thread_2.                                  *)

TwoLabels == {"two", "two_th1", "two_more", "two_th2", "two_poll",
              "two_joined", "two_stop", "two_end"}
RestLabels == {"chain", "chain_start", "chain_wait", "sleeper",
               "sleeper_start", "sleeper_made", "sleeper_send",
               "sleeper_wake", "sleeper_yield", "sleeper_wait", "mutex",
               "mutex_start", "mutex_made", "mutex_wait", "main_exit"}
OtherLabels == {"thread_1", "thread_2", "thread_chain", "chain_test",
                "chain_made", "chain_end", "thread_sleeper", "sleeper_test",
                "sleeper_woken", "sleeper_end", "thread_mutex", "mutex_in",
                "mutex_work", "mutex_out", "over", "idle"}
Runners == {"thread_1", "thread_2"}

(* Only the boot thread is in main(), and a thread in thread_exit() has    *)
(* left its function.                                                      *)
Labelled ==
  /\ at \in [Threads -> TwoLabels \cup RestLabels \cup OtherLabels]
  /\ at[Main] \in TwoLabels \cup RestLabels \cup {"over"}
  /\ \A t \in Threads \ {Main} : at[t] \in OtherLabels
  /\ \A t \in Threads : pc[t] \in Parting => at[t] = "over"

(* main's th1 and th2, sleeper, and th_mutex[].                            *)
Variables == [two : Seq(Threads), sleeper : Seq(Threads), mutex : Seq(Threads)]

(* A thread is stored in one of them.                                      *)
LEMMA ThreadStored ==
  ASSUME NEW r \in Variables, NEW x \in Threads
  PROVE  /\ \A where \in {"sleeper", "mutex"} :
              [r EXCEPT ![where] = Append(@, x)] \in Variables
         /\ [r EXCEPT !["two"] = Append(@, x)] \in Variables
         /\ [r EXCEPT !["two"] = Append(@, x)].two = Append(r.two, x)
<1>1. \A q \in Seq(Threads) : Append(q, x) \in Seq(Threads)
  OBVIOUS
<1>2. r.two \in Seq(Threads) /\ r.sleeper \in Seq(Threads) /\ r.mutex \in Seq(Threads)
  BY DEF Variables
<1>3. [r EXCEPT !["sleeper"] = Append(@, x)] \in Variables
  BY <1>1, <1>2 DEF Variables
<1>4. [r EXCEPT !["mutex"] = Append(@, x)] \in Variables
  BY <1>1, <1>2 DEF Variables
<1>5. [r EXCEPT !["two"] = Append(@, x)] \in Variables
  BY <1>1, <1>2 DEF Variables
<1>6. [r EXCEPT !["two"] = Append(@, x)].two = Append(r.two, x)
  BY DEF Variables
<1> QED BY <1>3, <1>4, <1>5, <1>6

(* th1 and th2, as far as they have been stored.                           *)
Stored ==
  /\ th \in Variables
  /\ at[Main] \in {"two", "two_th1"} => th.two = <<>>
  /\ at[Main] \in {"two_more", "two_th2"} => Len(th.two) = 1
  /\ at[Main] \in {"two_poll", "two_joined", "two_stop", "two_end"} =>
       Len(th.two) = 2

(* Whoever is in thread_1 is th1, until main() has waited for it.          *)
FirstIsKnown ==
  \A t \in Threads : at[t] = "thread_1" =>
    \/ at[Main] = "two_th1" /\ arg[Main] = t
    \/ /\ at[Main] \in {"two_more", "two_th2", "two_poll", "two_joined", "two_stop"}
       /\ th.two[1] = t
    \/ /\ at[Main] = "two_end" /\ pc[Main] = "wait_loop"
       /\ th.two[1] = t /\ arg[Main] = t

(* Whoever is in thread_2 is th2, until main() has waited for it.          *)
SecondIsKnown ==
  \A t \in Threads : at[t] = "thread_2" =>
    \/ at[Main] = "two_th2" /\ arg[Main] = t
    \/ at[Main] = "two_poll" /\ th.two[2] = t
    \/ /\ at[Main] = "two_joined" /\ pc[Main] = "wait_loop"
       /\ th.two[2] = t /\ arg[Main] = t

(* A thread in one of them has not terminated, although until create_thread*)
(* sets the state a used slot still looks so.                              *)
RunnersLive ==
  \A t \in Threads : at[t] \in Runners =>
    tstate[t] # "TERMINATED" \/ (arg[Main] = t /\ pc[Main] \in Creates)

MainInv ==
  /\ MainStays /\ Labelled /\ Stored
  /\ FirstIsKnown /\ SecondIsKnown /\ RunnersLive

LEMMA RunsKeep ==
  ASSUME TypeOK, MainInv, NEW t \in Threads, Runs(t)
  PROVE  MainInv'
<1>1. Body(t) /\ UNCHANGED <<at, th>>
  BY KernelBody DEF Runs
<1>2. MainStays'
  <2>1. [Next]_vars
    BY DEF Runs, Next
  <2> QED BY <2>1, MainStaysNext DEF MainInv
<1>3. arg' = arg /\ \A s \in Threads \ {t} : pc'[s] = pc[s]
  BY <1>1 DEF Body, TypeOK
<1>4. Main \in Threads
  BY ConstantsOK
<1>5. Labelled'
  BY <1>1, <1>3 DEF MainInv, Labelled, Body
<1>6. Stored'
  BY <1>1 DEF MainInv, Stored
<1>7. ASSUME NEW s \in Threads, at[s] \in Runners, tstate[s] = "TERMINATED",
             arg[Main] = s, pc[Main] = "wait_loop"
      PROVE  FALSE
  BY <1>7 DEF MainInv, RunnersLive, Creates
<1>8. ASSUME NEW s \in Threads, at[s] \in Runners, arg[Main] = s, pc[Main] = "wait_loop"
      PROVE  pc'[Main] = "wait_loop"
  BY <1>1, <1>3, <1>4, <1>7, <1>8 DEF Body
<1>9. FirstIsKnown'
  BY <1>1, <1>3, <1>8 DEF MainInv, FirstIsKnown, Runners
<1>10. SecondIsKnown'
  BY <1>1, <1>3, <1>8 DEF MainInv, SecondIsKnown, Runners
<1>11. ASSUME NEW s \in Threads, at[s] \in Runners
       PROVE  tstate'[s] # "TERMINATED" \/ (arg[Main] = s /\ pc'[Main] \in Creates)
  <2>1. tstate'[s] = "TERMINATED" => tstate[s] = "TERMINATED"
    BY <1>1, <1>11 DEF Body, MainInv, Labelled, Runners
  <2>2. pc[Main] \in Creates => pc'[Main] \in Creates \/ tstate'[arg[Main]] = "RUNNING"
    BY <1>1, <1>3, <1>4 DEF Body
  <2> QED BY <1>11, <2>1, <2>2 DEF MainInv, RunnersLive
<1>12. RunnersLive'
  BY <1>1, <1>3, <1>11 DEF RunnersLive
<1> QED BY <1>2, <1>5, <1>6, <1>9, <1>10, <1>12 DEF MainInv

(* A step of another thread's function: main() and its variables do not    *)
(* change, and no thread enters thread_1 or thread_2.                      *)
Elsewhere(t) ==
  /\ Calling(t) /\ th' = th
  /\ \A s \in Threads \ {t} :
       \/ at'[s] = at[s] /\ pc'[s] = pc[s]
       \/ s \notin allocated /\ at'[s] \in OtherLabels \ Runners /\ pc'[s] = "user"
  /\ at'[t] \in OtherLabels
  /\ at'[t] \in Runners => at'[t] = at[t]
  /\ pc'[t] \in Parting => at'[t] = "over"
  /\ at' \in [Threads -> TwoLabels \cup RestLabels \cup OtherLabels]

LEMMA OthersStep ==
  ASSUME TypeOK, MainInv, NEW t \in Threads \ {Main}, Client(t)
  PROVE  Elsewhere(t)
<1>0. at[t] \in OtherLabels /\ at \in [Threads -> TwoLabels \cup RestLabels \cup OtherLabels]
  BY DEF MainInv, Labelled
<1> USE DEF OtherLabels, Runners
<1>1. ASSUME NEW l \in OtherLabels, NEW m \in OtherLabels, Goes(t, l, m),
             Call(t), pc'[t] \in Parting => m = "over", th' = th,
             \A s \in Threads \ {t} : pc'[s] = pc[s], m \in Runners => m = l
      PROVE  Elsewhere(t)
  <2>1. Calling(t)
    BY <1>1, CallsCall
  <2> QED BY <1>0, <1>1, <2>1 DEF Elsewhere, Goes
<1>2. ASSUME NEW l \in OtherLabels, NEW m \in OtherLabels, Says(t, l, m),
             m \in Runners => m = l
      PROVE  Elsewhere(t)
  BY <1>1, <1>2 DEF Says, CallPrintf, Goto, InUser, At, Call, TypeOK, Parting
<1>3. ASSUME NEW l \in OtherLabels, Exits(t, l) PROVE Elsewhere(t)
  BY <1>1, <1>3 DEF Exits, CallExit, Goto, InUser, At, Call, TypeOK
<1>4. CASE Thread1(t)
  BY <1>2, <1>3, <1>4 DEF Thread1
<1>5. CASE Thread2(t)
  <2>1. CASE Goes(t, "thread_2", "thread_2") /\ CallPrintf(t) /\ th' = th
    BY <1>1, <2>1 DEF CallPrintf, Goto, InUser, At, Call, TypeOK, Parting
  <2> QED BY <1>3, <1>5, <2>1 DEF Thread2
<1>6. CASE ThreadChain(t)
  <2>1. CASE Spawns(t, "chain_test", "chain_made", "thread_chain", n[t] - 1)
    <3>1. PICK u \in Threads : /\ CallCreate(t, u) /\ th' = th
                               /\ at' = [at EXCEPT ![t] = "chain_made", ![u] = "thread_chain"]
      BY <2>1 DEF Spawns
    <3>2. Calling(t)
      BY <3>1, CallsCall DEF Call
    <3> QED BY <1>0, <3>1, <3>2 DEF Elsewhere, CallCreate, TypeOK, Parting
  <2>2. CASE Waits(t, "chain_made", "chain_end", arg[t])
    <3>1. arg[t] \in Threads
      BY DEF TypeOK
    <3> QED BY <1>1, <2>2, <3>1 DEF Waits, CallWait, CallOn, Goto, InUser, At,
                                    Call, TypeOK, Parting
  <2> QED BY <1>2, <1>3, <1>6, <2>1, <2>2 DEF ThreadChain
<1>7. CASE ThreadSleeper(t)
  <2>1. CASE Goes(t, "sleeper_test", "sleeper_woken") /\ CallSleep(t) /\ th' = th
    BY <1>1, <2>1 DEF CallSleep, Goto, InUser, At, Call, TypeOK, Parting
  <2> QED BY <1>2, <1>3, <1>7, <2>1 DEF ThreadSleeper
<1>8. CASE ThreadMutex(t)
  <2>1. CASE Goes(t, "thread_mutex", "mutex_in") /\ CallMutexLock(t) /\ th' = th
    BY <1>1, <2>1 DEF CallMutexLock, Goto, InUser, At, Call, TypeOK, Parting
  <2>2. CASE Goes(t, "mutex_out", "thread_mutex") /\ CallMutexUnlock(t) /\ th' = th
    <3>1. /\ pc' = pc \/ \E l \in {"munlock_log", "user"} : pc' = [pc EXCEPT ![t] = l]
          /\ pc[t] = "user"
      BY <2>2 DEF CallMutexUnlock, Goto, InUser, At
    <3> QED BY <1>1, <2>2, <3>1 DEF Call, TypeOK, Parting
  <2> QED BY <1>2, <1>3, <1>8, <2>1, <2>2 DEF ThreadMutex
<1>9. CASE IdleThread(t)
  BY <1>1, <1>9 DEF IdleThread, CallYield, InUser, At, Call, TypeOK, Parting
<1>10. ~MainThread(t)
  <2>1. at[t] \notin TwoLabels \cup RestLabels
    BY <1>0 DEF TwoLabels, RestLabels
  <2> QED BY <2>1 DEF MainThread, MainTwo, MainChain, MainSleeper, MainMutex,
                      Says, Spawns, Keeps, Waits, Exits, Goes, TwoLabels, RestLabels
<1> QED BY <1>4, <1>5, <1>6, <1>7, <1>8, <1>9, <1>10 DEF Client

LEMMA OthersKeep ==
  ASSUME TypeOK, MainInv, MainStays', NEW t \in Threads \ {Main}, Elsewhere(t)
  PROVE  MainInv'
<1>0. Main \in Threads /\ Main \in allocated
  BY ConstantsOK DEF MainInv, MainStays
<1>1. at'[Main] = at[Main] /\ pc'[Main] = pc[Main] /\ arg'[Main] = arg[Main]
      /\ tstate' = tstate /\ th' = th
  BY <1>0 DEF Elsewhere, Calling
<1>2. \A s \in Threads : at'[s] \in Runners => at'[s] = at[s]
  BY DEF Elsewhere
<1>3. Labelled'
  <2>1. \A s \in Threads \ {Main} : at'[s] \in OtherLabels
    BY DEF Elsewhere, MainInv, Labelled
  <2>2. \A s \in Threads : pc'[s] \in Parting => at'[s] = "over"
    BY DEF Elsewhere, MainInv, Labelled, Parting
  <2> QED BY <1>1, <2>1, <2>2 DEF Elsewhere, MainInv, Labelled
<1>4. Stored'
  BY <1>1 DEF MainInv, Stored
<1>5. FirstIsKnown' /\ SecondIsKnown' /\ RunnersLive'
  BY <1>1, <1>2 DEF MainInv, FirstIsKnown, SecondIsKnown, RunnersLive, Runners
<1> QED BY <1>3, <1>4, <1>5 DEF MainInv

-----------------------------------------------------------------------------
(* The steps of main().                                                    *)

(* After its k-th part main() is in a later one.                           *)
LEMMA PartsInOrder ==
  /\ Enter(1) \in {"two"} \cup RestLabels
  /\ \A k \in 2..4 : Enter(k) \in RestLabels
<1>1. Len(Parts) = 4 /\ Parts[1] = "two" /\ Parts[2] = "chain"
      /\ Parts[3] = "sleeper" /\ Parts[4] = "mutex"
  BY DEF Parts
<1>2. ASSUME NEW S \in SUBSET (1..4), S # {}
      PROVE  (CHOOSE j \in S : \A i \in S : j <= i) \in S
  <2>1. \E j \in S : \A i \in S : j <= i
    <3>1. CASE 1 \in S
      <4>1. \A i \in S : 1 <= i
        BY <3>1
      <4> QED BY <3>1, <4>1
    <3>2. CASE 1 \notin S /\ 2 \in S
      <4>1. \A i \in S : 2 <= i
        BY <3>2
      <4> QED BY <3>2, <4>1
    <3>3. CASE 1 \notin S /\ 2 \notin S /\ 3 \in S
      <4>1. \A i \in S : 3 <= i
        BY <3>3
      <4> QED BY <3>3, <4>1
    <3>4. CASE S = {4}
      <4>1. 4 \in S /\ \A i \in S : 4 <= i
        BY <3>4
      <4> QED BY <4>1
    <3>5. ASSUME 1 \notin S, 2 \notin S, 3 \notin S PROVE S = {4}
      <4>1. \A i \in S : i = 4
        BY <3>5
      <4> QED BY <1>2, <4>1
    <3> QED BY <3>1, <3>2, <3>3, <3>4, <3>5
  <2> QED BY <2>1
<1>3. ASSUME NEW k \in 1..4
      PROVE  Enter(k) = "main_exit" \/ \E j \in k..4 : Enter(k) = Parts[j]
  <2> DEFINE rest == {j \in k..4 : Parts[j] \in Phases}
  <2>1. rest = {} => Enter(k) = "main_exit"
    BY <1>1 DEF Enter
  <2>2. rest # {} => Enter(k) = Parts[CHOOSE j \in rest : \A i \in rest : j <= i]
    BY <1>1 DEF Enter
  <2>3. rest \in SUBSET (1..4)
    OBVIOUS
  <2>4. rest # {} => (CHOOSE j \in rest : \A i \in rest : j <= i) \in k..4
    <3>1. rest # {} => (CHOOSE j \in rest : \A i \in rest : j <= i) \in rest
      <4> HIDE DEF rest
      <4> QED BY <1>2, <2>3
    <3> QED BY <3>1
  <2> HIDE DEF rest
  <2> QED BY <2>1, <2>2, <2>4
<1> QED BY <1>1, <1>3 DEF RestLabels

(* What a step of main() from label l to m leaves of the others: the       *)
(* thread u that create_thread starts, if any, stands at entry.            *)
Moves(l, m) ==
  /\ at[Main] = l /\ at' = [at EXCEPT ![Main] = m]
  /\ pc[Main] = "user" /\ tstate' = tstate
  /\ \A s \in Threads \ {Main} : pc'[s] = pc[s]
Starts(l, m, u, entry) ==
  /\ at[Main] = l /\ at' = [at EXCEPT ![Main] = m, ![u] = entry]
  /\ u \in Threads \ {Main} /\ arg'[Main] = u
  /\ pc[Main] = "user" /\ pc'[Main] = "create_lock" /\ pc'[u] = "user"
  /\ tstate' = tstate /\ th' = th
  /\ \A s \in Threads \ {Main, u} : pc'[s] = pc[s]

LEMMA CallFrames ==
  ASSUME TypeOK, MainInv, NEW l, NEW m
  PROVE  /\ Says(Main, l, m) => Moves(l, m) /\ th' = th /\ pc'[Main] = "printf_log"
         /\ Exits(Main, l) => Moves(l, "over") /\ th' = th
         /\ \A u : Goes(Main, l, m) /\ CallWait(Main, u) =>
              Moves(l, m) /\ pc'[Main] = "wait_loop" /\ arg'[Main] = u
         /\ \A u : Goes(Main, l, m) /\ CallWake(Main, u) =>
              Moves(l, m) /\ pc'[Main] = "wake_lock"
         /\ Goes(Main, l, m) /\ CallYield(Main) => Moves(l, m) /\ pc' = pc
         /\ Goes(Main, l, m) /\ InUser(Main) /\ UNCHANGED vars =>
              Moves(l, m) /\ pc' = pc
         /\ \A where : Keeps(Main, l, m, where) =>
              /\ Moves(l, m) /\ pc' = pc /\ arg' = arg
              /\ th' = [th EXCEPT ![where] = Append(@, arg[Main])]
         /\ \A entry, k : Spawns(Main, l, m, entry, k) =>
              \E u : Starts(l, m, u, entry)
<1> USE DEF Moves, Goes, Goto, InUser, At, TypeOK, vars
<1>0. Main \in Threads /\ Main \in allocated
  BY ConstantsOK DEF MainInv, MainStays
<1>1. Says(Main, l, m) => Moves(l, m) /\ th' = th /\ pc'[Main] = "printf_log"
  BY <1>0 DEF Says, CallPrintf
<1>2. Exits(Main, l) => Moves(l, "over") /\ th' = th
  BY <1>0 DEF Exits, CallExit
<1>3. ASSUME NEW u, Goes(Main, l, m), CallWait(Main, u)
      PROVE  Moves(l, m) /\ pc'[Main] = "wait_loop" /\ arg'[Main] = u
  BY <1>0, <1>3 DEF CallWait, CallOn
<1>4. ASSUME NEW u, Goes(Main, l, m), CallWake(Main, u)
      PROVE  Moves(l, m) /\ pc'[Main] = "wake_lock"
  BY <1>0, <1>4 DEF CallWake, CallOn
<1>5. Goes(Main, l, m) /\ CallYield(Main) => Moves(l, m) /\ pc' = pc
  BY DEF CallYield
<1>6. Goes(Main, l, m) /\ InUser(Main) /\ UNCHANGED vars => Moves(l, m) /\ pc' = pc
  OBVIOUS
<1>7. ASSUME NEW where, Keeps(Main, l, m, where)
      PROVE  /\ Moves(l, m) /\ pc' = pc /\ arg' = arg
             /\ th' = [th EXCEPT ![where] = Append(@, arg[Main])]
  BY <1>7 DEF Keeps
<1>8. ASSUME NEW entry, NEW k, Spawns(Main, l, m, entry, k)
      PROVE  \E u : Starts(l, m, u, entry)
  <2>1. PICK u \in Threads : /\ CallCreate(Main, u)
                             /\ at' = [at EXCEPT ![Main] = m, ![u] = entry]
    BY <1>8 DEF Spawns
  <2>2. u # Main
    BY <1>0, <2>1 DEF CallCreate
  <2>3. /\ at[Main] = l /\ pc[Main] = "user" /\ tstate' = tstate /\ th' = th
        /\ pc' = [pc EXCEPT ![Main] = "create_lock", ![u] = "user"]
        /\ arg' = [arg EXCEPT ![Main] = u]
    BY <1>8, <2>1 DEF Spawns, CallCreate
  <2>4. /\ pc'[Main] = "create_lock" /\ pc'[u] = "user" /\ arg'[Main] = u
        /\ \A s \in Threads \ {Main, u} : pc'[s] = pc[s]
    BY <1>0, <2>2, <2>3
  <2> QED BY <2>1, <2>2, <2>3, <2>4 DEF Starts
<1> QED BY <1>1, <1>2, <1>3, <1>4, <1>5, <1>6, <1>7, <1>8

(* Labels after a step of main().                                          *)
LEMMA MainLabelled ==
  ASSUME TypeOK, MainInv, NEW l, NEW m \in TwoLabels \cup RestLabels \cup {"over"},
         \/ Moves(l, m) /\ (pc'[Main] \in Parting => m = "over")
         \/ \E u, entry : Starts(l, m, u, entry) /\ entry \in OtherLabels
  PROVE  Labelled'
<1>0. Main \in Threads
  BY ConstantsOK
<1>1. CASE Moves(l, m) /\ (pc'[Main] \in Parting => m = "over")
  BY <1>0, <1>1 DEF Moves, MainInv, Labelled, OtherLabels
<1>2. ASSUME NEW u, NEW entry \in OtherLabels, Starts(l, m, u, entry) PROVE Labelled'
  BY <1>0, <1>2 DEF Starts, MainInv, Labelled, OtherLabels, Parting
<1> QED BY <1>1, <1>2

(* Behind its first part main() has no thread in thread_1 or thread_2, and *)
(* starts none.                                                            *)
LEMMA RestKeeps ==
  ASSUME TypeOK, MainInv, MainStays', NEW l, NEW m \in RestLabels \cup {"over"},
         \A t \in Threads : at[t] \notin Runners,
         th' \in Variables,
         \/ Moves(l, m) /\ (pc'[Main] \in Parting => m = "over")
         \/ \E u, entry : Starts(l, m, u, entry) /\ entry \in OtherLabels \ Runners
  PROVE  MainInv'
<1>0. Main \in Threads /\ at \in [Threads -> TwoLabels \cup RestLabels \cup OtherLabels]
  BY ConstantsOK DEF MainInv, Labelled
<1>1. Labelled'
  BY MainLabelled
<1>2. at'[Main] = m /\ \A t \in Threads : at'[t] \notin Runners
  BY <1>0 DEF Moves, Starts, Runners, RestLabels
<1>3. Stored'
  BY <1>2 DEF Stored, RestLabels
<1>4. FirstIsKnown' /\ SecondIsKnown' /\ RunnersLive'
  BY <1>2 DEF FirstIsKnown, SecondIsKnown, RunnersLive, Runners
<1> QED BY <1>1, <1>3, <1>4 DEF MainInv

LEMMA RestStep ==
  ASSUME TypeOK, MainInv, MainStays',
         \/ MainChain(Main) \/ MainSleeper(Main) \/ MainMutex(Main)
         \/ Exits(Main, "main_exit")
  PROVE  MainInv'
<1>0. /\ th \in Variables
      /\ \A k \in 2..4 : Enter(k) \in RestLabels
      /\ arg[Main] \in Threads
  BY PartsInOrder, ConstantsOK DEF MainInv, Stored, TypeOK
<1>1. at[Main] \in RestLabels /\ \A t \in Threads : at[t] \notin Runners
  <2>1. at[Main] \in RestLabels
    BY DEF MainChain, MainSleeper, MainMutex, Exits, Says, Spawns, Waits, Keeps,
           Goes, RestLabels
  <2> QED BY <2>1 DEF MainInv, FirstIsKnown, SecondIsKnown, Runners, RestLabels
<1>2. ASSUME NEW l, NEW m \in RestLabels \cup {"over"}, th' \in Variables,
             Moves(l, m), pc'[Main] \in Parting => m = "over"
      PROVE  MainInv'
  BY <1>1, <1>2, RestKeeps
<1>3. ASSUME NEW l, NEW m \in RestLabels, Says(Main, l, m) PROVE MainInv'
  BY <1>0, <1>2, <1>3, CallFrames DEF Parting
<1>4. ASSUME NEW l, NEW m \in RestLabels, NEW entry \in OtherLabels \ Runners,
             NEW k, Spawns(Main, l, m, entry, k)
      PROVE  MainInv'
  <2>1. PICK u : Starts(l, m, u, entry)
    BY <1>4, CallFrames
  <2> QED BY <1>0, <1>1, <2>1, RestKeeps DEF Starts
<1>5. ASSUME NEW l, NEW m \in RestLabels, NEW u, th' \in Variables,
             Goes(Main, l, m), CallWait(Main, u) \/ CallWake(Main, u)
      PROVE  MainInv'
  BY <1>2, <1>5, CallFrames DEF Parting
<1>6. ASSUME NEW l, NEW m \in RestLabels, NEW where \in {"sleeper", "mutex"},
             Keeps(Main, l, m, where)
      PROVE  MainInv'
  <2>1. Moves(l, m) /\ pc' = pc /\ th' = [th EXCEPT ![where] = Append(@, arg[Main])]
    BY <1>6, CallFrames
  <2>2. th' \in Variables
    BY <1>0, <2>1, ThreadStored
  <2> QED BY <1>2, <2>1, <2>2 DEF Moves, Parting
<1>7. ASSUME NEW l, NEW m \in RestLabels, Goes(Main, l, m), th' = th,
             CallYield(Main) \/ (InUser(Main) /\ UNCHANGED vars)
      PROVE  MainInv'
  <2>1. Moves(l, m) /\ pc' = pc
    BY <1>7, CallFrames
  <2> QED BY <1>0, <1>2, <1>7, <2>1 DEF Moves, Parting
<1> USE DEF RestLabels, OtherLabels, Runners
<1>8. CASE MainChain(Main)
  BY <1>0, <1>3, <1>4, <1>5, <1>8 DEF MainChain, Waits
<1>9. CASE MainSleeper(Main)
  BY <1>0, <1>3, <1>4, <1>5, <1>6, <1>7, <1>9 DEF MainSleeper, Waits
<1>10. CASE MainMutex(Main)
  <2>1. ASSUME th.mutex # <<>>, th' = [th EXCEPT !.mutex = Tail(@)] PROVE th' \in Variables
    <3>1. Tail(th.mutex) \in Seq(Threads)
      BY <1>0, <2>1 DEF Variables
    <3> QED BY <1>0, <2>1, <3>1 DEF Variables
  <2> QED BY <1>0, <1>3, <1>4, <1>5, <1>6, <1>7, <1>10, <2>1 DEF MainMutex
<1>11. CASE Exits(Main, "main_exit")
  BY <1>0, <1>2, <1>11, CallFrames
<1> QED BY <1>8, <1>9, <1>10, <1>11

(* main.c 125-135.                                                         *)
LEMMA TwoStep ==
  ASSUME TypeOK, MainInv, MainStays', MainTwo(Main)
  PROVE  MainInv'
<1>0. /\ th \in Variables /\ Main \in Threads /\ arg[Main] \in Threads
      /\ at \in [Threads -> TwoLabels \cup RestLabels \cup OtherLabels]
      /\ at[Main] \notin Runners
  BY ConstantsOK DEF MainInv, Stored, TypeOK, Labelled, TwoLabels, RestLabels, Runners
<1> USE DEF TwoLabels, Runners, MainInv
<1>1. CASE Spawns(Main, "two", "two_th1", "thread_1", 0)
  <2>1. PICK u : Starts("two", "two_th1", u, "thread_1")
    BY <1>1, CallFrames
  <2>2. \A t \in Threads : at[t] \notin Runners
    BY <2>1 DEF Starts, FirstIsKnown, SecondIsKnown
  <2>3. at'[Main] = "two_th1" /\ \A t \in Threads : at'[t] \in Runners => at'[t] = "thread_1" /\ t = u
    BY <1>0, <2>1, <2>2 DEF Starts
  <2>4. Labelled'
    BY <2>1, MainLabelled DEF OtherLabels
  <2>5. Stored'
    BY <2>1, <2>3 DEF Starts, Stored
  <2> QED BY <2>1, <2>3, <2>4, <2>5 DEF Starts, FirstIsKnown, SecondIsKnown, RunnersLive, Creates
<1>2. CASE Keeps(Main, "two_th1", "two_more", "two")
  <2>1. /\ Moves("two_th1", "two_more") /\ pc' = pc /\ arg' = arg
        /\ th' = [th EXCEPT !["two"] = Append(@, arg[Main])]
    BY <1>2, CallFrames
  <2>2. Labelled'
    BY <2>1, MainLabelled DEF Parting, Moves
  <2>3. at'[Main] = "two_more" /\ \A t \in Threads : at'[t] \in Runners => at'[t] = at[t]
    BY <1>0, <2>1 DEF Moves
  <2>4. th.two = <<>> /\ th'.two = Append(th.two, arg[Main]) /\ th' \in Variables
    <3>1. th.two = <<>>
      BY <2>1 DEF Moves, Stored
    <3>2. th' \in Variables /\ th'.two = Append(th.two, arg[Main])
      BY <1>0, <2>1, ThreadStored
    <3> QED BY <3>1, <3>2
  <2>5. Stored' /\ th'.two[1] = arg[Main]
    BY <2>3, <2>4 DEF Stored
  <2>6. FirstIsKnown'
    BY <2>1, <2>3, <2>5 DEF Moves, FirstIsKnown
  <2>7. SecondIsKnown' /\ RunnersLive'
    BY <2>1, <2>3 DEF Moves, SecondIsKnown, RunnersLive
  <2> QED BY <2>2, <2>5, <2>6, <2>7
<1>3. CASE Spawns(Main, "two_more", "two_th2", "thread_2", Count)
  <2>1. PICK u : Starts("two_more", "two_th2", u, "thread_2")
    BY <1>3, CallFrames
  <2>2. \A t \in Threads : at[t] # "thread_2"
    BY <2>1 DEF Starts, SecondIsKnown
  <2>3. /\ at'[Main] = "two_th2" /\ at'[u] = "thread_2"
        /\ \A t \in Threads \ {u} : at'[t] \in Runners => at'[t] = at[t] /\ at[t] = "thread_1"
    BY <1>0, <2>1, <2>2 DEF Starts
  <2>4. Labelled'
    BY <2>1, MainLabelled DEF OtherLabels
  <2>5. Stored'
    BY <2>1, <2>3 DEF Starts, Stored
  <2>6. FirstIsKnown'
    <3>1. ASSUME NEW t \in Threads, at'[t] = "thread_1" PROVE t # Main /\ t # u /\ at[t] = "thread_1"
      BY <2>3, <3>1 DEF Runners
    <3>2. ASSUME NEW t \in Threads, at'[t] = "thread_1" PROVE th.two[1] = t
      BY <2>1, <3>1, <3>2 DEF Starts, FirstIsKnown
    <3>3. th' = th
      BY <2>1 DEF Starts
    <3> QED BY <2>3, <3>2, <3>3 DEF FirstIsKnown
  <2>7. SecondIsKnown'
    <3>1. ASSUME NEW t \in Threads, at'[t] = "thread_2" PROVE t = u
      BY <2>3, <3>1 DEF Runners
    <3>2. arg'[Main] = u
      BY <2>1 DEF Starts
    <3> QED BY <2>3, <3>1, <3>2 DEF SecondIsKnown
  <2>8. RunnersLive'
    BY <2>1, <2>3 DEF Starts, RunnersLive, Creates
  <2> QED BY <2>4, <2>5, <2>6, <2>7, <2>8
<1>4. CASE Keeps(Main, "two_th2", "two_poll", "two")
  <2>1. /\ Moves("two_th2", "two_poll") /\ pc' = pc /\ arg' = arg
        /\ th' = [th EXCEPT !["two"] = Append(@, arg[Main])]
    BY <1>4, CallFrames
  <2>2. Labelled'
    BY <2>1, MainLabelled DEF Parting, Moves
  <2>3. at'[Main] = "two_poll" /\ \A t \in Threads : at'[t] \in Runners => at'[t] = at[t]
    BY <1>0, <2>1 DEF Moves
  <2>4. Len(th.two) = 1 /\ th'.two = Append(th.two, arg[Main]) /\ th' \in Variables
    <3>1. Len(th.two) = 1
      BY <2>1 DEF Moves, Stored
    <3>2. th' \in Variables /\ th'.two = Append(th.two, arg[Main])
      BY <1>0, <2>1, ThreadStored
    <3> QED BY <3>1, <3>2
  <2>5. Len(th'.two) = 2 /\ th'.two[1] = th.two[1] /\ th'.two[2] = arg[Main]
    <3>1. th.two \in Seq(Threads)
      BY <1>0 DEF Variables
    <3> QED BY <1>0, <2>4, <3>1
  <2>6. Stored'
    BY <2>3, <2>4, <2>5 DEF Stored
  <2>7. FirstIsKnown'
    BY <2>1, <2>3, <2>5 DEF Moves, FirstIsKnown
  <2>8. SecondIsKnown' /\ RunnersLive'
    BY <2>1, <2>3, <2>5 DEF Moves, SecondIsKnown, RunnersLive
  <2> QED BY <2>2, <2>6, <2>7, <2>8
<1>5. ASSUME NEW l, NEW m \in TwoLabels \cup RestLabels, Moves(l, m), th' \in Variables, th'.two = th.two,
             m \in TwoLabels => l \in TwoLabels \ {"two", "two_th1", "two_more", "two_th2"}
                                /\ m \notin {"two", "two_th1", "two_more", "two_th2"},
             pc'[Main] \notin Parting,
             FirstIsKnown', SecondIsKnown'
      PROVE  MainInv'
  <2>1. Labelled'
    BY <1>5, MainLabelled
  <2>2. at'[Main] = m /\ \A t \in Threads : at'[t] \in Runners => at'[t] = at[t]
    BY <1>0, <1>5 DEF Moves, RestLabels
  <2>3. Stored'
    BY <1>5, <2>2 DEF Moves, Stored, RestLabels
  <2>4. RunnersLive'
    BY <1>5, <2>2 DEF Moves, RunnersLive, Creates
  <2> QED BY <1>5, <2>1, <2>3, <2>4
<1>6. CASE Says(Main, "two_poll", "two_poll")
  <2>1. Moves("two_poll", "two_poll") /\ th' = th /\ pc'[Main] = "printf_log"
    BY <1>6, CallFrames
  <2>2. at' = at
    BY <1>0, <2>1 DEF Moves
  <2>3. FirstIsKnown' /\ SecondIsKnown'
    BY <2>1, <2>2 DEF Moves, FirstIsKnown, SecondIsKnown
  <2> QED BY <1>0, <1>5, <2>1, <2>3 DEF Parting
<1>7. CASE Waits(Main, "two_poll", "two_joined", th.two[2])
  <2>1. Moves("two_poll", "two_joined") /\ th' = th /\ pc'[Main] = "wait_loop" /\ arg'[Main] = th.two[2]
    BY <1>7, CallFrames DEF Waits
  <2>2. at'[Main] = "two_joined" /\ \A t \in Threads : at'[t] \in Runners => at'[t] = at[t]
    BY <1>0, <2>1 DEF Moves
  <2>3. FirstIsKnown' /\ SecondIsKnown'
    BY <2>1, <2>2 DEF Moves, FirstIsKnown, SecondIsKnown
  <2> QED BY <1>0, <1>5, <2>1, <2>3 DEF Parting
<1>8. CASE Says(Main, "two_joined", "two_stop")
  <2>1. Moves("two_joined", "two_stop") /\ th' = th /\ pc'[Main] = "printf_log"
    BY <1>8, CallFrames
  <2>2. at'[Main] = "two_stop" /\ \A t \in Threads : at'[t] \in Runners => at'[t] = at[t]
    BY <1>0, <2>1 DEF Moves
  <2>3. FirstIsKnown' /\ SecondIsKnown'
    BY <2>1, <2>2 DEF Moves, FirstIsKnown, SecondIsKnown
  <2> QED BY <1>0, <1>5, <2>1, <2>3 DEF Parting
<1>9. CASE Goes(Main, "two_stop", "two_end") /\ CallWait(Main, th.two[1]) /\ th' = th
  <2>1. Moves("two_stop", "two_end") /\ th' = th /\ pc'[Main] = "wait_loop" /\ arg'[Main] = th.two[1]
    BY <1>9, CallFrames
  <2>2. at'[Main] = "two_end" /\ \A t \in Threads : at'[t] \in Runners => at'[t] = at[t]
    BY <1>0, <2>1 DEF Moves
  <2>3. FirstIsKnown' /\ SecondIsKnown'
    BY <2>1, <2>2 DEF Moves, FirstIsKnown, SecondIsKnown
  <2> QED BY <1>0, <1>5, <2>1, <2>3 DEF Parting
<1>10. CASE Says(Main, "two_end", Enter(2))
  <2>1. Enter(2) \in RestLabels
    BY PartsInOrder
  <2>2. Moves("two_end", Enter(2)) /\ th' = th /\ pc'[Main] = "printf_log"
    BY <1>10, CallFrames
  <2>3. \A t \in Threads : at[t] \notin Runners
    BY <2>2 DEF Moves, FirstIsKnown, SecondIsKnown
  <2> QED BY <1>0, <2>1, <2>2, <2>3, RestKeeps DEF Parting
<1> QED BY <1>1, <1>2, <1>3, <1>4, <1>6, <1>7, <1>8, <1>9, <1>10 DEF MainTwo

LEMMA MainInvNext == TypeOK /\ MainInv /\ [MNext]_allVars => MainInv'
<1> SUFFICES ASSUME TypeOK, MainInv, [MNext]_allVars PROVE MainInv'
  OBVIOUS
<1>1. MainStays'
  BY MainSteps, MainStaysNext DEF MainInv
<1>2. ASSUME UNCHANGED <<at, th, arg, pc, tstate, allocated, parent>> PROVE MainInv'
  BY <1>2 DEF MainInv, MainStays, Labelled, Stored, FirstIsKnown, SecondIsKnown, RunnersLive
<1>3. CASE Timer
  BY <1>2, <1>3 DEF Timer, Tick, Hlt, vars
<1>4. CASE UNCHANGED allVars
  BY <1>2, <1>4 DEF allVars, vars
<1>5. ASSUME NEW t \in Threads, Runs(t) PROVE MainInv'
  BY <1>5, RunsKeep
<1>6. ASSUME NEW t \in Threads \ {Main}, Client(t) PROVE MainInv'
  BY <1>1, <1>6, OthersStep, OthersKeep
<1>7. CASE Client(Main)
  <2>1. ~(Thread1(Main) \/ Thread2(Main) \/ ThreadChain(Main) \/ ThreadSleeper(Main)
          \/ ThreadMutex(Main) \/ IdleThread(Main))
    <3>1. at[Main] \notin OtherLabels \ {"over"}
      BY DEF MainInv, Labelled, TwoLabels, RestLabels, OtherLabels
    <3> QED BY <3>1 DEF Thread1, Thread2, ThreadChain, ThreadSleeper, ThreadMutex,
                        IdleThread, Says, Exits, Spawns, Waits, Goes, OtherLabels
  <2> QED BY <1>1, <1>7, <2>1, TwoStep, RestStep DEF Client, MainThread
<1> QED BY <1>3, <1>4, <1>5, <1>6, <1>7 DEF MNext

LEMMA MainInvInit == MInit => MainInv
<1> SUFFICES ASSUME MInit PROVE MainInv
  OBVIOUS
<1>1. Main \in Threads /\ Main # Idle
  BY ConstantsOK
<1>2. at[Main] \in {"two"} \cup RestLabels
  BY <1>1, PartsInOrder DEF MInit
<1>3. /\ at = [t \in Threads |-> at[t]]
      /\ \A t \in Threads \ {Main} : at[t] \in {"idle", "over"}
  BY DEF MInit
<1>4. MainStays
  BY <1>1 DEF MInit, Init, MainStays, Waiting
<1>5. Labelled
  BY <1>1, <1>2, <1>3 DEF MInit, Init, Labelled, TwoLabels, OtherLabels, Parting
<1>6. Stored
  <2>1. th \in Variables /\ th.two = <<>>
    BY DEF MInit, Variables
  <2> QED BY <1>2, <2>1 DEF Stored, RestLabels
<1>7. \A t \in Threads : at[t] \notin Runners
  BY <1>2, <1>3 DEF Runners, RestLabels
<1> QED BY <1>4, <1>5, <1>6, <1>7 DEF MainInv, FirstIsKnown, SecondIsKnown, RunnersLive, Runners

LEMMA MainInvariant == MSpec => []MainInv
BY MainInvInit, MainInvNext, MainTypes, PTL DEF MSpec

(* wait() returns only when the thread has left its function: what main()  *)
(* prints after its waits (main.c 132 and 135) is true, wherever the timer *)
(* fires and although slots are used again.                                *)
THEOREM WaitsAreTrue == MSpec => []Joined
<1>1. MainInv => Joined
  BY DEF MainInv, FirstIsKnown, SecondIsKnown, Joined
<1> QED BY <1>1, MainInvariant, PTL

=============================================================================
