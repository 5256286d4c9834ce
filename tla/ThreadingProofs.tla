-------------------------- MODULE ThreadingProofs --------------------------
(***************************************************************************)
(* Theorems about Threading for every set of threads and every nesting of  *)
(* the mutex, in three parts.                                              *)
(*                                                                         *)
(* The kernel as it is: every assumption TickFree on the timer, the empty  *)
(* one included (types, exclusion, assertions, interrupt flags).           *)
(*                                                                         *)
(* The lists of the threads, when the timer does not fire in the windows   *)
(* (Windows \subseteq TickFree): what every list holds at every step, the  *)
(* two lists that are changed store by store included.  WInv is the        *)
(* invariant, and this part shows that each action keeps its part ListInv. *)
(*                                                                         *)
(* The steps of the kernel outside the windows: each action keeps the rest *)
(* of WInv and is a step of Scheduler.                                     *)
(***************************************************************************)
EXTENDS Threading, RingProofs

-----------------------------------------------------------------------------
(* Types.                                                                  *)

LEMMA StoreType ==
  ASSUME NEW ls \in Links, NEW x, NEW y \in Nodes \cup {NULL}
  PROVE  SetNext(ls, x, y) \in Links /\ SetPrev(ls, x, y) \in Links
BY DEF SetNext, SetPrev, Links

LEMMA LinkNewType ==
  ASSUME NEW ls \in Links, NEW x,
         NEW p \in Nodes \cup {NULL}, NEW q \in Nodes \cup {NULL}
  PROVE  LinkNew(ls, x, p, q) \in Links
BY DEF LinkNew, Links

LEMMA ListInitType ==
  ASSUME NEW ls \in Links, NEW h \in Nodes
  PROVE  ListInit(ls, h) \in Links
BY DEF ListInit, Links

LEMMA ListAddTailType ==
  ASSUME NEW ls \in Links, NEW x \in Nodes, NEW h \in Nodes
  PROVE  ListAddTail(ls, x, h) \in Links
<1>1. ls.prev[h] \in Nodes \cup {NULL}
  BY DEF Links
<1>2. LinkNew(ls, x, ls.prev[h], h) \in Links
  BY <1>1, LinkNewType
<1>3. SetNext(LinkNew(ls, x, ls.prev[h], h), ls.prev[h], x) \in Links
  BY <1>2, StoreType
<1>4. QED
  BY <1>3, StoreType DEF ListAddTail, ListInsert

LEMMA ListDelType ==
  ASSUME NEW ls \in Links, NEW x \in Nodes
  PROVE  ListDel(ls, x) \in Links
<1>1. ls.prev[x] \in Nodes \cup {NULL} /\ ls.next[x] \in Nodes \cup {NULL}
  BY DEF Links
<1>2. SetNext(ls, ls.prev[x], ls.next[x]) \in Links
  BY <1>1, StoreType
<1>3. QED
  BY <1>1, <1>2, StoreType DEF ListDel

LEMMA HeadsAreNodes ==
  /\ Threads \subseteq Nodes
  /\ RunHead \in Nodes /\ SleepHead \in Nodes /\ MutexHead \in Nodes
BY DEF Nodes, Heads

(* Whatever the lists look like, a switch leaves well-typed ones.          *)
LEMMA SwitchType ==
  ASSUME current \in Threads, NEW ls \in Links, NEW ts,
         halted = "no", Switch(ts, ls)
  PROVE  current' \in Threads /\ links' \in Links /\ halted' \in Reasons
<1> DEFINE queued == Requeued(ts, ls)
<1>1. queued \in Links
  BY ListAddTailType, HeadsAreNodes DEF Requeued
<1> HIDE DEF queued
<1>2. ListFirst(queued, RunHead) \in Threads =>
        ListDel(queued, ListFirst(queued, RunHead)) \in Links
  BY <1>1, ListDelType, HeadsAreNodes
<1>3. QED
  BY <1>1, <1>2 DEF Switch, queued, Reasons

LEMMA InitType == Init => TypeOK
<1> SUFFICES ASSUME Init PROVE TypeOK
  OBVIOUS
<1> DEFINE empty == [next |-> [x \in Nodes |-> NULL],
                     prev |-> [x \in Nodes |-> NULL]]
           heads == ListInit(ListInit(empty, RunHead), SleepHead)
           queue == IF QueueReady THEN ListInit(heads, MutexHead) ELSE heads
<1>1. empty \in Links
  BY DEF Links
<1>2. heads \in Links
  <2> HIDE DEF empty
  <2> QED BY <1>1, ListInitType, HeadsAreNodes
<1>3. queue \in Links
  <2> HIDE DEF heads
  <2> QED BY <1>2, ListInitType, HeadsAreNodes
<1>4. ListAddTail(queue, Idle, RunHead) \in Links
  <2> HIDE DEF queue
  <2> QED BY <1>3, ListAddTailType, HeadsAreNodes, ConstantsOK
<1>5. links \in Links
  BY <1>4 DEF Init
<1>6. QED
  BY <1>5, ConstantsOK DEF Init, TypeOK, Reasons, States, Labels, Locks

(* The tables of labels: what a lock, a log or an unlock leads to.         *)
LEMMA Tables ==
  /\ \A l \in DOMAIN AfterLock :
       AfterLock[l] \in MgmtLabels /\ AfterLock[l] \in Labels \ MutexLabels
  /\ \A l \in DOMAIN AfterLog :
       /\ AfterLog[l] \in Labels
       /\ AfterLog[l] \in MgmtLabels <=> l \in MgmtLabels
       /\ AfterLog[l] \in MutexLabels <=> l \in MutexLabels
  /\ \A l \in DOMAIN AfterUnlock :
       /\ AfterUnlock[l] \in Labels \ (MgmtLabels \cup MutexLabels)
       /\ l \in MgmtLabels
<1> USE DEF AfterLock, AfterLog, AfterUnlock, MgmtLabels, MutexLabels, Labels
<1>1. \A l \in DOMAIN AfterLock :
       AfterLock[l] \in MgmtLabels /\ AfterLock[l] \in Labels \ MutexLabels
  OBVIOUS
<1>2. \A l \in DOMAIN AfterLog :
       /\ AfterLog[l] \in Labels
       /\ AfterLog[l] \in MgmtLabels <=> l \in MgmtLabels
       /\ AfterLog[l] \in MutexLabels <=> l \in MutexLabels
  OBVIOUS
<1>3. \A l \in DOMAIN AfterUnlock :
       /\ AfterUnlock[l] \in Labels \ (MgmtLabels \cup MutexLabels)
       /\ l \in MgmtLabels
  OBVIOUS
<1>4. QED
  BY <1>1, <1>2, <1>3

LEMMA LabelTypes ==
  /\ {"user", "printf_log", "create_lock", "sleep_lock", "exit_lock",
      "wake_lock", "wait_loop", "wait_log", "sleep_yield", "exit_yield",
      "exit_returned"} \subseteq Labels \ (MgmtLabels \cup MutexLabels)
  /\ MgmtLabels \subseteq Labels \ MutexLabels
  /\ MutexLabels \subseteq Labels \ MgmtLabels
BY DEF AfterLock, MgmtLabels, MutexLabels, Labels

LEMMA SwitchKeeps ==
  ASSUME TypeOK, NEW ls \in Links, NEW ts, halted = "no", Switch(ts, ls)
  PROVE  current' \in Threads /\ links' \in Links /\ halted' \in Reasons
BY SwitchType DEF TypeOK

LEMMA ClientTypes ==
  ASSUME TypeOK, NEW t \in Threads, Call(t)
  PROVE  TypeOK'
<1> USE DEF TypeOK, cpuVars, flagVars, userVars
<1>1. CASE CallYield(t)
  BY <1>1, SwitchKeeps DEF CallYield, InUser, At
<1>2. CASE CallPrintf(t)
  BY <1>2, LabelTypes DEF CallPrintf, Goto
<1>3. CASE CallSleep(t)
  BY <1>3, LabelTypes DEF CallSleep, Goto
<1>4. CASE CallExit(t)
  BY <1>4, LabelTypes DEF CallExit, Goto
<1>5. CASE CallMutexLock(t)
  BY <1>5, LabelTypes DEF CallMutexLock, Goto, MutexLabels
<1>6. CASE CallMutexUnlock(t)
  <2>1. held' \in [Threads -> Nat]
    BY <1>6 DEF CallMutexUnlock
  <2>2. "munlock_log" \in Labels /\ "user" \in Labels
    BY LabelTypes DEF MutexLabels
  <2>3. mutex.locked \in Nat
    OBVIOUS
  <2>4. CASE halted' = halted
    <3> DEFINE first == ListFirst(links, MutexHead)
    <3>0. mutex.locked # 0
      BY <1>6, <2>4 DEF CallMutexUnlock, InUser, At
    <3>1. /\ Notifies => first \in Threads
          /\ mutex' = [locked |-> mutex.locked - 1,
                       owner  |-> IF mutex.locked = 1 THEN NULL ELSE t]
          /\ arg' = [arg EXCEPT ![t] = IF Notifies THEN first ELSE @]
          /\ mutexIF' = [mutexIF EXCEPT ![t] = Notifies /\ intr[t]]
          /\ intr' = [intr EXCEPT ![t] = @ /\ ~Notifies]
          /\ pc' = [pc EXCEPT ![t] = IF Notifies THEN "munlock_log" ELSE "user"]
      BY <1>6, <2>4 DEF CallMutexUnlock, Goto, InUser, At
    <3>2. mutex' \in [locked : Nat, owner : Threads \cup {NULL}]
      <4>1. mutex.locked - 1 \in Nat
        BY <2>3, <3>0
      <4>2. mutex' = [locked |-> mutex.locked - 1,
                      owner  |-> IF mutex.locked = 1 THEN NULL ELSE t]
        BY <3>1
      <4>3. QED
        BY <4>1, <4>2
    <3>3. arg' \in [Threads -> Threads]
      BY <3>1
    <3>4. mutexIF' \in [Threads -> BOOLEAN] /\ intr' \in [Threads -> BOOLEAN]
      BY <3>1 DEF Notifies, ListEmpty
    <3>5. pc' \in [Threads -> Labels]
      BY <2>2, <3>1
    <3>6. QED
      BY <1>6, <2>1, <2>4, <3>2, <3>3, <3>4, <3>5 DEF CallMutexUnlock
  <2>5. CASE halted' # halted
    BY <1>6, <2>1, <2>5 DEF CallMutexUnlock, Reasons
  <2>6. QED BY <2>4, <2>5
<1>7. ASSUME NEW u \in Threads, CallCreate(t, u) PROVE TypeOK'
  BY <1>7, LabelTypes DEF CallCreate
<1>8. ASSUME NEW u \in Threads, NEW l \in Labels, CallOn(t, u, l) PROVE TypeOK'
  BY <1>8 DEF CallOn, Goto
<1>9. ASSUME NEW u \in Threads, CallWake(t, u) \/ CallWait(t, u) PROVE TypeOK'
  BY <1>8, <1>9, LabelTypes DEF CallWake, CallWait
<1>10. QED
  BY <1>1, <1>2, <1>3, <1>4, <1>5, <1>6, <1>7, <1>9 DEF Call

LEMMA LockTypes ==
  ASSUME TypeOK, NEW t \in Threads, NEW l \in Locks
  PROVE  /\ Acquire(t, l) => /\ locks' \in [Locks -> [locked : Nat,
                                             owner : Threads \cup {NULL}]]
                             /\ intr' \in [Threads -> BOOLEAN]
                             /\ spinning' \subseteq Threads
                             /\ spinIF' \in [Threads -> BOOLEAN]
         /\ Release(t, l) => /\ locks' \in [Locks -> [locked : Nat,
                                             owner : Threads \cup {NULL}]]
                             /\ halted' \in Reasons
<1> USE DEF TypeOK
<1> DEFINE Records == [locked : Nat, owner : Threads \cup {NULL}]
<1>1. locks[l] \in Records
  OBVIOUS
<1>2. ASSUME Acquire(t, l)
      PROVE  /\ locks' \in [Locks -> Records]
             /\ intr' \in [Threads -> BOOLEAN]
             /\ spinning' \subseteq Threads
             /\ spinIF' \in [Threads -> BOOLEAN]
  <2>1. [locked |-> locks[l].locked + 1, owner |-> t] \in Records
    BY <1>1
  <2>2. locks' \in [Locks -> Records]
    BY <1>2, <2>1 DEF Acquire
  <2>3. QED
    BY <1>2, <2>2 DEF Acquire
<1>3. ASSUME Release(t, l)
      PROVE  locks' \in [Locks -> Records] /\ halted' \in Reasons
  <2>1. CASE locks[l].locked # 0 /\ locks[l].owner = t
    <3>1. [locked |-> locks[l].locked - 1,
           owner  |-> IF locks[l].locked = 1 THEN NULL ELSE locks[l].owner]
            \in Records
      BY <1>1, <2>1
    <3>2. QED
      BY <1>3, <2>1, <3>1 DEF Release
  <2>2. CASE ~(locks[l].locked # 0 /\ locks[l].owner = t)
    BY <1>3, <2>2 DEF Release, Reasons
  <2>3. QED
    BY <2>1, <2>2
<1>4. QED
  BY <1>2, <1>3

LEMMA LeaveTypes ==
  ASSUME TypeOK, NEW t \in Threads, LeaveMutex(t)
  PROVE  /\ intr' \in [Threads -> BOOLEAN]
         /\ mutexIF' \in [Threads -> BOOLEAN]
         /\ pc' \in [Threads -> Labels]
BY LabelTypes DEF TypeOK, LeaveMutex, Goto

LEMMA KernelTypes ==
  ASSUME TypeOK, NEW t \in Threads, Kernel(t)
  PROVE  TypeOK'
<1> USE DEF TypeOK, cpuVars, flagVars, userVars
<1>1. CASE Spin(t)
  BY <1>1, SwitchKeeps DEF Spin
<1>2. CASE LockMgmt(t)
  BY <1>2, LockTypes, Tables DEF LockMgmt, Goto, Locks
<1>3. CASE UnlockMgmt(t)
  BY <1>3, LockTypes, Tables DEF UnlockMgmt, Goto, Locks
<1>4. CASE LogBegin(t)
  BY <1>4, LockTypes DEF LogBegin, Locks
<1>5. CASE LogEnd(t)
  BY <1>5, LockTypes, Tables DEF LogEnd, Goto, Locks
<1>6. CASE CreateSet(t)
  BY <1>6, LabelTypes DEF CreateSet, Goto, MgmtLabels, States
<1>7. CASE Insert(t)
  <2>1. links.prev[RunHead] \in Nodes \cup {NULL} /\ RunHead \in Nodes
        /\ arg[t] \in Nodes
    BY HeadsAreNodes DEF Links
  <2>2. links' \in Links
    BY <1>7, <2>1, LinkNewType DEF Insert
  <2>3. QED
    BY <1>7, <2>1, <2>2, LabelTypes DEF Insert, Goto, MgmtLabels
<1>8. CASE InsertNext(t)
  <2>1. links' \in Links
    BY <1>8, StoreType, HeadsAreNodes DEF InsertNext
  <2>2. QED
    BY <1>8, <2>1, LabelTypes DEF InsertNext, Goto, MgmtLabels
<1>9. CASE InsertPrev(t)
  <2>1. links' \in Links
    BY <1>9, StoreType, HeadsAreNodes DEF InsertPrev
  <2>2. QED
    BY <1>9, <2>1, LabelTypes DEF InsertPrev, Goto, MgmtLabels
<1>10. CASE WakeTest(t)
  BY <1>10, LabelTypes DEF WakeTest, Goto, MgmtLabels, States
<1>11. CASE WakeDel(t)
  <2>1. links.prev[arg[t]] \in Nodes \cup {NULL}
        /\ links.next[arg[t]] \in Nodes \cup {NULL}
    BY HeadsAreNodes DEF Links
  <2>2. QED
    BY <1>11, <2>1, LabelTypes DEF WakeDel, Goto, MgmtLabels
<1>12. CASE WakeDelNext(t)
  <2>1. links' \in Links
    BY <1>12, StoreType DEF WakeDelNext
  <2>2. QED
    BY <1>12, <2>1, LabelTypes DEF WakeDelNext, Goto, MgmtLabels
<1>13. CASE WakeDelPrev(t)
  <2>1. links' \in Links
    BY <1>13, StoreType DEF WakeDelPrev
  <2>2. QED
    BY <1>13, <2>1, LabelTypes DEF WakeDelPrev, Goto, MgmtLabels
<1>14. CASE SleepSet(t)
  BY <1>14, LabelTypes DEF SleepSet, Goto, MgmtLabels, States
<1>15. CASE SleepYield(t)
  BY <1>15, LabelTypes, SwitchKeeps DEF SleepYield, At, Goto
<1>16. CASE ExitSet(t)
  BY <1>16, LabelTypes DEF ExitSet, Goto, MgmtLabels, States
<1>17. CASE ExitYield(t)
  BY <1>17, LabelTypes, SwitchKeeps DEF ExitYield, At, Goto
<1>18. CASE WaitSpin(t)
  BY <1>18, SwitchKeeps DEF WaitSpin, At
<1>19. CASE WaitDone(t)
  BY <1>19, LabelTypes DEF WaitDone, Goto
<1>20. CASE WaitFree(t)
  BY <1>20, LabelTypes DEF WaitFree, Goto
<1>21. CASE MutexTry(t)
  <2>1. LockedBy(t) \in [locked : Nat, owner : Threads \cup {NULL}]
    BY DEF LockedBy
  <2>2. [locked |-> mutex.locked + 1, owner |-> mutex.owner]
           \in [locked : Nat, owner : Threads \cup {NULL}]
    OBVIOUS
  <2>3. {"mlock_log", "mlock_first_log"} \subseteq Labels
    BY LabelTypes DEF MutexLabels
  <2>4. CASE ~MutexAvailable(t)
    BY <1>21, <2>3, <2>4 DEF MutexTry, Goto
  <2>5. CASE MutexAvailable(t) /\ links.next[MutexHead] = NULL
    BY <1>21, <2>2, <2>3, <2>5 DEF MutexTry, Goto
  <2>6. CASE MutexAvailable(t) /\ links.next[MutexHead] # NULL
    BY <1>21, <2>1, <2>6, LeaveTypes DEF MutexTry
  <2>7. QED
    BY <2>4, <2>5, <2>6
<1>22. CASE MutexEnqueue(t)
  <2>1. pc' \in [Threads -> Labels]
    BY <1>22, LabelTypes DEF MutexEnqueue, Goto, MutexLabels
  <2>2. ListAddTail(links, t, MutexHead) \in Links
    BY ListAddTailType, HeadsAreNodes
  <2>3. CASE links.prev[MutexHead] = NULL
    BY <1>22, <2>1, <2>3 DEF MutexEnqueue, Reasons
  <2>4. CASE links.prev[MutexHead] # NULL
    <3>1. tstate' \in [Threads -> States]
      BY <1>22, <2>4 DEF MutexEnqueue, States
    <3>2. current' \in Threads /\ links' \in Links /\ halted' \in Reasons
      BY <1>22, <2>2, <2>4, SwitchKeeps DEF MutexEnqueue, At
    <3>3. QED
      BY <1>22, <2>1, <3>1, <3>2 DEF MutexEnqueue
  <2>5. QED
    BY <2>3, <2>4
<1>23. CASE MutexInit(t)
  <2>1. links' \in Links
    BY <1>23, ListInitType, HeadsAreNodes DEF MutexInit
  <2>2. QED
    BY <1>23, <2>1, LeaveTypes DEF MutexInit
<1>24. CASE MutexNotify(t)
  <2>1. links' \in Links
    BY <1>24, ListDelType, ListAddTailType, HeadsAreNodes DEF MutexNotify
  <2>2. QED
    BY <1>24, <2>1, LeaveTypes DEF MutexNotify, States
<1>25. QED
  BY <1>1, <1>2, <1>3, <1>4, <1>5, <1>6, <1>7, <1>8, <1>9, <1>10, <1>11,
     <1>12, <1>13, <1>14, <1>15, <1>16, <1>17, <1>18, <1>19, <1>20, <1>21,
     <1>22, <1>23, <1>24 DEF Kernel

LEMMA TypeStep == TypeOK /\ [Next]_vars => TypeOK'
<1> SUFFICES ASSUME TypeOK, [Next]_vars PROVE TypeOK'
  OBVIOUS
<1>1. CASE Tick
  BY <1>1, SwitchKeeps DEF Tick, TypeOK
<1>2. CASE UNCHANGED vars
  BY <1>2 DEF vars, TypeOK
<1>3. QED
  BY <1>1, <1>2, ClientTypes, KernelTypes DEF Next, Hlt

(* Type correctness, for every instance.                                   *)
THEOREM TypeCorrect == Spec => []TypeOK
BY InitType, TypeStep, PTL DEF Spec

-----------------------------------------------------------------------------
(* Spin locks.  SpinExclusion is inductive: a step either takes a lock,    *)
(* which it can only when nobody else is in the section, or releases its   *)
(* own, or neither takes nor enters a section.                             *)

LEMMA SpinFrame ==
  ASSUME SpinExclusion, UNCHANGED locks, printing' \subseteq printing,
         \A s \in Threads : pc'[s] \in MgmtLabels => pc[s] \in MgmtLabels
  PROVE  SpinExclusion'
BY DEF SpinExclusion

LEMMA ClientSpin ==
  ASSUME TypeOK, SpinExclusion, NEW t \in Threads, Call(t)
  PROVE  SpinExclusion'
<1>1. UNCHANGED locks /\ printing' \subseteq printing
  BY DEF Call, CallYield, CallPrintf, CallSleep, CallExit, CallMutexLock,
         CallMutexUnlock, CallCreate, CallWake, CallWait, CallOn
<1>2. ASSUME NEW s \in Threads, pc'[s] \in MgmtLabels PROVE pc[s] \in MgmtLabels
  <2>1. \A l \in Labels \ MgmtLabels :
          Goto(t, l) => (pc'[s] \in MgmtLabels => pc[s] \in MgmtLabels)
    BY DEF Goto, TypeOK
  <2>2. {"mlock_try", "munlock_log"} \subseteq Labels \ MgmtLabels
    BY LabelTypes DEF MutexLabels
  <2>3. CASE CallYield(t)
    BY <1>2, <2>3 DEF CallYield
  <2>4. CASE CallPrintf(t) \/ CallSleep(t) \/ CallExit(t)
    BY <1>2, <2>1, <2>4, LabelTypes DEF CallPrintf, CallSleep, CallExit
  <2>5. CASE CallMutexLock(t)
    BY <1>2, <2>1, <2>2, <2>5 DEF CallMutexLock
  <2>6. CASE CallMutexUnlock(t)
    <3>1. pc' = pc \/ Goto(t, "munlock_log") \/ Goto(t, "user")
      BY <2>6 DEF CallMutexUnlock
    <3>2. QED
      BY <1>2, <2>1, <2>2, <3>1, LabelTypes
  <2>7. ASSUME NEW u \in Threads, CallCreate(t, u) PROVE pc[s] \in MgmtLabels
    <3>1. pc' = [pc EXCEPT ![t] = "create_lock", ![u] = "user"]
      BY <2>7 DEF CallCreate
    <3>2. QED
      BY <1>2, <3>1, LabelTypes DEF TypeOK
  <2>8. ASSUME NEW u \in Threads, CallWake(t, u) \/ CallWait(t, u)
        PROVE  pc[s] \in MgmtLabels
    BY <1>2, <2>1, <2>8, LabelTypes DEF CallWake, CallWait, CallOn
  <2>9. QED
    BY <2>3, <2>4, <2>5, <2>6, <2>7, <2>8 DEF Call
<1>3. QED
  BY <1>1, <1>2, SpinFrame

LEMMA KernelSpin ==
  ASSUME TypeOK, SpinExclusion, NEW t \in Threads, Kernel(t)
  PROVE  SpinExclusion'
<1> DEFINE Mgmt == "threads_mgmt_lock"
           Keeps == /\ UNCHANGED locks /\ UNCHANGED printing
                    /\ \A s \in Threads :
                         pc'[s] \in MgmtLabels => pc[s] \in MgmtLabels
<1>1. CASE LockMgmt(t)
  <2>1. Available(Mgmt, t) /\ locks' = [locks EXCEPT ![Mgmt] =
                              [locked |-> @.locked + 1, owner |-> t]]
    BY <1>1 DEF LockMgmt, Acquire
  <2>2. ASSUME NEW s \in Threads, s # t PROVE pc[s] \notin MgmtLabels
    BY <2>1, <2>2 DEF Available, SpinExclusion
  <2>3. UNCHANGED printing /\ \A s \in Threads : s # t => pc'[s] = pc[s]
    BY <1>1 DEF LockMgmt, Goto, TypeOK
  <2>4. locks'[Mgmt].locked > 0 /\ locks'[Mgmt].owner = t
        /\ locks'["printf_lock"] = locks["printf_lock"]
    BY <2>1 DEF TypeOK, Locks
  <2>5. QED
    BY <2>2, <2>3, <2>4 DEF SpinExclusion
<1>2. CASE UnlockMgmt(t)
  <2>1. PICK l \in DOMAIN AfterUnlock : pc[t] = l /\ Goto(t, AfterUnlock[l])
    BY <1>2 DEF UnlockMgmt, At
  <2>2. pc[t] \in MgmtLabels /\ pc'[t] \notin MgmtLabels
    BY <2>1, Tables DEF Goto, TypeOK
  <2>3. ASSUME NEW s \in Threads, s # t
        PROVE  pc[s] \notin MgmtLabels /\ pc'[s] = pc[s]
    BY <2>1, <2>2, <2>3 DEF SpinExclusion, Goto, TypeOK
  <2>4. UNCHANGED printing /\ locks'["printf_lock"] = locks["printf_lock"]
    BY <1>2 DEF UnlockMgmt, Release, TypeOK, Locks
  <2>5. QED
    BY <2>2, <2>3, <2>4 DEF SpinExclusion
<1>3. CASE LogBegin(t)
  <2>1. /\ Available("printf_lock", t)
        /\ locks' = [locks EXCEPT !["printf_lock"] =
                       [locked |-> @.locked + 1, owner |-> t]]
        /\ printing' = printing \cup {t} /\ UNCHANGED pc
    BY <1>3 DEF LogBegin, Acquire
  <2>2. ASSUME NEW s \in Threads, s # t PROVE s \notin printing
    BY <2>1, <2>2 DEF Available, SpinExclusion
  <2>3. locks'["printf_lock"].locked > 0 /\ locks'["printf_lock"].owner = t
        /\ locks'[Mgmt] = locks[Mgmt]
    BY <2>1 DEF TypeOK, Locks
  <2>4. QED
    BY <2>1, <2>2, <2>3 DEF SpinExclusion
<1>4. CASE LogEnd(t)
  <2>1. PICK l \in DOMAIN AfterLog : pc[t] = l /\ Goto(t, AfterLog[l])
    BY <1>4 DEF LogEnd, At
  <2>2. \A s \in Threads : pc'[s] \in MgmtLabels => pc[s] \in MgmtLabels
    BY <2>1, Tables DEF Goto, TypeOK
  <2>3. t \in printing /\ printing' = printing \ {t}
        /\ locks'[Mgmt] = locks[Mgmt]
    BY <1>4 DEF LogEnd, Release, TypeOK, Locks
  <2>4. ASSUME NEW s \in Threads PROVE s \notin printing'
    BY <2>3 DEF SpinExclusion
  <2>5. QED
    BY <2>2, <2>3, <2>4 DEF SpinExclusion
<1>5. CASE CreateSet(t) \/ Insert(t) \/ InsertNext(t) \/ InsertPrev(t)
           \/ WakeTest(t) \/ WakeDel(t) \/ WakeDelNext(t) \/ WakeDelPrev(t)
           \/ SleepSet(t) \/ ExitSet(t)
  <2>1. pc[t] \in MgmtLabels
    BY <1>5 DEF CreateSet, Insert, InsertNext, InsertPrev, WakeTest, WakeDel,
                WakeDelNext, WakeDelPrev, SleepSet, ExitSet, At, MgmtLabels
  <2>2. UNCHANGED locks /\ UNCHANGED printing
    BY <1>5 DEF CreateSet, Insert, InsertNext, InsertPrev, WakeTest, WakeDel,
                WakeDelNext, WakeDelPrev, SleepSet, ExitSet
  <2>3. \E l : Goto(t, l)
    BY <1>5 DEF CreateSet, Insert, InsertNext, InsertPrev, WakeTest, WakeDel,
                WakeDelNext, WakeDelPrev, SleepSet, ExitSet
  <2>4. \A s \in Threads : pc'[s] \in MgmtLabels => pc[s] \in MgmtLabels
    BY <2>1, <2>3 DEF Goto, TypeOK
  <2>5. QED
    BY <2>2, <2>4, SpinFrame
<1>6. CASE Spin(t) \/ WaitSpin(t)
  BY <1>6, SpinFrame DEF Spin, WaitSpin
<1>7. CASE SleepYield(t) \/ ExitYield(t) \/ WaitDone(t) \/ WaitFree(t)
           \/ MutexTry(t) \/ MutexEnqueue(t) \/ MutexInit(t) \/ MutexNotify(t)
  <2>1. UNCHANGED locks /\ UNCHANGED printing
    BY <1>7 DEF SleepYield, ExitYield, WaitDone, WaitFree, MutexTry,
                MutexEnqueue, MutexInit, MutexNotify
  <2>2. \E l \in Labels \ MgmtLabels : Goto(t, l)
    <3>1. {"mlock_try", "mlock_log", "mlock_first_log"} \subseteq Labels \ MgmtLabels
      BY LabelTypes DEF MutexLabels
    <3>2. CASE MutexTry(t)
      BY <3>1, <3>2, LabelTypes DEF MutexTry, LeaveMutex
    <3>3. CASE ~MutexTry(t)
      BY <1>7, <3>1, <3>3, LabelTypes DEF SleepYield, ExitYield, WaitDone,
         WaitFree, MutexEnqueue, MutexInit, MutexNotify, LeaveMutex
    <3>4. QED
      BY <3>2, <3>3
  <2>3. \A s \in Threads : pc'[s] \in MgmtLabels => pc[s] \in MgmtLabels
    BY <2>2 DEF Goto, TypeOK
  <2>4. QED
    BY <2>1, <2>3, SpinFrame
<1>8. QED
  BY <1>1, <1>2, <1>3, <1>4, <1>5, <1>6, <1>7 DEF Kernel

LEMMA SpinStep == TypeOK /\ SpinExclusion /\ [Next]_vars => SpinExclusion'
<1> SUFFICES ASSUME TypeOK, SpinExclusion, [Next]_vars PROVE SpinExclusion'
  OBVIOUS
<1>1. CASE Tick
  BY <1>1, SpinFrame DEF Tick
<1>2. CASE UNCHANGED vars
  BY <1>2, SpinFrame DEF vars
<1>3. QED
  BY <1>1, <1>2, ClientSpin, KernelSpin DEF Next, Hlt

(* spin_lock and spin_unlock exclude wherever the timer fires.             *)
THEOREM SpinLocksExclude == Spec => []SpinExclusion
<1>1. Init => SpinExclusion
  BY LabelTypes DEF Init, SpinExclusion
<1>2. QED
  BY <1>1, SpinStep, TypeCorrect, PTL DEF Spec

-----------------------------------------------------------------------------
(* The mutex.  MutexExclusion is not inductive: the first mutex_lock ever  *)
(* raises mutex.locked, logs, and only then records the owner.  MutexInv   *)
(* adds that meanwhile nobody else is in or on its way in.                 *)

First == {"mlock_first_log", "mlock_init"}

MutexInv ==
  /\ mutex.locked = 0 => mutex.owner = NULL
  /\ MutexExclusion
  /\ \A t \in Threads : pc[t] \in First =>
       /\ mutex.locked > held[t]
       /\ mutex.owner \in {NULL, t}
       /\ \A s \in Threads \ {t} : held[s] = 0 /\ pc[s] \notin First

LEMMA MutexFrame ==
  ASSUME MutexInv, UNCHANGED mutex,
         \A s \in Threads : held'[s] = held[s] \/ held'[s] = 0,
         \A s \in Threads : pc'[s] \in First => pc[s] \in First,
         TypeOK, TypeOK'
  PROVE  MutexInv'
<1>1. mutex.locked \in Nat /\ mutex' = mutex
      /\ \A s \in Threads : held[s] \in Nat /\ held'[s] \in Nat
  BY DEF TypeOK
<1>2. (mutex.locked = 0 => mutex.owner = NULL)'
  BY <1>1 DEF MutexInv
<1>3. MutexExclusion'
  <2> SUFFICES ASSUME NEW s \in Threads, held'[s] > 0
               PROVE  mutex.owner = s /\ mutex.locked >= held'[s]
    BY <1>1 DEF MutexExclusion
  <2>1. held'[s] = held[s]
    BY <1>1
  <2>2. QED
    BY <2>1 DEF MutexInv, MutexExclusion
<1>4. ASSUME NEW s \in Threads, pc'[s] \in First
      PROVE  /\ mutex.locked > held'[s]
             /\ mutex.owner \in {NULL, s}
             /\ \A r \in Threads \ {s} : held'[r] = 0 /\ pc'[r] \notin First
  <2>1. pc[s] \in First
    BY <1>4
  <2>2. /\ mutex.locked > held[s]
        /\ mutex.owner \in {NULL, s}
        /\ \A r \in Threads \ {s} : held[r] = 0 /\ pc[r] \notin First
    BY <2>1 DEF MutexInv
  <2>3. mutex.locked > held'[s]
    BY <1>1, <2>2
  <2>4. \A r \in Threads \ {s} : held'[r] = 0 /\ pc'[r] \notin First
    BY <2>2
  <2>5. QED
    BY <2>2, <2>3, <2>4
<1>5. QED
  BY <1>1, <1>2, <1>3, <1>4 DEF MutexInv

(* Only MutexTry leads into First.                                         *)
LEMMA FirstFrame ==
  ASSUME TypeOK, NEW t \in Threads, Goto(t, "user") \/ \E l : l \notin First /\ Goto(t, l)
  PROVE  \A s \in Threads : pc'[s] \in First => pc[s] \in First
BY DEF Goto, First, TypeOK

LEMMA ClientMutex ==
  ASSUME TypeOK, TypeOK', MutexInv, NEW t \in Threads, Call(t)
  PROVE  MutexInv'
<1> USE DEF userVars
<1>1. CASE CallYield(t)
  BY <1>1, MutexFrame DEF CallYield
<1>2. CASE CallPrintf(t) \/ CallSleep(t) \/ CallExit(t) \/ CallMutexLock(t)
  <2>1. UNCHANGED mutex /\ UNCHANGED held /\ \E l : l \notin First /\ Goto(t, l)
    BY <1>2 DEF CallPrintf, CallSleep, CallExit, CallMutexLock, First
  <2>2. QED
    BY <2>1, FirstFrame, MutexFrame
<1>3. CASE CallMutexUnlock(t)
  <2>1. /\ held[t] > 0 /\ pc[t] = "user"
        /\ held' = [held EXCEPT ![t] = @ - 1]
    BY <1>3 DEF CallMutexUnlock, InUser, At
  <2>2. mutex.owner = t /\ mutex.locked >= held[t]
        /\ mutex.locked \in Nat /\ held[t] \in Nat
    BY <2>1 DEF MutexInv, MutexExclusion, TypeOK
  <2>3. \A s \in Threads \ {t} : held[s] = 0 /\ held'[s] = 0
    BY <2>1, <2>2 DEF MutexInv, MutexExclusion, TypeOK
  <2>4. \A s \in Threads : pc[s] \notin First
    <3>1. pc[t] \notin First
      BY <2>1 DEF First
    <3>2. ASSUME NEW s \in Threads \ {t} PROVE pc[s] \notin First
      BY <2>1, <3>2 DEF MutexInv
    <3>3. QED
      BY <3>1, <3>2
  <2>5. \A s \in Threads : pc'[s] \notin First
    <3>1. pc' = pc \/ \E l : l \notin First /\ Goto(t, l)
      BY <1>3 DEF CallMutexUnlock, First
    <3>2. QED
      BY <2>4, <3>1, FirstFrame
  <2>6. \/ UNCHANGED mutex
        \/ /\ mutex'.locked = mutex.locked - 1
           /\ mutex'.owner = IF mutex.locked = 1 THEN NULL ELSE t
    BY <1>3 DEF CallMutexUnlock
  <2>7. held'[t] = held[t] - 1
    BY <2>1 DEF TypeOK
  <2>8. QED
    BY <2>2, <2>3, <2>5, <2>6, <2>7 DEF MutexInv, MutexExclusion
<1>4. ASSUME NEW u \in Threads, CallCreate(t, u) PROVE MutexInv'
  <2>1. UNCHANGED mutex /\ held' = [held EXCEPT ![u] = 0]
        /\ pc' = [pc EXCEPT ![t] = "create_lock", ![u] = "user"]
    BY <1>4 DEF CallCreate
  <2>2. \A s \in Threads : pc'[s] \in First => pc[s] \in First
    BY <2>1 DEF First, TypeOK
  <2>3. \A s \in Threads : held'[s] = held[s] \/ held'[s] = 0
    BY <2>1 DEF TypeOK
  <2>4. QED
    BY <2>1, <2>2, <2>3, MutexFrame
<1>5. ASSUME NEW u \in Threads, CallWake(t, u) \/ CallWait(t, u) PROVE MutexInv'
  <2>1. UNCHANGED mutex /\ UNCHANGED held /\ \E l : l \notin First /\ Goto(t, l)
    BY <1>5 DEF CallWake, CallWait, CallOn, First
  <2>2. QED
    BY <2>1, FirstFrame, MutexFrame
<1>6. QED
  BY <1>1, <1>2, <1>3, <1>4, <1>5 DEF Call

LEMMA KernelMutex ==
  ASSUME TypeOK, TypeOK', MutexInv, NEW t \in Threads, Kernel(t)
  PROVE  MutexInv'
<1> USE DEF userVars
<1>1. CASE MutexTry(t)
  <2>1. pc[t] = "mlock_try"
    BY <1>1 DEF MutexTry, At
  <2>2. ASSUME MutexAvailable(t)
        PROVE  \A s \in Threads \ {t} : held[s] = 0 /\ pc[s] \notin First
    <3>1. mutex.locked = 0 \/ mutex.owner = t
      BY <2>2 DEF MutexAvailable
    <3>2. ASSUME NEW s \in Threads \ {t} PROVE held[s] = 0 /\ pc[s] \notin First
      <4>1. held[s] \in Nat /\ mutex.locked \in Nat /\ t # NULL
        BY ConstantsOK DEF TypeOK, Nodes
      <4>2. held[s] = 0
        BY <3>1, <4>1 DEF MutexInv, MutexExclusion
      <4>3. pc[s] \notin First
        BY <3>1, <4>1 DEF MutexInv
      <4>4. QED
        BY <4>2, <4>3
    <3>3. QED
      BY <3>2
  <2>3. CASE ~MutexAvailable(t)
    <3>1. UNCHANGED mutex /\ UNCHANGED held /\ Goto(t, "mlock_log")
      BY <1>1, <2>3 DEF MutexTry
    <3>2. "mlock_log" \notin First
      BY DEF First
    <3>3. QED
      BY <3>1, <3>2, FirstFrame, MutexFrame
  <2>4. CASE MutexAvailable(t) /\ links.next[MutexHead] = NULL
    <3>1. /\ mutex' = [locked |-> mutex.locked + 1, owner |-> mutex.owner]
          /\ UNCHANGED held /\ Goto(t, "mlock_first_log")
      BY <1>1, <2>4 DEF MutexTry
    <3>2. mutex.owner \in {NULL, t} /\ mutex.locked >= held[t]
          /\ mutex.locked \in Nat /\ held[t] \in Nat
      BY <2>4 DEF MutexAvailable, MutexInv, MutexExclusion, TypeOK
    <3>3. \A s \in Threads \ {t} : pc'[s] \notin First
      BY <2>2, <2>4, <3>1 DEF Goto, TypeOK
    <3>4. mutex'.locked = mutex.locked + 1 /\ mutex'.owner = mutex.owner
      BY <3>1
    <3>5. QED
      BY <2>2, <2>4, <3>1, <3>2, <3>3, <3>4 DEF MutexInv, MutexExclusion
  <2>5. CASE MutexAvailable(t) /\ links.next[MutexHead] # NULL
    <3>1. /\ mutex'.locked = mutex.locked + 1 /\ mutex'.owner = t
          /\ held' = [held EXCEPT ![t] = @ + 1]
          /\ Goto(t, "user")
      BY <1>1, <2>5 DEF MutexTry, LockedBy, LeaveMutex
    <3>2. \A s \in Threads : pc'[s] \notin First
      BY <2>1, <2>2, <2>5, <3>1 DEF Goto, TypeOK, First
    <3>3. held'[t] = held[t] + 1 /\ \A s \in Threads \ {t} : held'[s] = 0
      BY <2>2, <2>5, <3>1 DEF TypeOK
    <3>4. mutex.locked >= held[t] /\ mutex.locked \in Nat /\ held[t] \in Nat
      BY DEF MutexInv, MutexExclusion, TypeOK
    <3>5. QED
      BY <3>1, <3>2, <3>3, <3>4 DEF MutexInv, MutexExclusion
  <2>6. QED
    BY <2>3, <2>4, <2>5
<1>2. CASE MutexInit(t)
  <2>1. /\ pc[t] \in First
        /\ mutex'.locked = mutex.locked /\ mutex'.owner = t
        /\ held' = [held EXCEPT ![t] = @ + 1]
        /\ Goto(t, "user")
    BY <1>2 DEF MutexInit, At, First, LeaveMutex
  <2>2. mutex.locked > held[t] /\ mutex.locked \in Nat /\ held[t] \in Nat
        /\ \A s \in Threads \ {t} : held[s] = 0 /\ pc[s] \notin First
    BY <2>1 DEF MutexInv, TypeOK
  <2>3. held'[t] = held[t] + 1 /\ \A s \in Threads \ {t} : held'[s] = 0
    BY <2>1, <2>2 DEF TypeOK
  <2>4. \A s \in Threads : pc'[s] \notin First
    BY <2>1, <2>2 DEF Goto, TypeOK, First
  <2>5. QED
    BY <2>1, <2>2, <2>3, <2>4 DEF MutexInv, MutexExclusion
<1>3. CASE LogEnd(t)
  <2>1. UNCHANGED mutex /\ UNCHANGED held
    BY <1>3 DEF LogEnd
  <2>2. PICK l \in DOMAIN AfterLog : pc[t] = l /\ Goto(t, AfterLog[l])
    BY <1>3 DEF LogEnd, At
  <2>3. AfterLog[l] \in First => l \in First
    BY DEF AfterLog, First
  <2>4. \A s \in Threads : pc'[s] \in First => pc[s] \in First
    BY <2>2, <2>3 DEF Goto, TypeOK
  <2>5. QED
    BY <2>1, <2>4, MutexFrame
<1>4. CASE Spin(t) \/ LogBegin(t) \/ WaitSpin(t)
  BY <1>4, MutexFrame DEF Spin, LogBegin, WaitSpin
<1>5. CASE LockMgmt(t)
  <2>1. UNCHANGED mutex /\ UNCHANGED held
    BY <1>5 DEF LockMgmt
  <2>2. \E l \in DOMAIN AfterLock : Goto(t, AfterLock[l])
    BY <1>5 DEF LockMgmt
  <2>3. \E l : l \notin First /\ Goto(t, l)
    BY <2>2 DEF AfterLock, First
  <2>4. QED
    BY <2>1, <2>3, FirstFrame, MutexFrame
<1>6. CASE UnlockMgmt(t)
  <2>1. UNCHANGED mutex /\ UNCHANGED held
    BY <1>6 DEF UnlockMgmt
  <2>2. \E l \in DOMAIN AfterUnlock : Goto(t, AfterUnlock[l])
    BY <1>6 DEF UnlockMgmt
  <2>3. \E l : l \notin First /\ Goto(t, l)
    BY <2>2 DEF AfterUnlock, First
  <2>4. QED
    BY <2>1, <2>3, FirstFrame, MutexFrame
<1>7. CASE CreateSet(t) \/ Insert(t) \/ InsertNext(t) \/ InsertPrev(t)
           \/ WakeTest(t) \/ WakeDel(t) \/ WakeDelNext(t) \/ WakeDelPrev(t)
           \/ SleepSet(t) \/ ExitSet(t)
  <2>1. UNCHANGED mutex /\ UNCHANGED held
    BY <1>7 DEF CreateSet, Insert, InsertNext, InsertPrev, WakeTest, WakeDel,
                WakeDelNext, WakeDelPrev, SleepSet, ExitSet
  <2>2. \E l : l \notin First /\ Goto(t, l)
    BY <1>7 DEF CreateSet, Insert, InsertNext, InsertPrev, WakeTest, WakeDel,
                WakeDelNext, WakeDelPrev, SleepSet, ExitSet, First
  <2>3. QED
    BY <2>1, <2>2, FirstFrame, MutexFrame
<1>8. CASE SleepYield(t) \/ ExitYield(t) \/ WaitDone(t) \/ WaitFree(t)
           \/ MutexEnqueue(t) \/ MutexNotify(t)
  <2>1. UNCHANGED mutex /\ UNCHANGED held
    BY <1>8 DEF SleepYield, ExitYield, WaitDone, WaitFree, MutexEnqueue,
                MutexNotify
  <2>2. \E l : l \notin First /\ Goto(t, l)
    BY <1>8 DEF SleepYield, ExitYield, WaitDone, WaitFree, MutexEnqueue,
                MutexNotify, LeaveMutex, First
  <2>3. QED
    BY <2>1, <2>2, FirstFrame, MutexFrame
<1>9. QED
  BY <1>1, <1>2, <1>3, <1>4, <1>5, <1>6, <1>7, <1>8 DEF Kernel

LEMMA MutexStep == TypeOK /\ TypeOK' /\ MutexInv /\ [Next]_vars => MutexInv'
<1> SUFFICES ASSUME TypeOK, TypeOK', MutexInv, [Next]_vars PROVE MutexInv'
  OBVIOUS
<1>1. CASE Tick
  BY <1>1, MutexFrame DEF Tick
<1>2. CASE UNCHANGED vars
  BY <1>2, MutexFrame DEF vars
<1>3. QED
  BY <1>1, <1>2, ClientMutex, KernelMutex DEF Next, Hlt

LEMMA MutexInvariant == Spec => []MutexInv
<1>1. Init => MutexInv
  BY DEF Init, MutexInv, MutexExclusion, First
<1>2. QED
  BY <1>1, MutexStep, TypeCorrect, PTL DEF Spec

(* The mutex excludes, also during the first lock of its life.             *)
THEOREM MutexExcludes == Spec => []MutexExclusion
BY MutexInvariant, PTL DEF MutexInv

-----------------------------------------------------------------------------
(* The assertions: a lock is released by its owner only.                   *)

LEMMA AssertStep ==
  TypeOK /\ SpinExclusion /\ MutexInv /\ NeverDies /\ [Next]_vars => NeverDies'
<1> SUFFICES ASSUME TypeOK, SpinExclusion, MutexInv, NeverDies, [Next]_vars
             PROVE  NeverDies'
  OBVIOUS
<1> USE DEF NeverDies, cpuVars
<1>1. \A ts, ls : Switch(ts, ls) => halted' # "die"
  BY DEF Switch
<1>2. ASSUME NEW t \in Threads, Call(t) PROVE halted' # "die"
  <2>1. CASE CallMutexUnlock(t)
    <3>1. mutex.owner = t /\ mutex.locked # 0
      BY <2>1 DEF CallMutexUnlock, MutexInv, MutexExclusion, TypeOK
    <3>2. QED
      BY <2>1, <3>1 DEF CallMutexUnlock
  <2>2. CASE ~CallMutexUnlock(t)
    BY <1>1, <1>2, <2>2 DEF Call, CallYield, CallPrintf, CallSleep, CallExit,
       CallMutexLock, CallCreate, CallWake, CallWait, CallOn
  <2>3. QED
    BY <2>1, <2>2
<1>3. ASSUME NEW t \in Threads, Kernel(t) PROVE halted' # "die"
  <2>1. CASE UnlockMgmt(t)
    <3>1. pc[t] \in MgmtLabels
      BY <2>1, Tables DEF UnlockMgmt, At
    <3>2. QED
      BY <2>1, <3>1 DEF UnlockMgmt, Release, SpinExclusion
  <2>2. CASE LogEnd(t)
    BY <2>2 DEF LogEnd, Release, SpinExclusion
  <2>3. CASE \/ Spin(t) \/ SleepYield(t) \/ ExitYield(t) \/ WaitSpin(t)
             \/ MutexEnqueue(t)
    BY <1>1, <2>3 DEF Spin, SleepYield, ExitYield, WaitSpin, MutexEnqueue
  <2>4. CASE \/ LockMgmt(t) \/ LogBegin(t) \/ CreateSet(t) \/ Insert(t)
             \/ InsertNext(t) \/ InsertPrev(t) \/ WakeTest(t) \/ WakeDel(t)
             \/ WakeDelNext(t) \/ WakeDelPrev(t) \/ SleepSet(t) \/ ExitSet(t)
             \/ WaitDone(t) \/ WaitFree(t) \/ MutexTry(t) \/ MutexInit(t)
             \/ MutexNotify(t)
    BY <2>4 DEF LockMgmt, LogBegin, CreateSet, Insert, InsertNext, InsertPrev,
       WakeTest, WakeDel, WakeDelNext, WakeDelPrev, SleepSet, ExitSet,
       WaitDone, WaitFree, MutexTry, MutexInit, MutexNotify
  <2>5. QED
    BY <1>3, <2>1, <2>2, <2>3, <2>4 DEF Kernel
<1>4. CASE Tick
  BY <1>1, <1>4 DEF Tick
<1>5. CASE UNCHANGED vars
  BY <1>5 DEF vars
<1>6. QED
  BY <1>2, <1>3, <1>4, <1>5 DEF Next, Hlt

(* No assertion of spin_unlock or mutex_unlock can fail.                   *)
THEOREM AssertionsHold == Spec => []NeverDies
<1>1. Init => NeverDies
  BY DEF Init, NeverDies
<1>2. QED
  BY <1>1, AssertStep, TypeCorrect, SpinLocksExclude, MutexInvariant, PTL
     DEF Spec

-----------------------------------------------------------------------------
(* Interrupt flags.  FlagRestored needs what the functions saved: the      *)
(* rflags of spin_lock while it waits, those of the mutex functions.       *)

Wants(t) == \/ pc[t] \in DOMAIN AfterLock
            \/ pc[t] \in DOMAIN AfterLog /\ t \notin printing

FlagInv ==
  /\ FlagRestored
  /\ \A t \in spinning : Wants(t) /\ (spinIF[t] <=> pc[t] \notin MutexLabels)
  /\ \A t \in Threads : pc[t] \in MutexLabels => mutexIF[t]

(* Labels at which no spin lock is about to be taken.                      *)
Quiet == Labels \ (DOMAIN AfterLock \cup DOMAIN AfterLog)

LEMMA QuietLabels ==
  /\ {"user", "create_set", "insert", "insert1", "insert2", "insert_unlock",
      "wake_test", "wake_del", "wake_del1", "wake_del2", "sleep_set",
      "sleep_unlock", "sleep_yield", "exit_set", "exit_unlock", "exit_yield",
      "wait_loop", "wait_free"} \subseteq Quiet \ MutexLabels
  /\ {"mlock_try", "mlock_enqueue", "mlock_init", "munlock_notify"}
       \subseteq Quiet \cap MutexLabels
  /\ DOMAIN AfterLock \cap DOMAIN AfterLog = {}
  /\ DOMAIN AfterLock \cap MutexLabels = {}
BY DEF Quiet, AfterLock, AfterLog, MgmtLabels, MutexLabels, Labels

(* A step of t that touches no flag, from a quiet label to one of the same *)
(* kind.                                                                   *)
LEMMA FlagFrame ==
  ASSUME TypeOK, FlagInv, NEW t \in Threads, pc[t] \in Quiet,
         UNCHANGED <<intr, spinning, spinIF, mutexIF, printing>>,
         NEW l \in Labels, l \in MutexLabels <=> pc[t] \in MutexLabels,
         Goto(t, l)
  PROVE  FlagInv'
<1>1. t \notin spinning
  BY DEF FlagInv, Wants, Quiet
<1>2. pc'[t] = l /\ \A s \in Threads \ {t} : pc'[s] = pc[s]
  BY DEF Goto, TypeOK
<1>3. spinning \subseteq Threads
  BY DEF TypeOK
<1>4. FlagRestored'
  BY <1>2 DEF FlagInv, FlagRestored
<1>5. ASSUME NEW s \in spinning
      PROVE  Wants(s)' /\ (spinIF'[s] <=> pc'[s] \notin MutexLabels)
  BY <1>1, <1>2, <1>3 DEF FlagInv, Wants
<1>6. QED
  BY <1>2, <1>4, <1>5 DEF FlagInv

(* A step that only switches.                                              *)
LEMMA FlagStill ==
  ASSUME FlagInv, UNCHANGED <<intr, spinning, spinIF, mutexIF, printing, pc>>
  PROVE  FlagInv'
BY DEF FlagInv, FlagRestored, Wants

(* What a step of t leaves alone in another thread s.                      *)
Others(t) ==
  \A s \in Threads \ {t} :
    /\ pc'[s] = pc[s] /\ intr'[s] = intr[s] /\ spinIF'[s] = spinIF[s]
    /\ mutexIF'[s] = mutexIF[s]
    /\ s \in spinning' <=> s \in spinning
    /\ s \in printing' <=> s \in printing

(* What t itself has to meet after its step.                               *)
Own(t) ==
  /\ intr[t] = (t \notin spinning /\ pc[t] \notin MutexLabels)
  /\ t \in spinning => Wants(t) /\ (spinIF[t] <=> pc[t] \notin MutexLabels)
  /\ pc[t] \in MutexLabels => mutexIF[t]

LEMMA FlagSplit ==
  ASSUME TypeOK, TypeOK', FlagInv, NEW t \in Threads, Others(t), Own(t)'
  PROVE  FlagInv'
<1>1. \A s \in Threads \ {t} : Own(s)'
  <2> SUFFICES ASSUME NEW s \in Threads \ {t} PROVE Own(s)'
    OBVIOUS
  <2>1. /\ pc'[s] = pc[s] /\ intr'[s] = intr[s] /\ spinIF'[s] = spinIF[s]
        /\ mutexIF'[s] = mutexIF[s]
        /\ s \in spinning' <=> s \in spinning
        /\ s \in printing' <=> s \in printing
    BY DEF Others
  <2>2. Own(s)
    BY DEF FlagInv, FlagRestored, Own
  <2>3. QED
    BY <2>1, <2>2 DEF Own, Wants
<1>2. spinning' \subseteq Threads
  BY DEF TypeOK
<1>3. QED
  BY <1>1, <1>2 DEF FlagInv, FlagRestored, Own

LEMMA QuietOwn ==
  ASSUME FlagInv, NEW t \in Threads, pc[t] \in Quiet
  PROVE  t \notin spinning /\ intr[t] = (pc[t] \notin MutexLabels)
BY DEF FlagInv, FlagRestored, Wants, Quiet

LEMMA ClientFlags ==
  ASSUME TypeOK, TypeOK', FlagInv, NEW t \in Threads, Call(t)
  PROVE  FlagInv'
<1>1. pc[t] = "user" /\ pc[t] \in Quiet /\ pc[t] \notin MutexLabels
      /\ t \notin spinning /\ intr[t] = TRUE
  <2>1. pc[t] = "user"
    BY DEF Call, CallYield, CallPrintf, CallSleep, CallExit, CallMutexLock,
           CallMutexUnlock, CallCreate, CallWake, CallWait, CallOn, InUser, At
  <2>2. QED
    BY <2>1, QuietLabels, QuietOwn
<1>2. CASE CallYield(t)
  BY <1>2, FlagStill DEF CallYield, flagVars
<1>3. CASE CallPrintf(t) \/ CallSleep(t) \/ CallExit(t)
           \/ \E u \in Threads : CallWake(t, u) \/ CallWait(t, u)
  <2>1. UNCHANGED <<intr, spinning, spinIF, mutexIF, printing>>
    BY <1>3 DEF CallPrintf, CallSleep, CallExit, CallWake, CallWait, CallOn,
                flagVars
  <2>2. \E l \in {"printf_log", "sleep_lock", "exit_lock", "wake_lock",
                  "wait_loop"} : Goto(t, l)
    BY <1>3 DEF CallPrintf, CallSleep, CallExit, CallWake, CallWait, CallOn
  <2>3. {"printf_log", "sleep_lock", "exit_lock", "wake_lock", "wait_loop"}
          \subseteq Labels \ MutexLabels
    BY DEF Labels, MutexLabels, AfterLock
  <2>4. QED
    BY <1>1, <2>1, <2>2, <2>3, FlagFrame
<1>4. CASE CallMutexLock(t)
  <2>1. /\ mutexIF' = [mutexIF EXCEPT ![t] = intr[t]]
        /\ intr' = [intr EXCEPT ![t] = FALSE]
        /\ Goto(t, "mlock_try") /\ UNCHANGED <<spinning, spinIF, printing>>
    BY <1>4 DEF CallMutexLock
  <2>2. Others(t)
    BY <2>1 DEF Others, Goto, TypeOK
  <2>3. /\ intr'[t] = FALSE /\ mutexIF'[t] = TRUE
        /\ pc'[t] = "mlock_try" /\ t \notin spinning'
    BY <1>1, <2>1 DEF Goto, TypeOK
  <2>4. "mlock_try" \in MutexLabels
    BY DEF MutexLabels
  <2>5. Own(t)'
    BY <2>3, <2>4, Zenon DEF Own
  <2>6. QED
    BY <2>2, <2>5, FlagSplit
<1>5. CASE CallMutexUnlock(t)
  <2>1. UNCHANGED <<spinning, spinIF, printing>>
    BY <1>5 DEF CallMutexUnlock
  <2>2. \/ UNCHANGED <<pc, intr, mutexIF>>
        \/ /\ mutexIF' = [mutexIF EXCEPT ![t] = Notifies /\ intr[t]]
           /\ intr' = [intr EXCEPT ![t] = @ /\ ~Notifies]
           /\ Goto(t, IF Notifies THEN "munlock_log" ELSE "user")
    BY <1>5 DEF CallMutexUnlock
  <2>3. CASE UNCHANGED <<pc, intr, mutexIF>>
    BY <2>1, <2>3, FlagStill
  <2>4. CASE ~ UNCHANGED <<pc, intr, mutexIF>>
    <3>1. Others(t)
      BY <2>1, <2>2, <2>4 DEF Others, Goto, TypeOK
    <3>2. "munlock_log" \in MutexLabels
      BY DEF MutexLabels
    <3>3. Notifies \in BOOLEAN
      BY DEF Notifies
    <3>4. CASE Notifies
      <4>1. /\ intr'[t] = FALSE /\ mutexIF'[t] = TRUE
            /\ pc'[t] = "munlock_log" /\ t \notin spinning'
        BY <1>1, <2>1, <2>2, <2>4, <3>4 DEF Goto, TypeOK
      <4>2. Own(t)'
        BY <3>2, <4>1, Zenon DEF Own
      <4>3. QED
        BY <3>1, <4>2, FlagSplit
    <3>5. CASE ~Notifies
      <4>1. intr'[t] = TRUE /\ pc'[t] = "user" /\ t \notin spinning'
        BY <1>1, <2>1, <2>2, <2>4, <3>5 DEF Goto, TypeOK
      <4>2. Own(t)'
        BY <1>1, <4>1, Zenon DEF Own
      <4>3. QED
        BY <3>1, <4>2, FlagSplit
    <3>6. QED
      BY <3>4, <3>5
  <2>5. QED
    BY <2>3, <2>4
<1>6. ASSUME NEW u \in Threads, CallCreate(t, u) PROVE FlagInv'
  <2>1. /\ intr' = [intr EXCEPT ![u] = TRUE]
        /\ pc' = [pc EXCEPT ![t] = "create_lock", ![u] = "user"]
        /\ spinning' = spinning \ {u} /\ printing' = printing \ {u}
        /\ UNCHANGED <<spinIF, mutexIF>>
    BY <1>6 DEF CallCreate
  <2>2. "create_lock" \notin MutexLabels /\ "user" \notin MutexLabels
    BY DEF MutexLabels
  <2>3. ASSUME NEW s \in Threads PROVE Own(s)'
    <3>1. CASE s = u
      BY <2>1, <2>2, <3>1 DEF Own, TypeOK
    <3>2. CASE s # u /\ s = t
      BY <1>1, <2>1, <2>2, <3>2 DEF Own, TypeOK
    <3>3. CASE s # u /\ s # t
      <4>1. /\ pc'[s] = pc[s] /\ intr'[s] = intr[s]
            /\ spinIF'[s] = spinIF[s] /\ mutexIF'[s] = mutexIF[s]
            /\ s \in spinning' <=> s \in spinning
            /\ s \in printing' <=> s \in printing
        BY <2>1, <3>3 DEF TypeOK
      <4>2. Own(s)
        BY DEF Own, FlagInv, FlagRestored
      <4>3. QED
        BY <4>1, <4>2 DEF Own, Wants
    <3>4. QED
      BY <3>1, <3>2, <3>3
  <2>4. spinning' \subseteq Threads
    BY DEF TypeOK
  <2>5. QED
    BY <2>3, <2>4 DEF Own, FlagInv, FlagRestored
<1>7. QED
  BY <1>2, <1>3, <1>4, <1>5, <1>6 DEF Call

(* The end of spin_lock gives back the flags it found.                     *)
LEMMA AcquireFlags ==
  ASSUME TypeOK, FlagInv, NEW t \in Threads, NEW l, Acquire(t, l)
  PROVE  /\ intr'[t] = (pc[t] \notin MutexLabels) /\ t \notin spinning'
         /\ \A s \in Threads \ {t} :
              /\ intr'[s] = intr[s] /\ spinIF'[s] = spinIF[s]
              /\ s \in spinning' <=> s \in spinning
<1>1. intr'[t] = IF t \in spinning THEN spinIF[t] ELSE intr[t]
  BY DEF Acquire, TypeOK
<1>2. t \in spinning => spinIF[t] = (pc[t] \notin MutexLabels)
  BY DEF FlagInv, TypeOK
<1>3. t \notin spinning => intr[t] = (pc[t] \notin MutexLabels)
  BY DEF FlagInv, FlagRestored
<1>4. intr'[t] = (pc[t] \notin MutexLabels)
  BY <1>1, <1>2, <1>3
<1>5. QED
  BY <1>4 DEF Acquire, TypeOK

LEMMA KernelFlags ==
  ASSUME TypeOK, TypeOK', FlagInv, NEW t \in Threads, Kernel(t)
  PROVE  FlagInv'
<1> USE DEF flagVars
<1>1. CASE Spin(t)
  <2>1. /\ intr' = [intr EXCEPT ![t] = FALSE]
        /\ spinIF' = [spinIF EXCEPT ![t] =
                        IF t \in spinning THEN @ ELSE intr[t]]
        /\ spinning' = spinning \cup {t}
        /\ UNCHANGED <<mutexIF, pc, printing>>
    BY <1>1 DEF Spin
  <2>2. Others(t)
    BY <2>1 DEF Others, TypeOK
  <2>3. Wants(t)
    BY <1>1 DEF Spin, Wanted, Wants
  <2>4. intr'[t] = FALSE /\ t \in spinning'
        /\ spinIF'[t] = IF t \in spinning THEN spinIF[t] ELSE intr[t]
    BY <2>1 DEF TypeOK
  <2>5. spinIF'[t] <=> pc[t] \notin MutexLabels
    <3>1. CASE t \in spinning
      BY <2>4, <3>1 DEF FlagInv
    <3>2. CASE t \notin spinning
      BY <2>4, <3>2 DEF FlagInv, FlagRestored
    <3>3. QED
      BY <3>1, <3>2
  <2>6. Own(t)'
    <3>1. pc' = pc /\ printing' = printing /\ mutexIF' = mutexIF
      BY <2>1
    <3>2. pc[t] \in MutexLabels => mutexIF[t]
      BY DEF FlagInv
    <3>3. QED
      BY <2>3, <2>4, <2>5, <3>1, <3>2 DEF Own, Wants
  <2>7. QED
    BY <2>2, <2>6, FlagSplit
<1>2. CASE LockMgmt(t)
  <2>1. PICK l \in DOMAIN AfterLock : pc[t] = l /\ Goto(t, AfterLock[l])
                                      /\ Acquire(t, "threads_mgmt_lock")
    BY <1>2 DEF LockMgmt, At
  <2>2. UNCHANGED <<mutexIF, printing>>
    BY <1>2 DEF LockMgmt
  <2>3. pc'[t] = AfterLock[l] /\ \A s \in Threads \ {t} : pc'[s] = pc[s]
    BY <2>1 DEF Goto, TypeOK
  <2>4. pc[t] \notin MutexLabels /\ pc'[t] \notin MutexLabels
    BY <2>1, <2>3 DEF AfterLock, MutexLabels
  <2>5. intr'[t] = TRUE /\ t \notin spinning'
    BY <2>1, <2>4, AcquireFlags
  <2>6. Own(t)'
    BY <2>4, <2>5, Zenon DEF Own
  <2>7. Others(t)
    BY <2>1, <2>2, <2>3, AcquireFlags DEF Others
  <2>8. QED
    BY <2>6, <2>7, FlagSplit
<1>3. CASE LogBegin(t)
  <2>1. Acquire(t, "printf_lock") /\ printing' = printing \cup {t}
        /\ UNCHANGED <<mutexIF, pc>>
    BY <1>3 DEF LogBegin
  <2>2. intr'[t] = (pc[t] \notin MutexLabels) /\ t \notin spinning'
    BY <2>1, AcquireFlags
  <2>3. pc[t] \in MutexLabels => mutexIF[t]
    BY DEF FlagInv
  <2>4. Own(t)'
    BY <2>1, <2>2, <2>3 DEF Own
  <2>5. Others(t)
    BY <2>1, AcquireFlags DEF Others
  <2>6. QED
    BY <2>4, <2>5, FlagSplit
<1>4. CASE LogEnd(t)
  <2>1. PICK l \in DOMAIN AfterLog : pc[t] = l /\ Goto(t, AfterLog[l])
    BY <1>4 DEF LogEnd, At
  <2>2. t \in printing /\ printing' = printing \ {t}
        /\ UNCHANGED <<intr, spinning, spinIF, mutexIF>>
    BY <1>4 DEF LogEnd
  <2>3. pc'[t] = AfterLog[l] /\ \A s \in Threads \ {t} : pc'[s] = pc[s]
    BY <2>1 DEF Goto, TypeOK
  <2>4. AfterLog[l] \in MutexLabels <=> l \in MutexLabels
    BY DEF AfterLog, MutexLabels
  <2>5. t \notin spinning
    BY <2>1, <2>2, QuietLabels DEF FlagInv, Wants
  <2>6. Own(t)
    BY DEF FlagInv, FlagRestored, Own
  <2>7. Own(t)'
    BY <2>1, <2>2, <2>3, <2>4, <2>5, <2>6 DEF Own
  <2>8. Others(t)
    BY <2>2, <2>3 DEF Others
  <2>9. QED
    BY <2>7, <2>8, FlagSplit
<1>5. CASE UnlockMgmt(t)
  <2>1. PICK l \in DOMAIN AfterUnlock : pc[t] = l /\ Goto(t, AfterUnlock[l])
    BY <1>5 DEF UnlockMgmt, At
  <2>2. UNCHANGED <<intr, spinning, spinIF, mutexIF, printing>>
    BY <1>5 DEF UnlockMgmt
  <2>3. l \in Quiet \ MutexLabels /\ AfterUnlock[l] \in Quiet \ MutexLabels
    BY QuietLabels DEF AfterUnlock
  <2>4. QED
    BY <2>1, <2>2, <2>3, FlagFrame DEF Quiet
<1>6. CASE CreateSet(t) \/ Insert(t) \/ InsertNext(t) \/ InsertPrev(t)
           \/ WakeTest(t) \/ WakeDel(t) \/ WakeDelNext(t) \/ WakeDelPrev(t)
           \/ SleepSet(t) \/ SleepYield(t) \/ ExitSet(t) \/ ExitYield(t)
           \/ WaitDone(t) \/ WaitFree(t)
  <2>1. UNCHANGED <<intr, spinning, spinIF, mutexIF, printing>>
    BY <1>6 DEF CreateSet, Insert, InsertNext, InsertPrev, WakeTest, WakeDel,
       WakeDelNext, WakeDelPrev, SleepSet, SleepYield, ExitSet, ExitYield,
       WaitDone, WaitFree
  <2>2. pc[t] \in Quiet \ MutexLabels
    BY <1>6, QuietLabels
       DEF CreateSet, Insert, InsertNext, InsertPrev, WakeTest, WakeDel,
       WakeDelNext, WakeDelPrev, SleepSet, SleepYield, ExitSet, ExitYield,
       WaitDone, WaitFree, At
  <2>3. {"insert", "insert1", "insert2", "insert_unlock", "wake_log",
         "wake_del1", "wake_del2", "sleep_unlock", "exit_unlock", "user",
         "exit_returned", "wait_log"} \subseteq Labels \ MutexLabels
    BY DEF Labels, MutexLabels, MgmtLabels, AfterLock
  <2>4. \E l \in Labels \ MutexLabels : Goto(t, l)
    BY <1>6, <2>3
       DEF CreateSet, Insert, InsertNext, InsertPrev, WakeTest, WakeDel,
       WakeDelNext, WakeDelPrev, SleepSet, SleepYield, ExitSet, ExitYield,
       WaitDone, WaitFree
  <2>5. QED
    BY <2>1, <2>2, <2>4, FlagFrame
<1>7. CASE WaitSpin(t)
  BY <1>7, FlagStill DEF WaitSpin
<1>8. CASE MutexTry(t) \/ MutexInit(t) \/ MutexNotify(t) \/ MutexEnqueue(t)
  <2>1. UNCHANGED <<spinning, spinIF, printing>>
    BY <1>8 DEF MutexTry, MutexInit, MutexNotify, MutexEnqueue
  <2>2. pc[t] \in Quiet \cap MutexLabels
    BY <1>8, QuietLabels DEF MutexTry, MutexInit, MutexNotify, MutexEnqueue, At
  <2>3. \/ LeaveMutex(t)
        \/ /\ UNCHANGED <<intr, mutexIF>>
           /\ \E l \in {"mlock_try", "mlock_log", "mlock_first_log"} : Goto(t, l)
    BY <1>8 DEF MutexTry, MutexInit, MutexNotify, MutexEnqueue
  <2>4. CASE LeaveMutex(t)
    <3>1. t \notin spinning /\ mutexIF[t] = TRUE
      BY <2>2, QuietOwn DEF FlagInv, TypeOK
    <3>2. intr'[t] = TRUE /\ pc'[t] = "user" /\ t \notin spinning'
      BY <2>1, <2>4, <3>1 DEF LeaveMutex, Goto, TypeOK
    <3>3. "user" \notin MutexLabels
      BY DEF MutexLabels
    <3>4. Own(t)'
      BY <3>2, <3>3, Zenon DEF Own
    <3>5. Others(t)
      BY <2>1, <2>4 DEF Others, LeaveMutex, Goto, TypeOK
    <3>6. QED
      BY <3>4, <3>5, FlagSplit
  <2>5. CASE ~LeaveMutex(t)
    <3>1. {"mlock_try", "mlock_log", "mlock_first_log"}
            \subseteq Labels \cap MutexLabels
      BY DEF Labels, MutexLabels
    <3>2. QED
      BY <2>1, <2>2, <2>3, <2>5, <3>1, FlagFrame
  <2>6. QED
    BY <2>4, <2>5
<1>9. QED
  BY <1>1, <1>2, <1>3, <1>4, <1>5, <1>6, <1>7, <1>8 DEF Kernel

LEMMA FlagStep == TypeOK /\ TypeOK' /\ FlagInv /\ [Next]_vars => FlagInv'
<1> SUFFICES ASSUME TypeOK, TypeOK', FlagInv, [Next]_vars PROVE FlagInv'
  OBVIOUS
<1>1. CASE Tick
  BY <1>1, FlagStill DEF Tick
<1>2. CASE UNCHANGED vars
  BY <1>2, FlagStill DEF vars
<1>3. QED
  BY <1>1, <1>2, ClientFlags, KernelFlags DEF Next, Hlt

LEMMA FlagInvariant == Spec => []FlagInv
<1>1. Init => FlagInv
  <2>1. "user" \notin MutexLabels
    BY DEF MutexLabels
  <2>2. QED
    BY <2>1 DEF Init, FlagInv, FlagRestored
<1>2. QED
  BY <1>1, FlagStep, TypeCorrect, PTL DEF Spec

(* No function of threading.c returns with the interrupt flag of its       *)
(* caller changed, wherever the timer fires.                               *)
THEOREM FlagsRestored == Spec => []FlagRestored
<1>1. FlagInv => FlagRestored
  BY DEF FlagInv
<1>2. QED
  BY <1>1, FlagInvariant, PTL

-----------------------------------------------------------------------------
(* The invariant.                                                          *)

(* The entries of the list h; nothing before the list is set up.           *)
Read(ls, h) == IF ls.next[h] # NULL THEN Contents(ls, h, Bound) ELSE <<>>
Q(h)        == Read(links, h)

CreateLabels == {"create_lock", "create_log", "create_set"}
ExitLabels   == {"exit_unlock", "exit_yield", "exit_returned"}
LeaveLabels  == {"wake_log", "wake_del", "wake_del1"}
LooseLabels  == {"wake_del2", "insert", "insert1"}
OwnLabels    == CreateLabels \cup LeaveLabels \cup LooseLabels
                \cup {"wake_lock", "wake_test", "insert2",
                      "wait_loop", "wait_log", "wait_free"}

(* A slot in the hands of create_thread, a thread that wake is taking off  *)
(* the sleepers, a thread that is on no list, about to be made ready.      *)
Raw(u)  == \E t \in Threads : pc[t] \in CreateLabels /\ arg[t] = u
Leaving == {arg[t] : t \in {s \in Threads : pc[s] \in LeaveLabels}}
Loose   == {arg[t] : t \in {s \in Threads : pc[s] \in LooseLabels}}

(* The lists that thread t is on: at most one.                             *)
Place(t) ==
  IF t = current \/ t \notin allocated \/ t \in Loose THEN {}
  ELSE IF t \in Leaving THEN {SleepHead}
  ELSE HomeOf(tstate[t])

Placed == \A t \in Threads, h \in Heads : t \in Members(Q(h)) <=> h \in Place(t)

(* running_threads between the stores of create_thread and wake: the ring  *)
(* that the outstanding stores will make.                                  *)
RunRing ==
  /\ pc[current] = "insert1" =>
       /\ reg[current] = <<links.prev[RunHead], RunHead>>
       /\ links.next[arg[current]] = RunHead
       /\ links.prev[arg[current]] = links.prev[RunHead]
  /\ IF pc[current] = "insert2"
     THEN /\ reg[current][2] = RunHead
          /\ Ring(SetPrev(links, RunHead, arg[current]), RunHead, Q(RunHead))
     ELSE Ring(links, RunHead, Q(RunHead))

SleepRing ==
  /\ (\A t \in Threads : pc[t] # "wake_del2") => Ring(links, SleepHead, Q(SleepHead))
  /\ \A t \in Threads :
       /\ pc[t] = "wake_del1" => reg[t] = <<links.prev[arg[t]], links.next[arg[t]]>>
       /\ pc[t] = "wake_del2" =>
            /\ reg[t][1] \in {SleepHead} \cup Members(Q(SleepHead))
            /\ reg[t][2] \in {SleepHead} \cup Members(Q(SleepHead))
            /\ Ring(SetPrev(links, reg[t][2], reg[t][1]), SleepHead, Q(SleepHead))

MutexRing == Ready(MutexHead) => Ring(links, MutexHead, Q(MutexHead))

ListInv ==
  /\ \A h \in Heads : Q(h) \in Seq(Threads)
  /\ RunRing /\ SleepRing /\ MutexRing
  /\ Placed

(* Where the processor stays with a thread.                                *)
HotLabels == {"sleep_unlock", "exit_unlock", "insert1", "insert2"}
             \cup (MutexLabels \ {"mlock_try"})

Undisturbed ==
  /\ halted = "no"
  /\ \A t \in printing : t = current /\ pc[t] \in DOMAIN AfterLog
  /\ \A t \in Threads : pc[t] \in HotLabels => t = current

(* Who may wake and wait for whom.                                         *)
Owned ==
  /\ Idle \in allocated /\ parent[Idle] = NULL
  /\ \A u \in Threads : parent[u] # u /\ parent[u] # Idle
  /\ \A t \in Threads :
       pc[t] \in OwnLabels => arg[t] \in allocated /\ parent[arg[t]] = t
  /\ pc[Idle] = "user" /\ tstate[Idle] = "RUNNING" /\ held[Idle] = 0

(* How the state of a thread and the place it stands at go together.       *)
Fits(t) ==
  /\ tstate[t] \in {"RUNNING", "SLEEPING", "WAITING"} =>
       t \in allocated /\ ~Raw(t) /\ pc[t] \notin ExitLabels
  /\ tstate[t] = "SLEEPING" => pc[t] \in {"sleep_unlock", "sleep_yield", "user"}
  /\ tstate[t] = "WAITING" => pc[t] = "mlock_try"
  /\ tstate[t] \in {"FREE", "TERMINATED"} =>
       IF t \notin allocated THEN pc[t] \in {"user", "exit_yield", "exit_returned"}
       ELSE IF Raw(t) THEN pc[t] = "user"
       ELSE tstate[t] = "TERMINATED" /\ pc[t] \in ExitLabels
  /\ pc[t] \in LeaveLabels \cup LooseLabels \cup {"insert2"} =>
       tstate[arg[t]] = "RUNNING"
  /\ pc[t] \in {"wait_log", "wait_free"} => tstate[arg[t]] = "TERMINATED"

CurrentFits ==
  /\ current \in allocated /\ current \notin Leaving \cup Loose
  /\ \/ tstate[current] = "RUNNING"
     \/ /\ tstate[current] = "SLEEPING"
        /\ pc[current] \in {"sleep_unlock", "sleep_yield"}
        /\ \A t \in Threads \ {current} : pc[t] \notin MgmtLabels
     \/ /\ tstate[current] = "TERMINATED"
        /\ pc[current] \in {"exit_unlock", "exit_yield"}

StateInv == CurrentFits /\ \A t \in Threads : Fits(t)

(* The waiters of the mutex and the thread that will notify the first.     *)
Coming(t) == \/ pc[t] \in {"munlock_log", "munlock_notify"}
             \/ pc[t] = "mlock_try" /\ tstate[t] = "RUNNING"

WaitersInv ==
  /\ pc[current] \in {"munlock_log", "munlock_notify"} =>
       Q(MutexHead) # <<>> /\ arg[current] = Q(MutexHead)[1]
  /\ pc[current] \in {"mlock_log", "mlock_enqueue"} => mutex.locked # 0
  /\ pc[current] \in First => ~Ready(MutexHead)
  /\ mutex.locked # 0 /\ ~Ready(MutexHead) => pc[current] \in First
  /\ mutex.locked = 0 /\ Q(MutexHead) # <<>> => \E t \in Threads : Coming(t)

WInv == ListInv /\ Undisturbed /\ NoOrphanLock /\ Owned /\ StateInv /\ WaitersInv

-----------------------------------------------------------------------------
(* Reading the lists.                                                      *)

LEMMA LinksArePointers == Links = Pointers(Nodes, Nodes \cup {NULL})
BY DEF Links, Pointers

LEMMA NodesAreFinite == IsFiniteSet(Nodes) /\ Bound \in Nat
<1>1. IsFiniteSet({RunHead}) /\ IsFiniteSet({SleepHead}) /\ IsFiniteSet({MutexHead})
  BY FS_Singleton
<1>2. IsFiniteSet({RunHead} \cup {SleepHead})
  BY <1>1, FS_Union
<1>3. IsFiniteSet(({RunHead} \cup {SleepHead}) \cup {MutexHead})
  BY <1>1, <1>2, FS_Union
<1>4. Heads = ({RunHead} \cup {SleepHead}) \cup {MutexHead}
  BY DEF Heads
<1>5. IsFiniteSet(Threads) /\ IsFiniteSet(Heads)
  BY <1>3, <1>4, ConstantsOK
<1>6. IsFiniteSet(Threads \cup Heads)
  BY <1>5, FS_Union
<1>7. IsFiniteSet(Nodes)
  BY <1>6 DEF Nodes
<1>8. QED
  BY <1>7, FS_CardinalityType DEF Bound

LEMMA NodeFacts ==
  /\ Threads \subseteq Nodes /\ Heads \subseteq Nodes /\ NULL \notin Nodes
  /\ Threads \cap Heads = {}
  /\ RunHead \in Heads /\ SleepHead \in Heads /\ MutexHead \in Heads
  /\ RunHead # SleepHead /\ RunHead # MutexHead /\ SleepHead # MutexHead
  /\ Main \in Threads /\ Idle \in Threads
BY ConstantsOK DEF Nodes, Heads

LEMMA ThreadSeqs == ASSUME NEW s \in Seq(Threads)
                    PROVE  s \in Seq(Nodes) /\ Members(s) \subseteq Threads
BY NodeFacts DEF Members

(* A ring is what one reads from it; the backward pointers do not matter.  *)
LEMMA RingReads ==
  ASSUME NEW ls \in Links, NEW l2, l2.next = ls.next, NEW h \in Heads,
         NEW s \in Seq(Threads), Ring(ls, h, s)
  PROVE  Read(l2, h) = s /\ l2.next[h] # NULL
<1>1. s \in Seq(Nodes) /\ h \in Nodes
  BY ThreadSeqs, NodeFacts
<1>2. Len(s) < Bound
  BY <1>1, NodesAreFinite, RingFits DEF Bound
<1>3. Contents(ls, h, Bound) = s
  BY <1>1, <1>2, LinksArePointers, NodesAreFinite, RingIsRead
<1>4. Contents(l2, h, Bound) = s
  BY <1>3 DEF Contents
<1>5. ls.next[h] \in {h} \cup Members(s)
  BY <1>1, RingCloses
<1>6. ls.next[h] # NULL
  BY <1>1, <1>5, ThreadSeqs, NodeFacts
<1>7. QED
  BY <1>4, <1>6 DEF Read

LEMMA RingRead ==
  ASSUME NEW ls \in Links, NEW h \in Heads, NEW s \in Seq(Threads), Ring(ls, h, s)
  PROVE  Read(ls, h) = s /\ ls.next[h] # NULL
BY RingReads

(* What a list holds does not change unless the nodes it reads do.         *)
LEMMA RingKept ==
  ASSUME NEW ls, NEW l2, NEW h, NEW s \in Seq(Threads), Ring(ls, h, s),
         \A x \in {h} \cup Members(s) : l2.next[x] = ls.next[x] /\ l2.prev[x] = ls.prev[x]
  PROVE  Ring(l2, h, s)
BY RingFrame

-----------------------------------------------------------------------------
(* What the invariant says of a thread at a step.                          *)

Base == TypeOK /\ SpinExclusion /\ FlagInv /\ MutexInv
Good == Base /\ WInv

(* threads_mgmt_lock: one thread is in its section.                        *)
LEMMA OneInMgmt ==
  ASSUME Good, NEW s \in Threads, NEW t \in Threads,
         pc[s] \in MgmtLabels, pc[t] \in MgmtLabels
  PROVE  s = t
BY DEF Good, Base, SpinExclusion

(* The idle thread keeps running_threads from being empty.                 *)
LEMMA SomeoneReady ==
  ASSUME Good, current # Idle
  PROVE  Idle \in Members(Q(RunHead))
<1>1. Idle \notin Loose
  <2> SUFFICES ASSUME NEW t \in Threads, pc[t] \in LooseLabels, arg[t] = Idle
               PROVE  FALSE
    BY DEF Loose
  <2>1. parent[Idle] = t
    BY DEF Good, WInv, Owned, OwnLabels
  <2>2. QED
    BY <2>1, NodeFacts DEF Good, WInv, Owned
<1>2. Idle \notin Leaving
  <2> SUFFICES ASSUME NEW t \in Threads, pc[t] \in LeaveLabels, arg[t] = Idle
               PROVE  FALSE
    BY DEF Leaving
  <2>1. parent[Idle] = t
    BY DEF Good, WInv, Owned, OwnLabels
  <2>2. QED
    BY <2>1, NodeFacts DEF Good, WInv, Owned
<1>3. Place(Idle) = {RunHead}
  BY <1>1, <1>2 DEF Place, HomeOf, Good, WInv, Owned
<1>4. QED
  BY <1>3, NodeFacts DEF Good, WInv, ListInv, Placed

(* Who is on a list.                                                       *)
LEMMA Standing ==
  ASSUME Good
  PROVE  /\ \A t \in Members(Q(RunHead)) :
              /\ t \in Threads \ {current} /\ t \in allocated
              /\ t \notin Loose \cup Leaving /\ tstate[t] = "RUNNING"
         /\ \A t \in Members(Q(SleepHead)) :
              /\ t \in Threads \ {current} /\ t \in allocated
              /\ t \notin Loose /\ (t \in Leaving \/ tstate[t] = "SLEEPING")
         /\ \A t \in Members(Q(MutexHead)) :
              /\ t \in Threads \ {current} /\ t \in allocated
              /\ t \notin Loose \cup Leaving /\ tstate[t] = "WAITING"
<1>1. ASSUME NEW h \in Heads, NEW t \in Members(Q(h))
      PROVE  t \in Threads /\ h \in Place(t)
  BY ThreadSeqs DEF Good, WInv, ListInv, Placed
<1>2. ASSUME NEW t \in Threads, Place(t) # {}
      PROVE  /\ t # current /\ t \in allocated /\ t \notin Loose
             /\ \/ t \in Leaving /\ Place(t) = {SleepHead}
                \/ t \notin Leaving /\ Place(t) = HomeOf(tstate[t])
  BY <1>2 DEF Place
<1>3. \A t \in Threads : tstate[t] \in States
  BY DEF Good, Base, TypeOK
<1>4. ASSUME NEW t \in Threads
      PROVE  /\ RunHead \in HomeOf(tstate[t]) => tstate[t] = "RUNNING"
             /\ SleepHead \in HomeOf(tstate[t]) => tstate[t] = "SLEEPING"
             /\ MutexHead \in HomeOf(tstate[t]) => tstate[t] = "WAITING"
  BY <1>3, NodeFacts DEF HomeOf, States
<1>5. QED
  BY <1>1, <1>2, <1>4, NodeFacts

(* No thread stands in two places.                                         *)
LEMMA Apart ==
  ASSUME Good
  PROVE  /\ Members(Q(RunHead)) \cap Members(Q(SleepHead)) = {}
         /\ Members(Q(RunHead)) \cap Members(Q(MutexHead)) = {}
         /\ Members(Q(SleepHead)) \cap Members(Q(MutexHead)) = {}
         /\ \A h \in Heads : current \notin Members(Q(h))
<1>1. \A t \in Members(Q(SleepHead)) : t \in Leaving \/ tstate[t] = "SLEEPING"
  BY Standing
<1>2. \A h \in Heads : h \in {RunHead, SleepHead, MutexHead}
  BY DEF Heads
<1>3. QED
  BY Standing, <1>1, <1>2

LEMMA QType ==
  ASSUME Good, NEW h \in Heads
  PROVE  Q(h) \in Seq(Threads) /\ Q(h) \in Seq(Nodes) /\ Members(Q(h)) \subseteq Threads
BY ThreadSeqs DEF Good, WInv, ListInv

(* The thread that switches is not in the middle of a list operation, and  *)
(* if it goes to sleep nobody else is.                                     *)
LEMMA CurrentRings ==
  ASSUME Good, pc[current] # "insert2"
  PROVE  /\ Ring(links, RunHead, Q(RunHead))
         /\ (\A t \in Threads : pc[t] # "wake_del2") => Ring(links, SleepHead, Q(SleepHead))
         /\ Ready(MutexHead) => Ring(links, MutexHead, Q(MutexHead))
BY DEF Good, WInv, ListInv, RunRing, SleepRing, MutexRing

-----------------------------------------------------------------------------
(* A list keeps its ring when its nodes keep their pointers.               *)

(* A thread has one owner.                                                 *)
LEMMA OneOwner ==
  ASSUME Good, NEW s \in Threads, NEW t \in Threads,
         pc[s] \in OwnLabels, pc[t] \in OwnLabels, arg[s] = arg[t]
  PROVE  s = t
BY DEF Good, WInv, Owned

(* A thread that wake is taking off the sleepers is still there.           *)
LEMMA LeavingStands ==
  ASSUME Good, NEW t \in Threads, pc[t] \in LeaveLabels
  PROVE  /\ arg[t] \in Threads /\ arg[t] \in Members(Q(SleepHead))
         /\ arg[t] # current /\ arg[t] \in allocated /\ arg[t] \notin Loose
<1>1. arg[t] \in Threads /\ arg[t] \in Leaving
  BY DEF Leaving, Good, Base, TypeOK
<1>2. pc[t] \in OwnLabels
  BY DEF OwnLabels
<1>3. arg[t] \notin Loose
  <2> SUFFICES ASSUME NEW s \in Threads, pc[s] \in LooseLabels, arg[s] = arg[t]
               PROVE  FALSE
    BY DEF Loose
  <2>1. s = t
    BY <1>2, OneOwner DEF OwnLabels
  <2>2. QED
    BY <2>1 DEF LooseLabels, LeaveLabels
<1>4. arg[t] # current /\ arg[t] \in allocated
  BY <1>1, <1>2 DEF Good, WInv, Owned, StateInv, CurrentFits
<1>5. Place(arg[t]) = {SleepHead}
  BY <1>1, <1>3, <1>4 DEF Place
<1>6. QED
  BY <1>1, <1>3, <1>4, <1>5, NodeFacts DEF Good, WInv, ListInv, Placed

LEMMA SleepKept ==
  ASSUME Good, links' \in Links,
         \A x \in {SleepHead} \cup Members(Q(SleepHead)) :
           links'.next[x] = links.next[x] /\ links'.prev[x] = links.prev[x],
         \A t \in Threads :
           /\ pc'[t] = "wake_del1" <=> pc[t] = "wake_del1"
           /\ pc'[t] = "wake_del2" <=> pc[t] = "wake_del2"
           /\ pc[t] \in {"wake_del1", "wake_del2"} =>
                arg'[t] = arg[t] /\ reg'[t] = reg[t]
  PROVE  Q(SleepHead)' = Q(SleepHead) /\ SleepRing'
<1> DEFINE sq == Q(SleepHead)
<1>1. sq \in Seq(Threads) /\ {SleepHead} \cup Members(sq) \subseteq Nodes
      /\ links \in Links
  BY QType, NodeFacts DEF Good, Base, TypeOK
<1> HIDE DEF sq
<1>2. \A t \in Threads : pc'[t] = "wake_del1" =>
         reg'[t] = <<links'.prev[arg'[t]], links'.next[arg'[t]]>>
  <2> SUFFICES ASSUME NEW t \in Threads, pc[t] = "wake_del1"
               PROVE  reg[t] = <<links'.prev[arg[t]], links'.next[arg[t]]>>
    OBVIOUS
  <2>1. reg[t] = <<links.prev[arg[t]], links.next[arg[t]]>>
    BY DEF Good, WInv, ListInv, SleepRing
  <2>2. arg[t] \in Members(Q(SleepHead))
    BY LeavingStands DEF LeaveLabels
  <2>3. QED
    BY <2>1, <2>2
<1>3. CASE \A t \in Threads : pc[t] # "wake_del2"
  <2>1. Ring(links, SleepHead, sq)
    BY <1>3 DEF Good, WInv, ListInv, SleepRing, sq
  <2>2. Ring(links', SleepHead, sq)
    BY <1>1, <2>1, RingKept DEF sq
  <2>3. Q(SleepHead)' = sq
    BY <1>1, <2>2, RingRead, NodeFacts DEF Q
  <2>4. QED
    BY <1>2, <1>3, <2>2, <2>3 DEF SleepRing, sq
<1>4. ASSUME NEW t \in Threads, pc[t] = "wake_del2"
      PROVE  Q(SleepHead)' = sq /\ SleepRing'
  <2>1. /\ reg[t][1] \in {SleepHead} \cup Members(sq)
        /\ reg[t][2] \in {SleepHead} \cup Members(sq)
        /\ Ring(SetPrev(links, reg[t][2], reg[t][1]), SleepHead, sq)
    BY <1>4 DEF Good, WInv, ListInv, SleepRing, sq
  <2>2. \A x \in {SleepHead} \cup Members(sq) :
          /\ SetPrev(links', reg[t][2], reg[t][1]).next[x]
               = SetPrev(links, reg[t][2], reg[t][1]).next[x]
          /\ SetPrev(links', reg[t][2], reg[t][1]).prev[x]
               = SetPrev(links, reg[t][2], reg[t][1]).prev[x]
    BY <1>1 DEF SetPrev, Links, sq
  <2>3. Ring(SetPrev(links', reg[t][2], reg[t][1]), SleepHead, sq)
    BY <1>1, <2>1, <2>2, RingKept
  <2>4. /\ SetPrev(links', reg[t][2], reg[t][1]) \in Links
        /\ SetPrev(links', reg[t][2], reg[t][1]).next = links'.next
    <3>1. reg[t][1] \in Nodes \cup {NULL}
      BY DEF Good, Base, TypeOK
    <3>2. QED
      BY <3>1, StoreType DEF SetPrev, Links
  <2>5. Q(SleepHead)' = sq
    BY <1>1, <2>3, <2>4, RingReads, NodeFacts DEF Q
  <2>6. \A s \in Threads : pc[s] = "wake_del2" => s = t
    BY <1>4, OneInMgmt DEF MgmtLabels
  <2>7. QED
    BY <1>2, <1>4, <2>1, <2>3, <2>5, <2>6 DEF SleepRing
<1>5. QED
  BY <1>3, <1>4 DEF sq

LEMMA MutexKept ==
  ASSUME Good, links' \in Links,
         \A x \in {MutexHead} \cup Members(Q(MutexHead)) :
           links'.next[x] = links.next[x] /\ links'.prev[x] = links.prev[x]
  PROVE  /\ Q(MutexHead)' = Q(MutexHead) /\ Ready(MutexHead)' = Ready(MutexHead)
         /\ MutexRing'
<1> DEFINE mq == Q(MutexHead)
<1>1. mq \in Seq(Threads)
  BY QType, NodeFacts
<1>2. links'.next[MutexHead] = links.next[MutexHead]
  OBVIOUS
<1>3. Ready(MutexHead)' = Ready(MutexHead)
  BY <1>2 DEF Ready
<1>4. CASE Ready(MutexHead)
  <2>1. Ring(links, MutexHead, mq)
    BY <1>4 DEF Good, WInv, ListInv, MutexRing
  <2>2. Ring(links', MutexHead, mq)
    BY <1>1, <2>1, RingKept
  <2>3. Read(links', MutexHead) = mq
    BY <1>1, <2>2, RingRead, NodeFacts
  <2>4. QED
    BY <1>3, <2>2, <2>3 DEF Q, MutexRing
<1>5. CASE ~Ready(MutexHead)
  BY <1>2, <1>3, <1>5 DEF Q, Read, Ready, MutexRing
<1>6. QED
  BY <1>4, <1>5

LEMMA RunKept ==
  ASSUME Good, links' \in Links,
         pc[current] # "insert2", pc'[current'] \notin {"insert1", "insert2"},
         \A x \in {RunHead} \cup Members(Q(RunHead)) :
           links'.next[x] = links.next[x] /\ links'.prev[x] = links.prev[x]
  PROVE  Q(RunHead)' = Q(RunHead) /\ RunRing' /\ Ring(links', RunHead, Q(RunHead))
<1>1. Q(RunHead) \in Seq(Threads) /\ Ring(links, RunHead, Q(RunHead))
  BY QType, NodeFacts, CurrentRings
<1>2. Ring(links', RunHead, Q(RunHead))
  BY <1>1, RingKept
<1>3. Q(RunHead)' = Q(RunHead)
  BY <1>1, <1>2, RingRead, NodeFacts DEF Q
<1>4. QED
  BY <1>2, <1>3 DEF RunRing

-----------------------------------------------------------------------------
(* switch_thread_switch, on the queues.                                    *)

RunAfter(s, rq)   == IF s = "RUNNING"  THEN Append(rq, current) ELSE rq
SleepAfter(s, sq) == IF s = "SLEEPING" THEN Append(sq, current) ELSE sq

LEMMA TailCuts ==
  ASSUME NEW s \in Seq(Threads), s # <<>>
  PROVE  Tail(s) = Cut(s, 1) /\ Tail(s) \in Seq(Threads) /\ s[1] \in Threads
         /\ Len(s) >= 1
<1>1. Len(s) >= 1
  OBVIOUS
<1>2. /\ Len(Tail(s)) = Len(s) - 1
      /\ \A k \in 1..(Len(s) - 1) : Tail(s)[k] = s[k+1]
      /\ Tail(s) \in Seq(Threads)
  BY <1>1
<1>3. /\ Cut(s, 1) \in Seq(Threads) /\ Len(Cut(s, 1)) = Len(s) - 1
      /\ \A k \in 1..(Len(s) - 1) : Cut(s, 1)[k] = s[k+1]
  BY <1>1, CutType
<1>4. Tail(s) = Cut(s, 1)
  BY <1>2, <1>3
<1>5. s[1] \in Threads
  BY <1>1
<1>6. QED
  BY <1>1, <1>2, <1>4, <1>5

LEMMA MembersTail ==
  ASSUME NEW s \in Seq(Threads), s # <<>>,
         \A j, k \in 1..Len(s) : s[j] = s[k] => j = k
  PROVE  Members(Tail(s)) = Members(s) \ {s[1]} /\ s[1] \in Members(s)
<1>1. Len(s) \in Nat /\ Len(s) >= 1
  BY TailCuts
<1>2. 1 \in 1..Len(s)
  BY <1>1
<1>3. Members(Cut(s, 1)) = Members(s) \ {s[1]}
  BY <1>2, MembersCut
<1>4. s[1] \in Members(s)
  BY <1>2 DEF Members
<1>5. QED
  BY <1>3, <1>4, TailCuts

(* Queueing the current thread by its state.                               *)
LEMMA RequeuedRings ==
  ASSUME current \in Threads, NEW ls \in Links, NEW ts,
         NEW rq \in Seq(Threads), NEW sq \in Seq(Threads),
         Ring(ls, RunHead, rq), current \notin Members(rq),
         ts[current] = "SLEEPING" =>
           /\ Ring(ls, SleepHead, sq) /\ current \notin Members(sq)
           /\ Members(rq) \cap Members(sq) = {}
  PROVE  /\ Requeued(ts, ls) \in Links
         /\ RunAfter(ts[current], rq) \in Seq(Threads)
         /\ SleepAfter(ts[current], sq) \in Seq(Threads)
         /\ Members(RunAfter(ts[current], rq)) =
              Members(rq) \cup (IF ts[current] = "RUNNING" THEN {current} ELSE {})
         /\ Members(SleepAfter(ts[current], sq)) =
              Members(sq) \cup (IF ts[current] = "SLEEPING" THEN {current} ELSE {})
         /\ Ring(Requeued(ts, ls), RunHead, RunAfter(ts[current], rq))
         /\ ts[current] = "SLEEPING" =>
              Ring(Requeued(ts, ls), SleepHead, SleepAfter(ts[current], sq))
         /\ \A x \in Nodes \ ({RunHead, current} \cup Members(rq)) :
              (ts[current] = "SLEEPING" => x \notin {SleepHead} \cup Members(sq)) =>
                /\ Requeued(ts, ls).next[x] = ls.next[x]
                /\ Requeued(ts, ls).prev[x] = ls.prev[x]
<1> DEFINE X == Nodes \cup {NULL}
<1>1. /\ rq \in Seq(Nodes) /\ sq \in Seq(Nodes) /\ current \in Nodes
      /\ Members(rq) \subseteq Threads /\ Members(sq) \subseteq Threads
      /\ RunHead \in Nodes /\ SleepHead \in Nodes /\ Nodes \subseteq X
      /\ current # RunHead /\ current # SleepHead /\ RunHead # SleepHead
      /\ RunHead \notin Threads /\ SleepHead \notin Threads
      /\ ls \in Pointers(Nodes, X)
  BY ThreadSeqs, NodeFacts, LinksArePointers
<1> HIDE DEF X
<1>2. /\ RunAfter(ts[current], rq) \in Seq(Threads)
      /\ SleepAfter(ts[current], sq) \in Seq(Threads)
      /\ Members(RunAfter(ts[current], rq)) =
           Members(rq) \cup (IF ts[current] = "RUNNING" THEN {current} ELSE {})
      /\ Members(SleepAfter(ts[current], sq)) =
           Members(sq) \cup (IF ts[current] = "SLEEPING" THEN {current} ELSE {})
  BY MembersAppend DEF RunAfter, SleepAfter
<1>3. CASE ts[current] = "RUNNING"
  <2>1. Requeued(ts, ls) = ListAddTail(ls, current, RunHead)
        /\ RunAfter(ts[current], rq) = Append(rq, current)
    BY <1>3 DEF Requeued, RunAfter
  <2>2. Ring(ListAddTail(ls, current, RunHead), RunHead, Append(rq, current))
    BY <1>1, RingAddTail
  <2>3. ListAddTail(ls, current, RunHead) \in Pointers(Nodes, X)
    BY <1>1, ListOpsType
  <2>4. \A x \in Nodes \ ({RunHead, current} \cup Members(rq)) :
          /\ ListAddTail(ls, current, RunHead).next[x] = ls.next[x]
          /\ ListAddTail(ls, current, RunHead).prev[x] = ls.prev[x]
    BY <1>1, AddTailFrame
  <2>5. QED
    BY <1>2, <1>3, <2>1, <2>2, <2>3, <2>4, LinksArePointers DEF X
<1>4. CASE ts[current] = "SLEEPING"
  <2>1. /\ Requeued(ts, ls) = ListAddTail(ls, current, SleepHead)
        /\ RunAfter(ts[current], rq) = rq
        /\ SleepAfter(ts[current], sq) = Append(sq, current)
    BY <1>4 DEF Requeued, RunAfter, SleepAfter
  <2>2. Ring(ListAddTail(ls, current, SleepHead), SleepHead, Append(sq, current))
    BY <1>1, <1>4, RingAddTail
  <2>3. ListAddTail(ls, current, SleepHead) \in Pointers(Nodes, X)
    BY <1>1, <1>4, ListOpsType
  <2>4. \A x \in Nodes \ ({SleepHead, current} \cup Members(sq)) :
          /\ ListAddTail(ls, current, SleepHead).next[x] = ls.next[x]
          /\ ListAddTail(ls, current, SleepHead).prev[x] = ls.prev[x]
    BY <1>1, <1>4, AddTailFrame
  <2>5. {RunHead} \cup Members(rq)
           \subseteq Nodes \ ({SleepHead, current} \cup Members(sq))
    BY <1>1, <1>4, NodeFacts
  <2>6. Ring(ListAddTail(ls, current, SleepHead), RunHead, rq)
    BY <2>4, <2>5, RingKept
  <2>7. QED
    BY <1>2, <1>4, <2>1, <2>2, <2>3, <2>4, <2>6, LinksArePointers DEF X
<1>5. CASE ts[current] # "RUNNING" /\ ts[current] # "SLEEPING"
  BY <1>2, <1>5 DEF Requeued, RunAfter, SleepAfter
<1>6. QED
  BY <1>3, <1>4, <1>5

LEMMA SwitchRings ==
  ASSUME current \in Threads, halted = "no", NEW ls \in Links, NEW ts,
         NEW rq \in Seq(Threads), NEW sq \in Seq(Threads),
         Ring(ls, RunHead, rq), current \notin Members(rq),
         ts[current] = "SLEEPING" =>
           /\ Ring(ls, SleepHead, sq) /\ current \notin Members(sq)
           /\ Members(rq) \cap Members(sq) = {},
         NEW rq2, rq2 = RunAfter(ts[current], rq), rq2 # <<>>,
         NEW sq2, sq2 = SleepAfter(ts[current], sq),
         Switch(ts, ls)
  PROVE  /\ halted' = "no" /\ links' \in Links
         /\ rq2 \in Seq(Threads) /\ current' = rq2[1]
         /\ current' \in Threads /\ current' \in Members(rq) \cup {current}
         /\ current' = current => ts[current] = "RUNNING"
         /\ Tail(rq2) \in Seq(Threads)
         /\ Members(Tail(rq2)) =
              (Members(rq) \cup (IF ts[current] = "RUNNING" THEN {current} ELSE {}))
              \ {current'}
         /\ Ring(links', RunHead, Tail(rq2))
         /\ sq2 \in Seq(Threads)
         /\ Members(sq2) =
              Members(sq) \cup (IF ts[current] = "SLEEPING" THEN {current} ELSE {})
         /\ ts[current] = "SLEEPING" => Ring(links', SleepHead, sq2)
         /\ \A x \in Nodes \ ({RunHead, current} \cup Members(rq)) :
              (ts[current] = "SLEEPING" => x \notin {SleepHead} \cup Members(sq)) =>
                links'.next[x] = ls.next[x] /\ links'.prev[x] = ls.prev[x]
<1> DEFINE X  == Nodes \cup {NULL}
           l2 == Requeued(ts, ls)
<1>1. /\ l2 \in Links /\ rq2 \in Seq(Threads) /\ sq2 \in Seq(Threads)
      /\ Members(rq2) =
           Members(rq) \cup (IF ts[current] = "RUNNING" THEN {current} ELSE {})
      /\ Members(sq2) =
           Members(sq) \cup (IF ts[current] = "SLEEPING" THEN {current} ELSE {})
      /\ Ring(l2, RunHead, rq2)
      /\ ts[current] = "SLEEPING" => Ring(l2, SleepHead, sq2)
      /\ \A x \in Nodes \ ({RunHead, current} \cup Members(rq)) :
           (ts[current] = "SLEEPING" => x \notin {SleepHead} \cup Members(sq)) =>
             l2.next[x] = ls.next[x] /\ l2.prev[x] = ls.prev[x]
  BY RequeuedRings, SMTT(60)
<1>2. rq2 # <<>>
  OBVIOUS
<1>3. Switch(ts, ls) = (IF ListFirst(l2, RunHead) \in Threads
      THEN /\ current' = ListFirst(l2, RunHead)
           /\ links' = ListDel(l2, ListFirst(l2, RunHead))
           /\ UNCHANGED halted
      ELSE /\ links' = l2
           /\ halted' = "wild"
           /\ UNCHANGED current)
  BY DEF Switch
<1> HIDE DEF l2, X
<1>5. /\ rq2 \in Seq(Nodes) /\ sq2 \in Seq(Nodes) /\ RunHead \in Nodes
      /\ Nodes \subseteq X /\ l2 \in Pointers(Nodes, X)
      /\ Members(rq2) \subseteq Threads /\ Members(sq2) \subseteq Threads
  BY <1>1, ThreadSeqs, NodeFacts, LinksArePointers DEF X
<1>6. ListFirst(l2, RunHead) = rq2[1] /\ rq2[1] \in Threads
      /\ 1 \in 1..Len(rq2)
  BY <1>1, <1>2, <1>5, RingEnds, TailCuts DEF ListFirst
<1>7. current' = rq2[1] /\ links' = ListDel(l2, rq2[1]) /\ halted' = halted
  BY <1>3, <1>6
<1>8. Ring(links', RunHead, Tail(rq2))
  <2>1. Ring(ListDel(l2, rq2[1]), RunHead, Cut(rq2, 1))
    BY <1>1, <1>5, <1>6, RingDel
  <2>2. QED
    BY <1>1, <1>2, <1>7, <2>1, TailCuts
<1>9. Members(Tail(rq2)) = Members(rq2) \ {rq2[1]} /\ rq2[1] \in Members(rq2)
      /\ Tail(rq2) \in Seq(Threads)
  <2>1. \A j, k \in 1..Len(rq2) : rq2[j] = rq2[k] => j = k
    BY <1>1 DEF Ring
  <2>2. QED
    BY <1>1, <1>2, <2>1, MembersTail, TailCuts
<1>10. links' \in Links
  BY <1>1, <1>5, <1>6, <1>7, ListOpsType, NodeFacts, LinksArePointers DEF X
<1>11. \A x \in Nodes \ ({RunHead} \cup Members(rq2)) :
         links'.next[x] = l2.next[x] /\ links'.prev[x] = l2.prev[x]
  BY <1>1, <1>5, <1>7, <1>9, DelFrame
<1>12. ts[current] = "SLEEPING" => Ring(links', SleepHead, sq2)
  <2> SUFFICES ASSUME ts[current] = "SLEEPING" PROVE Ring(links', SleepHead, sq2)
    OBVIOUS
  <2>1. Members(rq2) = Members(rq) /\ Members(sq2) = Members(sq) \cup {current}
    BY <1>1
  <2>2. {SleepHead} \cup Members(sq2) \subseteq Nodes \ ({RunHead} \cup Members(rq2))
    BY <1>5, <2>1, NodeFacts
  <2>3. QED
    BY <1>1, <1>11, <2>2, RingKept
<1>13. \A x \in Nodes \ ({RunHead, current} \cup Members(rq)) :
         (ts[current] = "SLEEPING" => x \notin {SleepHead} \cup Members(sq)) =>
           links'.next[x] = ls.next[x] /\ links'.prev[x] = ls.prev[x]
  BY <1>1, <1>11
<1>14. current' \in Members(rq) \cup {current}
       /\ (current' = current => ts[current] = "RUNNING")
  BY <1>1, <1>7, <1>9
<1>15. QED
  BY <1>1, <1>6, <1>7, <1>8, <1>9, <1>10, <1>12, <1>13, <1>14

(* yield() from anywhere but a hot label: the queues afterwards.            *)
LEMMA TurnQueues ==
  ASSUME Good, Switch(tstate, links), pc[current] \notin HotLabels
  PROVE  LET rq2 == RunAfter(tstate[current], Q(RunHead))
             sq2 == SleepAfter(tstate[current], Q(SleepHead))
         IN  /\ halted' = "no" /\ links' \in Links
             /\ rq2 # <<>> /\ current' = rq2[1] /\ current' \in Threads
             /\ current' \in Members(Q(RunHead)) \cup {current}
             /\ current' = current => tstate[current] = "RUNNING"
             /\ Q(RunHead)' = Tail(rq2) /\ Tail(rq2) \in Seq(Threads)
             /\ Members(Tail(rq2)) =
                  (Members(Q(RunHead)) \cup (IF tstate[current] = "RUNNING" THEN {current} ELSE {}))
                  \ {current'}
             /\ Ring(links', RunHead, Tail(rq2))
             /\ sq2 \in Seq(Threads)
             /\ Members(sq2) =
                  Members(Q(SleepHead)) \cup (IF tstate[current] = "SLEEPING" THEN {current} ELSE {})
             /\ tstate[current] = "SLEEPING" =>
                  /\ \A t \in Threads : pc[t] \notin MgmtLabels \cup {"wake_del2"}
                  /\ Ring(links', SleepHead, sq2) /\ Q(SleepHead)' = sq2
             /\ tstate[current] # "SLEEPING" =>
                  \A x \in {SleepHead} \cup Members(Q(SleepHead)) :
                    links'.next[x] = links.next[x] /\ links'.prev[x] = links.prev[x]
             /\ \A x \in {MutexHead} \cup Members(Q(MutexHead)) :
                  links'.next[x] = links.next[x] /\ links'.prev[x] = links.prev[x]
<1> DEFINE rq  == Q(RunHead)
           sq  == Q(SleepHead)
           rq2 == RunAfter(tstate[current], rq)
           sq2 == SleepAfter(tstate[current], sq)
<1>1. /\ current \in Threads /\ halted = "no" /\ links \in Links
      /\ pc[current] # "insert2"
  BY DEF Good, Base, WInv, TypeOK, Undisturbed, HotLabels
<1>2. Ring(links, RunHead, rq) /\ rq \in Seq(Threads) /\ sq \in Seq(Threads)
      /\ current \notin Members(rq)
  BY <1>1, CurrentRings, QType, Apart, NodeFacts
<1>3. tstate[current] = "SLEEPING" =>
        \A t \in Threads : pc[t] \notin MgmtLabels \cup {"wake_del2"}
  <2> SUFFICES ASSUME tstate[current] = "SLEEPING"
               PROVE  \A t \in Threads : pc[t] \notin MgmtLabels
    BY DEF MgmtLabels
  <2>1. /\ pc[current] \in {"sleep_unlock", "sleep_yield"}
        /\ \A t \in Threads \ {current} : pc[t] \notin MgmtLabels
    BY DEF Good, WInv, StateInv, CurrentFits
  <2>2. pc[current] = "sleep_yield"
    BY <2>1 DEF HotLabels
  <2>3. QED
    BY <2>1, <2>2 DEF MgmtLabels
<1>4. tstate[current] = "SLEEPING" =>
        /\ Ring(links, SleepHead, sq) /\ current \notin Members(sq)
        /\ Members(rq) \cap Members(sq) = {}
  <2>1. Members(rq) \cap Members(sq) = {} /\ current \notin Members(sq)
    BY Apart, NodeFacts
  <2>2. QED
    BY <1>1, <1>3, <2>1, CurrentRings
<1>5. rq2 # <<>>
  <2>1. CASE current = Idle
    <3>1. rq2 = Append(rq, current)
      BY <2>1 DEF RunAfter, Good, WInv, Owned
    <3>2. QED
      BY <1>1, <1>2, <3>1
  <2>2. CASE current # Idle
    <3>1. rq # <<>>
      BY <2>2, SomeoneReady DEF Members
    <3>2. QED
      BY <1>1, <1>2, <3>1 DEF RunAfter
  <2>3. QED
    BY <2>1, <2>2
<1> HIDE DEF rq, sq
<1>6. /\ halted' = "no" /\ links' \in Links
      /\ rq2 \in Seq(Threads) /\ current' = rq2[1]
      /\ current' \in Threads /\ current' \in Members(rq) \cup {current}
      /\ current' = current => tstate[current] = "RUNNING"
      /\ Tail(rq2) \in Seq(Threads)
      /\ Members(Tail(rq2)) =
           (Members(rq) \cup (IF tstate[current] = "RUNNING" THEN {current} ELSE {}))
           \ {current'}
      /\ Ring(links', RunHead, Tail(rq2))
      /\ sq2 \in Seq(Threads)
      /\ Members(sq2) =
           Members(sq) \cup (IF tstate[current] = "SLEEPING" THEN {current} ELSE {})
      /\ tstate[current] = "SLEEPING" => Ring(links', SleepHead, sq2)
      /\ \A x \in Nodes \ ({RunHead, current} \cup Members(rq)) :
           (tstate[current] = "SLEEPING" => x \notin {SleepHead} \cup Members(sq)) =>
             links'.next[x] = links.next[x] /\ links'.prev[x] = links.prev[x]
  <2>1. rq2 = RunAfter(tstate[current], rq) /\ sq2 = SleepAfter(tstate[current], sq)
    OBVIOUS
  <2> HIDE DEF rq2, sq2
  <2>2. QED
    BY <1>1, <1>2, <1>4, <1>5, <2>1, SwitchRings, SMTT(60)
<1> HIDE DEF rq2, sq2
<1>7. Q(RunHead)' = Tail(rq2)
  BY <1>6, NodeFacts, RingRead DEF Q
<1>8. tstate[current] = "SLEEPING" => Q(SleepHead)' = sq2
  BY <1>6, NodeFacts, RingRead DEF Q
<1>9. /\ SleepHead \notin {RunHead, current} \cup Members(rq)
      /\ MutexHead \notin {RunHead, current} \cup Members(rq)
      /\ MutexHead \notin {SleepHead} \cup Members(sq)
      /\ Members(rq) \subseteq Threads /\ Members(sq) \subseteq Threads
  BY <1>1, <1>2, ThreadSeqs, NodeFacts
<1>10. \A x \in {SleepHead} \cup Members(sq) :
         x \in Nodes \ ({RunHead, current} \cup Members(rq))
  BY <1>9, Apart, NodeFacts DEF rq, sq
<1>11. \A x \in {MutexHead} \cup Members(Q(MutexHead)) :
         /\ x \in Nodes \ ({RunHead, current} \cup Members(rq))
         /\ x \notin {SleepHead} \cup Members(sq)
  BY <1>9, Apart, QType, NodeFacts DEF rq, sq
<1>12. QED
  BY <1>3, <1>5, <1>6, <1>7, <1>8, <1>10, <1>11 DEF rq, sq, rq2, sq2

(* The steps that yield and change nothing else on the lists: a tick, a    *)
(* turn of spin_lock or wait, yield, and the ends of sleep and thread_exit. *)
Turn ==
  /\ Switch(tstate, links) /\ pc[current] \notin HotLabels
  /\ UNCHANGED <<tstate, arg, reg, allocated>>
  /\ \A t \in Threads : t # current => pc'[t] = pc[t]
  /\ \/ pc'[current] = pc[current]
     \/ pc[current] = "sleep_yield" /\ pc'[current] = "user"
     \/ pc[current] = "exit_yield" /\ pc'[current] = "exit_returned"

LEMMA TurnLabels ==
  ASSUME Turn, NEW t \in Threads,
         NEW l \in HotLabels \cup MgmtLabels \cup LeaveLabels \cup LooseLabels
  PROVE  pc'[t] = l <=> pc[t] = l
BY DEF Turn, HotLabels, MgmtLabels, MutexLabels, LeaveLabels, LooseLabels

LEMMA TurnLists ==
  ASSUME Good, Turn
  PROVE  /\ ListInv'
         /\ Q(SleepHead)' = SleepAfter(tstate[current], Q(SleepHead))
         /\ Q(MutexHead)' = Q(MutexHead) /\ Ready(MutexHead)' = Ready(MutexHead)
         /\ Loose' = Loose /\ Leaving' = Leaving
<1> DEFINE rq  == Q(RunHead)
           sq  == Q(SleepHead)
           mq  == Q(MutexHead)
           rq2 == RunAfter(tstate[current], rq)
           sq2 == SleepAfter(tstate[current], sq)
<1>1. /\ current \in Threads /\ links \in Links
      /\ rq \in Seq(Threads) /\ sq \in Seq(Threads) /\ mq \in Seq(Threads)
      /\ pc[current] # "insert2"
      /\ UNCHANGED <<tstate, arg, reg, allocated>>
  BY QType, NodeFacts DEF Good, Base, TypeOK, Turn, HotLabels
<1>2. /\ links' \in Links
      /\ current' = rq2[1] /\ current' \in Threads
      /\ current' \in Members(rq) \cup {current}
      /\ current' = current => tstate[current] = "RUNNING"
      /\ Q(RunHead)' = Tail(rq2) /\ Tail(rq2) \in Seq(Threads)
      /\ Members(Tail(rq2)) =
           (Members(rq) \cup (IF tstate[current] = "RUNNING" THEN {current} ELSE {}))
           \ {current'}
      /\ Ring(links', RunHead, Tail(rq2))
      /\ sq2 \in Seq(Threads)
      /\ Members(sq2) =
           Members(sq) \cup (IF tstate[current] = "SLEEPING" THEN {current} ELSE {})
      /\ tstate[current] = "SLEEPING" =>
           /\ \A t \in Threads : pc[t] \notin MgmtLabels \cup {"wake_del2"}
           /\ Ring(links', SleepHead, sq2) /\ Q(SleepHead)' = sq2
      /\ tstate[current] # "SLEEPING" =>
           \A x \in {SleepHead} \cup Members(sq) :
             links'.next[x] = links.next[x] /\ links'.prev[x] = links.prev[x]
      /\ \A x \in {MutexHead} \cup Members(mq) :
           links'.next[x] = links.next[x] /\ links'.prev[x] = links.prev[x]
  BY TurnQueues DEF Turn
<1>3. Loose' = Loose /\ Leaving' = Leaving
  <2>1. \A t \in Threads : /\ pc'[t] \in LooseLabels <=> pc[t] \in LooseLabels
                           /\ pc'[t] \in LeaveLabels <=> pc[t] \in LeaveLabels
    BY TurnLabels
  <2>2. QED
    BY <1>1, <2>1 DEF Loose, Leaving
<1>4. /\ Ready(MutexHead)' = Ready(MutexHead) /\ Q(MutexHead)' = mq
      /\ MutexRing'
  BY <1>2, MutexKept DEF mq
<1>5. pc'[current'] \notin HotLabels
  <2>1. CASE current' = current
    BY <1>1, <2>1, TurnLabels DEF Turn
  <2>2. CASE current' # current
    BY <1>2, <2>2, TurnLabels DEF Good, WInv, Undisturbed
  <2>3. QED
    BY <2>1, <2>2
<1>6. RunRing'
  <2>1. pc'[current'] \notin {"insert1", "insert2"}
    BY <1>5 DEF HotLabels
  <2>2. QED
    BY <1>2, <2>1 DEF RunRing
<1> HIDE DEF rq, sq, mq, rq2, sq2
<1>7. Q(SleepHead)' = sq2 /\ SleepRing'
  <2>1. \A t \in Threads : /\ pc'[t] = "wake_del1" <=> pc[t] = "wake_del1"
                           /\ pc'[t] = "wake_del2" <=> pc[t] = "wake_del2"
    BY TurnLabels DEF LooseLabels, LeaveLabels
  <2>2. CASE tstate[current] = "SLEEPING"
    <3>1. \A t \in Threads : pc'[t] # "wake_del1" /\ pc'[t] # "wake_del2"
      BY <1>2, <2>1, <2>2 DEF MgmtLabels
    <3>2. QED
      BY <1>2, <2>2, <3>1 DEF SleepRing
  <2>3. CASE tstate[current] # "SLEEPING"
    <3>0. sq2 = sq
      BY <2>3 DEF sq2, SleepAfter
    <3>1. QED
      BY <1>1, <1>2, <2>1, <2>3, <3>0, SleepKept DEF sq
  <2>4. QED
    BY <2>2, <2>3
<1>8. Placed'
  <2> SUFFICES ASSUME NEW t \in Threads, NEW h \in Heads
               PROVE  t \in Members(Q(h)') <=> h \in Place(t)'
    BY DEF Placed
  <2>0. h = RunHead \/ h = SleepHead \/ h = MutexHead
    BY DEF Heads
  <2>1. CASE t # current /\ t # current'
    <3>1. Place(t)' = Place(t)
      BY <1>1, <1>3, <2>1 DEF Place
    <3>2. /\ t \in Members(Q(RunHead)') <=> t \in Members(Q(RunHead))
          /\ t \in Members(Q(SleepHead)') <=> t \in Members(Q(SleepHead))
          /\ Q(MutexHead)' = Q(MutexHead)
      BY <1>2, <1>4, <1>7, <2>1 DEF rq, sq, mq
    <3>3. QED
      BY <2>0, <3>1, <3>2 DEF Good, WInv, ListInv, Placed
  <2>2. CASE t = current /\ t # current'
    <3>1. Place(t)' = HomeOf(tstate[t])
      BY <1>1, <1>3, <2>2 DEF Place, Good, WInv, StateInv, CurrentFits
    <3>2. /\ t \in Members(Q(RunHead)') <=> tstate[t] = "RUNNING"
          /\ t \in Members(Q(SleepHead)') <=> tstate[t] = "SLEEPING"
          /\ t \notin Members(Q(MutexHead)')
      BY <1>2, <1>4, <1>7, <2>2, Apart, NodeFacts DEF rq, sq, mq
    <3>3. tstate[t] \in {"RUNNING", "SLEEPING", "TERMINATED"}
      BY <2>2 DEF Good, WInv, StateInv, CurrentFits
    <3>4. QED
      BY <2>0, <3>1, <3>2, <3>3, NodeFacts DEF HomeOf
  <2>3. CASE t = current'
    <3>1. /\ t \notin Members(Q(RunHead)')
          /\ t \notin Members(Q(SleepHead)')
          /\ t \notin Members(Q(MutexHead)')
      BY <1>2, <1>4, <1>7, <2>3, Apart, NodeFacts DEF rq, sq, mq
    <3>2. Place(t)' = {}
      BY <2>3 DEF Place
    <3>3. QED
      BY <2>0, <3>1, <3>2
  <2>4. QED
    BY <2>1, <2>2, <2>3
<1>9. \A h \in Heads : Q(h)' \in Seq(Threads)
  BY <1>1, <1>2, <1>4, <1>7 DEF Heads
<1>10. QED
  BY <1>3, <1>4, <1>6, <1>7, <1>8, <1>9 DEF ListInv, sq, mq, sq2

-----------------------------------------------------------------------------
(* Steps that touch no list.                                               *)

LEMMA StillLists ==
  ASSUME Good, UNCHANGED <<links, current>>,
         pc[current] \notin {"insert1", "insert2"},
         pc'[current] \notin {"insert1", "insert2"},
         \A s \in Threads :
           /\ pc'[s] = "wake_del2" <=> pc[s] = "wake_del2"
           /\ pc[s] = "wake_del2" => reg'[s] = reg[s]
           /\ pc'[s] = "wake_del1" =>
                reg'[s] = <<links.prev[arg'[s]], links.next[arg'[s]]>>
           /\ Place(s)' = Place(s)
  PROVE  /\ ListInv' /\ Ready(MutexHead)' = Ready(MutexHead)
         /\ \A h \in Heads : Q(h)' = Q(h)
<1>1. \A h \in Heads : Q(h)' = Q(h)
  BY DEF Q
<1>2. Q(RunHead)' = Q(RunHead) /\ Q(SleepHead)' = Q(SleepHead)
      /\ Q(MutexHead)' = Q(MutexHead)
  BY <1>1, NodeFacts
<1>3. RunRing'
  BY <1>2 DEF RunRing, Good, WInv, ListInv
<1>4. SleepRing'
  BY <1>2 DEF SleepRing, Good, WInv, ListInv
<1>5. MutexRing' /\ Ready(MutexHead)' = Ready(MutexHead)
  BY <1>2 DEF MutexRing, Ready, Good, WInv, ListInv
<1>6. Placed'
  BY <1>1 DEF Placed, Good, WInv, ListInv
<1>7. QED
  BY <1>1, <1>3, <1>4, <1>5, <1>6 DEF ListInv, Good, WInv

(* A step of the current thread on its own account.                        *)
Plain(t) ==
  /\ t = current
  /\ UNCHANGED <<links, current, allocated, reg>>
  /\ \A s \in Threads : s # t => pc'[s] = pc[s] /\ arg'[s] = arg[s] /\ tstate'[s] = tstate[s]
  /\ pc[t]  \notin LooseLabels \cup {"insert2", "wake_del1"}
  /\ pc'[t] \notin LooseLabels \cup {"insert2", "wake_del1"}
  /\ pc'[t] \in LeaveLabels <=> pc[t] \in LeaveLabels
  /\ pc[t] \in LeaveLabels => arg'[t] = arg[t]

LEMMA PlainLists ==
  ASSUME Good, NEW t \in Threads, Plain(t)
  PROVE  /\ ListInv' /\ Ready(MutexHead)' = Ready(MutexHead)
         /\ \A h \in Heads : Q(h)' = Q(h)
         /\ Loose' = Loose /\ Leaving' = Leaving
<1>1. \A s \in Threads :
        /\ pc'[s] \in LooseLabels <=> pc[s] \in LooseLabels
        /\ pc'[s] \in LeaveLabels <=> pc[s] \in LeaveLabels
        /\ pc[s] \in LooseLabels \cup LeaveLabels => arg'[s] = arg[s]
  BY DEF Plain
<1>2. Loose' = Loose
  BY <1>1 DEF Loose
<1>3. Leaving' = Leaving
  BY <1>1 DEF Leaving
<1>4. \A s \in Threads : Place(s)' = Place(s)
  BY <1>2, <1>3 DEF Place, Plain
<1>5. \A s \in Threads : /\ pc'[s] = "wake_del2" <=> pc[s] = "wake_del2"
                         /\ pc'[s] = "wake_del1" => pc[s] = "wake_del1" /\ arg'[s] = arg[s]
                         /\ reg'[s] = reg[s]
  BY DEF Plain, LooseLabels
<1>6. \A s \in Threads : pc'[s] = "wake_del1" =>
                reg'[s] = <<links.prev[arg'[s]], links.next[arg'[s]]>>
  BY <1>5 DEF Good, WInv, ListInv, SleepRing
<1>7. pc[current] \notin {"insert1", "insert2"} /\ pc'[current] \notin {"insert1", "insert2"}
  BY DEF Plain, LooseLabels
<1>8. UNCHANGED <<links, current>>
  BY DEF Plain
<1>9. QED
  BY <1>2, <1>3, <1>4, <1>5, <1>6, <1>7, <1>8, StillLists

LEMMA PlainSteps ==
  ASSUME TypeOK, NEW t \in Threads,
         \/ CallPrintf(t) \/ CallSleep(t) \/ CallExit(t)
         \/ \E u \in Threads : CallWake(t, u) \/ CallWait(t, u)
         \/ CallMutexLock(t) \/ CallMutexUnlock(t)
         \/ LockMgmt(t) \/ UnlockMgmt(t) \/ LogBegin(t) \/ LogEnd(t)
         \/ SleepSet(t) \/ ExitSet(t) \/ WaitDone(t) \/ MutexTry(t)
         \/ WakeTest(t) /\ tstate[arg[t]] # "SLEEPING"
  PROVE  Plain(t)
<1> USE DEF Plain, TypeOK, cpuVars, userVars, LooseLabels, LeaveLabels
<1>1. CASE CallPrintf(t) \/ CallSleep(t) \/ CallExit(t)
           \/ \E u \in Threads : CallWake(t, u) \/ CallWait(t, u)
  BY <1>1 DEF CallPrintf, CallSleep, CallExit, CallWake, CallWait, CallOn,
              InUser, At, Goto
<1>2. CASE CallMutexLock(t)
  BY <1>2 DEF CallMutexLock, InUser, At, Goto
<1>3. CASE CallMutexUnlock(t)
  <2>1. /\ t = current /\ pc[t] = "user" /\ UNCHANGED <<links, current, allocated, reg, tstate>>
    BY <1>3 DEF CallMutexUnlock, InUser, At
  <2>2. pc' = pc \/ Goto(t, "munlock_log") \/ Goto(t, "user")
    BY <1>3 DEF CallMutexUnlock
  <2>3. arg' = arg \/ \E x : arg' = [arg EXCEPT ![t] = x]
    BY <1>3 DEF CallMutexUnlock
  <2>4. \A s \in Threads : s # t => pc'[s] = pc[s] /\ arg'[s] = arg[s]
    BY <2>2, <2>3 DEF Goto
  <2>5. pc'[t] \in {"user", "munlock_log"}
    BY <2>1, <2>2 DEF Goto
  <2>6. QED
    BY <2>1, <2>4, <2>5
<1>4. CASE LockMgmt(t)
  BY <1>4 DEF LockMgmt, At, Goto, AfterLock
<1>5. CASE UnlockMgmt(t)
  BY <1>5 DEF UnlockMgmt, At, Goto, AfterUnlock
<1>6. CASE LogBegin(t)
  BY <1>6 DEF LogBegin, At, Goto, AfterLog
<1>7. CASE LogEnd(t)
  BY <1>7 DEF LogEnd, At, Goto, AfterLog
<1>8. CASE SleepSet(t) \/ ExitSet(t) \/ WaitDone(t)
  BY <1>8 DEF SleepSet, ExitSet, WaitDone, At, Goto
<1>9. CASE MutexTry(t)
  <2>1. t = current /\ pc[t] = "mlock_try"
        /\ UNCHANGED <<links, current, allocated, reg, tstate, arg>>
    BY <1>9 DEF MutexTry, At
  <2>2. Goto(t, "mlock_log") \/ Goto(t, "mlock_first_log") \/ Goto(t, "user")
    BY <1>9 DEF MutexTry, LeaveMutex
  <2>3. QED
    BY <2>1, <2>2 DEF Goto
<1>10. CASE WakeTest(t) /\ tstate[arg[t]] # "SLEEPING"
  BY <1>10 DEF WakeTest, At, Goto
<1>11. QED
  BY <1>1, <1>2, <1>3, <1>4, <1>5, <1>6, <1>7, <1>8, <1>9, <1>10

(* create_thread takes a slot: it is on no list and is not made ready yet. *)
LEMMA CreateLists ==
  ASSUME Good, NEW t \in Threads, NEW u \in Threads, CallCreate(t, u)
  PROVE  /\ ListInv' /\ Ready(MutexHead)' = Ready(MutexHead)
         /\ \A h \in Heads : Q(h)' = Q(h)
         /\ Loose' = Loose /\ Leaving' = Leaving
<1>1. /\ t = current /\ pc[t] = "user" /\ u \notin allocated
      /\ UNCHANGED <<links, current, tstate, reg>>
      /\ allocated' = allocated \cup {u}
      /\ arg' = [arg EXCEPT ![t] = u]
      /\ pc' = [pc EXCEPT ![t] = "create_lock", ![u] = "user"]
  BY DEF CallCreate, InUser, At, cpuVars
<1>2. /\ u # t /\ tstate[u] \in {"FREE", "TERMINATED"}
      /\ pc[u] \in {"user", "exit_yield", "exit_returned"}
  <2>1. u # t
    BY <1>1 DEF Good, WInv, StateInv, CurrentFits
  <2>2. tstate[u] \in States
    BY DEF Good, Base, TypeOK
  <2>3. Fits(u)
    BY DEF Good, WInv, StateInv
  <2>4. QED
    BY <1>1, <2>1, <2>2, <2>3 DEF Fits, States
<1>3. /\ pc'[t] = "create_lock" /\ pc'[u] = "user" /\ arg'[t] = u
      /\ \A s \in Threads : s # t => arg'[s] = arg[s]
      /\ \A s \in Threads : s # t /\ s # u => pc'[s] = pc[s]
  BY <1>1, <1>2 DEF Good, Base, TypeOK
<1>4. \A s \in Threads :
        \/ s # t /\ s # u /\ pc'[s] = pc[s] /\ arg'[s] = arg[s]
        \/ /\ pc[s] \in {"user", "exit_yield", "exit_returned"}
           /\ pc'[s] \in {"user", "create_lock"}
  BY <1>1, <1>2, <1>3
<1>5. \A s \in Threads :
        /\ pc'[s] \in LooseLabels <=> pc[s] \in LooseLabels
        /\ pc'[s] \in LeaveLabels <=> pc[s] \in LeaveLabels
        /\ pc[s] \in LooseLabels \cup LeaveLabels => arg'[s] = arg[s]
  BY <1>4 DEF LooseLabels, LeaveLabels
<1>6. Loose' = Loose /\ Leaving' = Leaving
  BY <1>5 DEF Loose, Leaving
<1>7. ASSUME NEW s \in Threads PROVE Place(s)' = Place(s)
  <2>1. CASE s # u
    BY <1>1, <1>6, <2>1 DEF Place
  <2>2. CASE s = u
    <3>1. u \notin Leaving
      BY <1>1 DEF Leaving, OwnLabels, Good, WInv, Owned
    <3>2. Place(s) = {} /\ Place(s)' = {}
      BY <1>1, <1>2, <1>6, <2>2, <3>1 DEF Place, HomeOf
    <3>3. QED
      BY <3>2
  <2>3. QED
    BY <2>1, <2>2
<1>8. \A s \in Threads : /\ pc'[s] = "wake_del2" <=> pc[s] = "wake_del2"
                         /\ pc'[s] = "wake_del1" => pc[s] = "wake_del1" /\ arg'[s] = arg[s]
  BY <1>4
<1>9. \A s \in Threads : pc'[s] = "wake_del1" =>
                reg'[s] = <<links.prev[arg'[s]], links.next[arg'[s]]>>
  BY <1>1, <1>8 DEF Good, WInv, ListInv, SleepRing
<1>10. QED
  BY <1>1, <1>3, <1>6, <1>7, <1>8, <1>9, StillLists

(* wait() gives the slot of a terminated thread back.                      *)
LEMMA FreeLists ==
  ASSUME Good, NEW t \in Threads, WaitFree(t)
  PROVE  /\ ListInv' /\ Ready(MutexHead)' = Ready(MutexHead)
         /\ \A h \in Heads : Q(h)' = Q(h)
         /\ Loose' = Loose /\ Leaving' = Leaving
<1>1. /\ t = current /\ pc[t] = "wait_free"
      /\ UNCHANGED <<links, current, tstate, reg, arg>>
      /\ allocated' = allocated \ {arg[t]}
      /\ pc' = [pc EXCEPT ![t] = "user"]
  BY DEF WaitFree, At, Goto, cpuVars
<1>2. pc'[t] = "user" /\ \A s \in Threads : s # t => pc'[s] = pc[s]
  BY <1>1 DEF Good, Base, TypeOK
<1>3. \A s \in Threads :
        /\ pc'[s] \in LooseLabels <=> pc[s] \in LooseLabels
        /\ pc'[s] \in LeaveLabels <=> pc[s] \in LeaveLabels
        /\ pc'[s] = "wake_del2" <=> pc[s] = "wake_del2"
        /\ pc'[s] = "wake_del1" <=> pc[s] = "wake_del1"
  BY <1>1, <1>2 DEF LooseLabels, LeaveLabels
<1>4. Loose' = Loose /\ Leaving' = Leaving
  BY <1>1, <1>3 DEF Loose, Leaving
<1>5. tstate[arg[t]] = "TERMINATED" /\ arg[t] \notin Leaving
  <2>1. tstate[arg[t]] = "TERMINATED"
    BY <1>1 DEF Good, WInv, StateInv, Fits
  <2>2. QED
    BY <2>1 DEF Leaving, Good, WInv, StateInv, Fits
<1>6. ASSUME NEW s \in Threads PROVE Place(s)' = Place(s)
  <2>1. CASE s # arg[t]
    BY <1>1, <1>4, <2>1 DEF Place
  <2>2. CASE s = arg[t]
    BY <1>1, <1>4, <1>5, <2>2 DEF Place, HomeOf
  <2>3. QED
    BY <2>1, <2>2
<1>7. \A s \in Threads : pc'[s] = "wake_del1" =>
                reg'[s] = <<links.prev[arg'[s]], links.next[arg'[s]]>>
  BY <1>1, <1>3 DEF Good, WInv, ListInv, SleepRing
<1>8. QED
  BY <1>1, <1>2, <1>3, <1>4, <1>6, <1>7, StillLists

(* create_thread makes its thread RUNNING before it is on the list.        *)
LEMMA CreateSetLists ==
  ASSUME Good, NEW t \in Threads, CreateSet(t)
  PROVE  /\ ListInv' /\ Ready(MutexHead)' = Ready(MutexHead)
         /\ \A h \in Heads : Q(h)' = Q(h)
         /\ Loose' = Loose \cup {arg[t]} /\ Leaving' = Leaving
<1>1. /\ t = current /\ pc[t] = "create_set"
      /\ UNCHANGED <<links, current, allocated, reg, arg>>
      /\ tstate' = [tstate EXCEPT ![arg[t]] = "RUNNING"]
      /\ pc' = [pc EXCEPT ![t] = "insert"]
  BY DEF CreateSet, At, Goto, cpuVars, userVars
<1>2. pc'[t] = "insert" /\ \A s \in Threads : s # t => pc'[s] = pc[s]
  BY <1>1 DEF Good, Base, TypeOK
<1>3. \A s \in Threads :
        /\ pc'[s] \in LooseLabels <=> pc[s] \in LooseLabels \/ s = t
        /\ pc'[s] \in LeaveLabels <=> pc[s] \in LeaveLabels
        /\ pc'[s] = "wake_del2" <=> pc[s] = "wake_del2"
        /\ pc'[s] = "wake_del1" <=> pc[s] = "wake_del1"
  BY <1>1, <1>2 DEF LooseLabels, LeaveLabels
<1>4. Loose' = Loose \cup {arg[t]} /\ Leaving' = Leaving
  BY <1>1, <1>3 DEF Loose, Leaving
<1>5. arg[t] \notin Leaving /\ HomeOf(tstate[arg[t]]) = {}
  <2>1. pc[t] \in OwnLabels
    BY <1>1 DEF OwnLabels, CreateLabels
  <2>2. arg[t] \notin Leaving
    <3> SUFFICES ASSUME NEW s \in Threads, pc[s] \in LeaveLabels, arg[s] = arg[t]
                 PROVE  FALSE
      BY DEF Leaving
    <3>1. s = t
      BY <2>1, OneOwner DEF OwnLabels
    <3>2. QED
      BY <1>1, <3>1 DEF LeaveLabels
  <2>3. Raw(arg[t]) /\ arg[t] \in Threads
    BY <1>1 DEF Raw, CreateLabels, Good, Base, TypeOK
  <2>4. tstate[arg[t]] \notin {"RUNNING", "SLEEPING", "WAITING"}
    BY <2>3 DEF Good, WInv, StateInv, Fits
  <2>5. QED
    BY <2>2, <2>4 DEF HomeOf
<1>6. ASSUME NEW s \in Threads PROVE Place(s)' = Place(s)
  <2>1. CASE s # arg[t]
    <3>1. tstate'[s] = tstate[s]
      BY <1>1, <2>1 DEF Good, Base, TypeOK
    <3>2. QED
      BY <1>1, <1>4, <2>1, <3>1 DEF Place
  <2>2. CASE s = arg[t]
    BY <1>1, <1>4, <1>5, <2>2 DEF Place
  <2>3. QED
    BY <2>1, <2>2
<1>7. \A s \in Threads : pc'[s] = "wake_del1" =>
                reg'[s] = <<links.prev[arg'[s]], links.next[arg'[s]]>>
  BY <1>1, <1>3 DEF Good, WInv, ListInv, SleepRing
<1>8. QED
  BY <1>1, <1>2, <1>3, <1>4, <1>6, <1>7, StillLists

(* wake finds its thread asleep: RUNNING, but still among the sleepers.    *)
LEMMA WakeTestLists ==
  ASSUME Good, NEW t \in Threads, WakeTest(t), tstate[arg[t]] = "SLEEPING"
  PROVE  /\ ListInv' /\ Ready(MutexHead)' = Ready(MutexHead)
         /\ \A h \in Heads : Q(h)' = Q(h)
         /\ Loose' = Loose /\ Leaving' = Leaving \cup {arg[t]}
         /\ arg[t] # t /\ arg[t] \notin Loose
<1>1. /\ t = current /\ pc[t] = "wake_test"
      /\ UNCHANGED <<links, current, allocated, reg, arg>>
      /\ tstate' = [tstate EXCEPT ![arg[t]] = "RUNNING"]
      /\ pc' = [pc EXCEPT ![t] = "wake_log"]
  BY DEF WakeTest, At, Goto, cpuVars, userVars
<1>2. pc'[t] = "wake_log" /\ \A s \in Threads : s # t => pc'[s] = pc[s]
  BY <1>1 DEF Good, Base, TypeOK
<1>3. \A s \in Threads :
        /\ pc'[s] \in LooseLabels <=> pc[s] \in LooseLabels
        /\ pc'[s] \in LeaveLabels <=> pc[s] \in LeaveLabels \/ s = t
        /\ pc'[s] = "wake_del2" <=> pc[s] = "wake_del2"
        /\ pc'[s] = "wake_del1" <=> pc[s] = "wake_del1"
  BY <1>1, <1>2 DEF LooseLabels, LeaveLabels
<1>4. Loose' = Loose /\ Leaving' = Leaving \cup {arg[t]}
  BY <1>1, <1>3 DEF Loose, Leaving
<1>5. pc[t] \in OwnLabels
  BY <1>1 DEF OwnLabels
<1>6. arg[t] \in Threads /\ arg[t] \in allocated /\ arg[t] # t
  BY <1>5 DEF Good, WInv, Owned, Base, TypeOK
<1>7. arg[t] \notin Loose
  <2> SUFFICES ASSUME NEW s \in Threads, pc[s] \in LooseLabels, arg[s] = arg[t]
               PROVE  FALSE
    BY DEF Loose
  <2>1. s = t
    BY <1>5, OneOwner DEF OwnLabels
  <2>2. QED
    BY <1>1, <2>1 DEF LooseLabels
<1>8. ASSUME NEW s \in Threads PROVE Place(s)' = Place(s)
  <2>1. CASE s # arg[t]
    <3>1. tstate'[s] = tstate[s]
      BY <1>1, <2>1 DEF Good, Base, TypeOK
    <3>2. QED
      BY <1>1, <1>4, <2>1, <3>1 DEF Place
  <2>2. CASE s = arg[t]
    BY <1>1, <1>4, <1>6, <1>7, <2>2 DEF Place, HomeOf
  <2>3. QED
    BY <2>1, <2>2
<1>9. \A s \in Threads : pc'[s] = "wake_del1" =>
                reg'[s] = <<links.prev[arg'[s]], links.next[arg'[s]]>>
  BY <1>1, <1>3 DEF Good, WInv, ListInv, SleepRing
<1>10. QED
  BY <1>1, <1>2, <1>3, <1>4, <1>6, <1>7, <1>8, <1>9, StillLists

(* list_del reads the neighbours.                                          *)
LEMMA WakeDelLists ==
  ASSUME Good, NEW t \in Threads, WakeDel(t)
  PROVE  /\ ListInv' /\ Ready(MutexHead)' = Ready(MutexHead)
         /\ \A h \in Heads : Q(h)' = Q(h)
         /\ Loose' = Loose /\ Leaving' = Leaving
<1>1. /\ t = current /\ pc[t] = "wake_del"
      /\ UNCHANGED <<links, current, allocated, tstate, arg>>
      /\ reg' = [reg EXCEPT ![t] = <<links.prev[arg[t]], links.next[arg[t]]>>]
      /\ pc' = [pc EXCEPT ![t] = "wake_del1"]
  BY DEF WakeDel, At, Goto, cpuVars, userVars
<1>2. /\ pc'[t] = "wake_del1" /\ reg'[t] = <<links.prev[arg[t]], links.next[arg[t]]>>
      /\ \A s \in Threads : s # t => pc'[s] = pc[s] /\ reg'[s] = reg[s]
  BY <1>1 DEF Good, Base, TypeOK
<1>3. \A s \in Threads :
        /\ pc'[s] \in LooseLabels <=> pc[s] \in LooseLabels
        /\ pc'[s] \in LeaveLabels <=> pc[s] \in LeaveLabels
        /\ pc'[s] = "wake_del2" <=> pc[s] = "wake_del2"
        /\ pc'[s] = "wake_del1" <=> pc[s] = "wake_del1" \/ s = t
  BY <1>1, <1>2 DEF LooseLabels, LeaveLabels
<1>4. Loose' = Loose /\ Leaving' = Leaving
  BY <1>1, <1>3 DEF Loose, Leaving
<1>5. \A s \in Threads : Place(s)' = Place(s)
  BY <1>1, <1>4 DEF Place
<1>6. \A s \in Threads : pc'[s] = "wake_del1" =>
                reg'[s] = <<links.prev[arg'[s]], links.next[arg'[s]]>>
  BY <1>1, <1>2, <1>3 DEF Good, WInv, ListInv, SleepRing
<1>7. \A s \in Threads : pc[s] = "wake_del2" => reg'[s] = reg[s]
  BY <1>1, <1>2
<1>8. QED
  BY <1>1, <1>2, <1>3, <1>4, <1>5, <1>6, <1>7, StillLists

-----------------------------------------------------------------------------
(* create_thread and wake put a thread on running_threads, store by store. *)

(* The thread t is in the section of threads_mgmt_lock and has it alone.   *)
LEMMA Alone ==
  ASSUME Good, NEW t \in Threads, pc[t] \in MgmtLabels
  PROVE  \A s \in Threads : s # t => pc[s] \notin MgmtLabels \cup LeaveLabels \cup LooseLabels
BY OneInMgmt DEF MgmtLabels, LeaveLabels, LooseLabels

LEMMA LooseStands ==
  ASSUME Good, NEW t \in Threads, pc[t] \in LooseLabels
  PROVE  /\ arg[t] \in Threads /\ arg[t] \in allocated
         /\ arg[t] # current /\ arg[t] \notin Leaving
         /\ tstate[arg[t]] = "RUNNING"
         /\ \A h \in Heads : arg[t] \notin Members(Q(h))
<1>1. arg[t] \in Threads /\ arg[t] \in Loose
  BY DEF Loose, Good, Base, TypeOK
<1>2. pc[t] \in OwnLabels /\ pc[t] \in LeaveLabels \cup LooseLabels \cup {"insert2"}
  BY DEF OwnLabels
<1>3. arg[t] \notin Leaving
  BY <1>1, LeavingStands DEF Leaving
<1>4. arg[t] # current /\ arg[t] \in allocated /\ tstate[arg[t]] = "RUNNING"
  BY <1>1, <1>2 DEF Good, WInv, Owned, StateInv, CurrentFits, Fits
<1>5. Place(arg[t]) = {}
  BY <1>1 DEF Place
<1>6. QED
  BY <1>1, <1>3, <1>4, <1>5 DEF Good, WInv, ListInv, Placed

LEMMA InsertLists ==
  ASSUME Good, NEW t \in Threads, Insert(t)
  PROVE  /\ ListInv' /\ Ready(MutexHead)' = Ready(MutexHead)
         /\ \A h \in Heads : Q(h)' = Q(h)
         /\ Loose' = Loose /\ Leaving' = Leaving
<1> DEFINE u == arg[t]
           p == links.prev[RunHead]
<1>1. /\ t = current /\ pc[t] = "insert"
      /\ UNCHANGED <<current, allocated, tstate, arg>>
      /\ reg' = [reg EXCEPT ![t] = <<p, RunHead>>]
      /\ links' = LinkNew(links, u, p, RunHead)
      /\ pc' = [pc EXCEPT ![t] = "insert1"]
  BY DEF Insert, At, Goto, userVars
<1>2. /\ pc'[t] = "insert1" /\ reg'[t] = <<p, RunHead>>
      /\ \A s \in Threads : s # t => pc'[s] = pc[s] /\ reg'[s] = reg[s]
  BY <1>1 DEF Good, Base, TypeOK
<1>3. /\ u \in Threads /\ links \in Links /\ p \in Nodes \cup {NULL}
      /\ RunHead \in Nodes
      /\ \A h \in Heads : u \notin {h} \cup Members(Q(h))
  BY <1>1, LooseStands, NodeFacts DEF LooseLabels, Good, Base, TypeOK, Links
<1>4. /\ links' \in Links
      /\ links'.next[u] = RunHead /\ links'.prev[u] = p
      /\ \A x \in Nodes \ {u} :
           links'.next[x] = links.next[x] /\ links'.prev[x] = links.prev[x]
  <2>1. links' \in Links
    BY <1>1, <1>3, LinkNewType
  <2>2. QED
    BY <1>1, <1>3, <2>1, NodeFacts DEF LinkNew, Links
<1> HIDE DEF u, p
<1>5. \A h \in Heads : \A x \in {h} \cup Members(Q(h)) :
        links'.next[x] = links.next[x] /\ links'.prev[x] = links.prev[x]
  BY <1>3, <1>4, QType, NodeFacts
<1>6. \A s \in Threads : s # t =>
        pc[s] \notin MgmtLabels \cup LeaveLabels \cup LooseLabels
  BY <1>1, Alone DEF MgmtLabels
<1>7. Q(SleepHead)' = Q(SleepHead) /\ SleepRing'
  <2>1. \A s \in Threads :
          /\ pc'[s] = "wake_del1" <=> pc[s] = "wake_del1"
          /\ pc'[s] = "wake_del2" <=> pc[s] = "wake_del2"
          /\ pc[s] \notin {"wake_del1", "wake_del2"}
    BY <1>1, <1>2, <1>6 DEF LeaveLabels, LooseLabels
  <2>2. QED
    BY <1>4, <1>5, <2>1, SleepKept, NodeFacts
<1>8. /\ Q(MutexHead)' = Q(MutexHead) /\ Ready(MutexHead)' = Ready(MutexHead)
      /\ MutexRing'
  BY <1>4, <1>5, MutexKept, NodeFacts
<1>9. Q(RunHead)' = Q(RunHead) /\ RunRing'
  <2>1. Ring(links, RunHead, Q(RunHead)) /\ Q(RunHead) \in Seq(Threads)
    BY <1>1, CurrentRings, QType, NodeFacts
  <2>2. Ring(links', RunHead, Q(RunHead))
    BY <1>5, <2>1, RingKept, NodeFacts
  <2>3. Q(RunHead)' = Q(RunHead)
    BY <1>4, <2>1, <2>2, RingRead, NodeFacts DEF Q
  <2>4. links'.prev[RunHead] = p
    BY <1>5, NodeFacts DEF p
  <2>5. QED
    BY <1>1, <1>2, <1>4, <2>2, <2>3, <2>4 DEF RunRing, u
<1>10. \A s \in Threads : /\ pc'[s] \in LooseLabels <=> pc[s] \in LooseLabels
                          /\ pc'[s] \in LeaveLabels <=> pc[s] \in LeaveLabels
  BY <1>1, <1>2 DEF LooseLabels, LeaveLabels
<1>11. Loose' = Loose /\ Leaving' = Leaving
  BY <1>1, <1>10 DEF Loose, Leaving
<1>12. \A s \in Threads : Place(s)' = Place(s)
  BY <1>1, <1>11 DEF Place
<1>13. \A h \in Heads : Q(h)' = Q(h)
  BY <1>7, <1>8, <1>9 DEF Heads
<1>14. Placed'
  BY <1>12, <1>13 DEF Placed, Good, WInv, ListInv
<1>15. QED
  BY <1>7, <1>8, <1>9, <1>11, <1>13, <1>14 DEF ListInv, Good, WInv

LEMMA InsertNextLists ==
  ASSUME Good, NEW t \in Threads, InsertNext(t)
  PROVE  /\ ListInv' /\ Ready(MutexHead)' = Ready(MutexHead)
         /\ Q(RunHead)' = Append(Q(RunHead), arg[t])
         /\ Q(SleepHead)' = Q(SleepHead) /\ Q(MutexHead)' = Q(MutexHead)
         /\ Loose' = Loose \ {arg[t]} /\ Leaving' = Leaving
<1> DEFINE u  == arg[t]
           p  == links.prev[RunHead]
           rq == Q(RunHead)
           l2 == ListAddTail(links, u, RunHead)
           X  == Nodes \cup {NULL}
<1>1. /\ t = current /\ pc[t] = "insert1"
      /\ UNCHANGED <<current, allocated, tstate, arg, reg>>
      /\ links' = SetNext(links, reg[t][1], u)
      /\ pc' = [pc EXCEPT ![t] = "insert2"]
  BY DEF InsertNext, At, Goto, userVars
<1>2. pc'[t] = "insert2" /\ \A s \in Threads : s # t => pc'[s] = pc[s]
  BY <1>1 DEF Good, Base, TypeOK
<1>3. /\ reg[t] = <<p, RunHead>> /\ links.next[u] = RunHead /\ links.prev[u] = p
  BY <1>1 DEF Good, WInv, ListInv, RunRing
<1>4. /\ u \in Threads /\ u \in allocated /\ u # current /\ u \notin Leaving
      /\ tstate[u] = "RUNNING" /\ links \in Links
      /\ \A h \in Heads : u \notin {h} \cup Members(Q(h))
  BY <1>1, LooseStands, NodeFacts DEF LooseLabels, Good, Base, TypeOK
<1>5. /\ Ring(links, RunHead, rq) /\ rq \in Seq(Threads) /\ rq \in Seq(Nodes)
      /\ u \in Nodes /\ RunHead \in Nodes /\ Nodes \subseteq X
      /\ links \in Pointers(Nodes, X) /\ u # RunHead
      /\ Members(rq) \subseteq Threads
  BY <1>1, <1>4, CurrentRings, QType, NodeFacts, LinksArePointers
<1> HIDE DEF X, rq, u
<1>6. p \in {RunHead} \cup Members(rq) /\ p \in Nodes
  BY <1>5, RingCloses, NodeFacts
<1>7. LinkNew(links, u, p, RunHead) = links
  <2>1. [links.next EXCEPT ![u] = RunHead] = links.next
    BY <1>3, <1>4 DEF Links
  <2>2. [links.prev EXCEPT ![u] = p] = links.prev
    BY <1>3, <1>4 DEF Links
  <2>3. QED
    BY <1>4, <2>1, <2>2 DEF LinkNew, Links
<1>8. links' = SetNext(links, p, u) /\ SetPrev(links', RunHead, u) = l2
  BY <1>1, <1>3, <1>7 DEF ListAddTail, ListInsert
<1>9. links' \in Links /\ l2 \in Links /\ l2.next = links'.next
  <2>1. links' \in Links
    BY <1>4, <1>8, StoreType, NodeFacts
  <2>2. l2 \in Links
    BY <1>4, <1>8, <2>1, StoreType, NodeFacts
  <2>3. QED
    BY <1>8, <2>1, <2>2 DEF SetPrev, Links
<1>10. Ring(l2, RunHead, Append(rq, u)) /\ Append(rq, u) \in Seq(Threads)
       /\ Members(Append(rq, u)) = Members(rq) \cup {u}
  <2>1. u \notin Members(rq)
    BY <1>4, NodeFacts DEF rq
  <2>2. Ring(l2, RunHead, Append(rq, u))
    BY <1>5, <2>1, RingAddTail
  <2>3. QED
    BY <1>4, <1>5, <2>2, MembersAppend
<1> HIDE DEF l2
<1>11. Q(RunHead)' = Append(rq, u)
  BY <1>9, <1>10, RingReads, NodeFacts DEF Q
<1>12. RunRing'
  BY <1>1, <1>2, <1>3, <1>8, <1>10, <1>11 DEF RunRing, u
<1>13. \A x \in Nodes \ ({RunHead} \cup Members(rq)) :
         links'.next[x] = links.next[x] /\ links'.prev[x] = links.prev[x]
  BY <1>4, <1>6, <1>8 DEF SetNext, Links
<1>14. /\ \A x \in {SleepHead} \cup Members(Q(SleepHead)) :
            links'.next[x] = links.next[x] /\ links'.prev[x] = links.prev[x]
       /\ \A x \in {MutexHead} \cup Members(Q(MutexHead)) :
            links'.next[x] = links.next[x] /\ links'.prev[x] = links.prev[x]
  BY <1>5, <1>13, Apart, QType, NodeFacts DEF rq
<1>15. \A s \in Threads : s # t =>
         pc[s] \notin MgmtLabels \cup LeaveLabels \cup LooseLabels
  BY <1>1, Alone DEF MgmtLabels
<1>16. Q(SleepHead)' = Q(SleepHead) /\ SleepRing'
  <2>1. \A s \in Threads :
          /\ pc'[s] = "wake_del1" <=> pc[s] = "wake_del1"
          /\ pc'[s] = "wake_del2" <=> pc[s] = "wake_del2"
          /\ pc[s] \notin {"wake_del1", "wake_del2"}
    BY <1>1, <1>2, <1>15 DEF LeaveLabels, LooseLabels
  <2>2. QED
    BY <1>9, <1>14, <2>1, SleepKept
<1>17. /\ Q(MutexHead)' = Q(MutexHead) /\ Ready(MutexHead)' = Ready(MutexHead)
       /\ MutexRing'
  BY <1>9, <1>14, MutexKept
<1>18. Loose' = {} /\ Loose = {u} /\ Leaving' = Leaving
  <2>1. \A s \in Threads : /\ pc'[s] \notin LooseLabels
                           /\ pc[s] \in LooseLabels <=> s = t
                           /\ pc'[s] \in LeaveLabels <=> pc[s] \in LeaveLabels
    BY <1>1, <1>2, <1>15 DEF LooseLabels, LeaveLabels
  <2>2. QED
    BY <1>1, <2>1 DEF Loose, Leaving, u
<1>19. Placed'
  <2> SUFFICES ASSUME NEW s \in Threads, NEW h \in Heads
               PROVE  s \in Members(Q(h)') <=> h \in Place(s)'
    BY DEF Placed
  <2>0. h = RunHead \/ h = SleepHead \/ h = MutexHead
    BY DEF Heads
  <2>1. CASE s # u
    <3>1. Place(s)' = Place(s)
      BY <1>1, <1>18, <2>1 DEF Place
    <3>2. s \in Members(Q(h)') <=> s \in Members(Q(h))
      BY <1>10, <1>11, <1>16, <1>17, <2>0, <2>1 DEF rq
    <3>3. QED
      BY <3>1, <3>2 DEF Good, WInv, ListInv, Placed
  <2>2. CASE s = u
    <3>1. Place(s)' = {RunHead}
      BY <1>1, <1>4, <1>18, <2>2 DEF Place, HomeOf
    <3>2. s \in Members(Q(RunHead)')
      BY <1>10, <1>11, <2>2
    <3>3. s \notin Members(Q(SleepHead)') /\ s \notin Members(Q(MutexHead)')
      BY <1>4, <1>16, <1>17, <2>2, NodeFacts
    <3>4. QED
      BY <2>0, <3>1, <3>2, <3>3, NodeFacts
  <2>3. QED
    BY <2>1, <2>2
<1>20. \A h \in Heads : Q(h)' \in Seq(Threads)
  BY <1>10, <1>11, <1>16, <1>17, QType DEF Heads
<1>21. QED
  BY <1>11, <1>12, <1>16, <1>17, <1>18, <1>19, <1>20 DEF ListInv, rq, u

LEMMA InsertPrevLists ==
  ASSUME Good, NEW t \in Threads, InsertPrev(t)
  PROVE  /\ ListInv' /\ Ready(MutexHead)' = Ready(MutexHead)
         /\ \A h \in Heads : Q(h)' = Q(h)
         /\ Loose' = Loose /\ Leaving' = Leaving
<1> DEFINE rq == Q(RunHead)
<1>1. /\ t = current /\ pc[t] = "insert2"
      /\ UNCHANGED <<current, allocated, tstate, arg>>
      /\ links' = SetPrev(links, reg[t][2], arg[t])
      /\ reg' = [reg EXCEPT ![t] = <<NULL, NULL>>]
      /\ pc' = [pc EXCEPT ![t] = "insert_unlock"]
  BY DEF InsertPrev, At, Goto, userVars
<1>2. /\ pc'[t] = "insert_unlock"
      /\ \A s \in Threads : s # t => pc'[s] = pc[s] /\ reg'[s] = reg[s]
  BY <1>1 DEF Good, Base, TypeOK
<1>3. links' = SetPrev(links, RunHead, arg[t]) /\ Ring(links', RunHead, rq)
  BY <1>1 DEF Good, WInv, ListInv, RunRing
<1>4. /\ links \in Links /\ links' \in Links /\ rq \in Seq(Threads)
      /\ \A x \in Nodes \ {RunHead} :
           links'.next[x] = links.next[x] /\ links'.prev[x] = links.prev[x]
  <2>1. arg[t] \in Nodes \cup {NULL} /\ links \in Links
    BY NodeFacts DEF Good, Base, TypeOK
  <2>2. links' \in Links
    BY <1>3, <2>1, StoreType
  <2>3. QED
    BY <1>3, <2>1, <2>2, QType, NodeFacts DEF SetPrev, Links
<1>5. Q(RunHead)' = rq
  BY <1>3, <1>4, RingRead, NodeFacts DEF Q
<1>6. RunRing'
  BY <1>1, <1>2, <1>3, <1>5 DEF RunRing
<1>7. /\ \A x \in {SleepHead} \cup Members(Q(SleepHead)) :
           links'.next[x] = links.next[x] /\ links'.prev[x] = links.prev[x]
      /\ \A x \in {MutexHead} \cup Members(Q(MutexHead)) :
           links'.next[x] = links.next[x] /\ links'.prev[x] = links.prev[x]
  BY <1>4, QType, NodeFacts
<1>8. \A s \in Threads : s # t =>
        pc[s] \notin MgmtLabels \cup LeaveLabels \cup LooseLabels
  BY <1>1, Alone DEF MgmtLabels
<1>9. Q(SleepHead)' = Q(SleepHead) /\ SleepRing'
  <2>1. \A s \in Threads :
          /\ pc'[s] = "wake_del1" <=> pc[s] = "wake_del1"
          /\ pc'[s] = "wake_del2" <=> pc[s] = "wake_del2"
          /\ pc[s] \notin {"wake_del1", "wake_del2"}
    BY <1>1, <1>2, <1>8 DEF LeaveLabels, LooseLabels
  <2>2. QED
    BY <1>4, <1>7, <2>1, SleepKept
<1>10. /\ Q(MutexHead)' = Q(MutexHead) /\ Ready(MutexHead)' = Ready(MutexHead)
       /\ MutexRing'
  BY <1>4, <1>7, MutexKept
<1>11. Loose' = Loose /\ Leaving' = Leaving
  <2>1. \A s \in Threads : /\ pc'[s] \in LooseLabels <=> pc[s] \in LooseLabels
                           /\ pc'[s] \in LeaveLabels <=> pc[s] \in LeaveLabels
    BY <1>1, <1>2 DEF LooseLabels, LeaveLabels
  <2>2. QED
    BY <1>1, <2>1 DEF Loose, Leaving
<1>12. \A s \in Threads : Place(s)' = Place(s)
  BY <1>1, <1>11 DEF Place
<1>13. \A h \in Heads : Q(h)' = Q(h)
  BY <1>5, <1>9, <1>10 DEF Heads
<1>14. Placed'
  BY <1>12, <1>13 DEF Placed, Good, WInv, ListInv
<1>15. QED
  BY <1>6, <1>9, <1>10, <1>11, <1>13, <1>14 DEF ListInv, Good, WInv

LEMMA WakeDelNextLists ==
  ASSUME Good, NEW t \in Threads, WakeDelNext(t)
  PROVE  /\ ListInv' /\ Ready(MutexHead)' = Ready(MutexHead)
         /\ Q(RunHead)' = Q(RunHead) /\ Q(MutexHead)' = Q(MutexHead)
         /\ \E i \in 1..Len(Q(SleepHead)) :
              Q(SleepHead)[i] = arg[t] /\ Q(SleepHead)' = Cut(Q(SleepHead), i)
         /\ Loose' = Loose \cup {arg[t]} /\ Leaving' = Leaving \ {arg[t]}
<1> DEFINE u  == arg[t]
           p  == links.prev[u]
           n  == links.next[u]
           sq == Q(SleepHead)
           l2 == ListDel(links, u)
           X  == Nodes \cup {NULL}
<1>1. /\ t = current /\ pc[t] = "wake_del1"
      /\ UNCHANGED <<current, allocated, tstate, arg, reg>>
      /\ links' = SetNext(links, reg[t][1], reg[t][2])
      /\ pc' = [pc EXCEPT ![t] = "wake_del2"]
  BY DEF WakeDelNext, At, Goto, userVars
<1>2. pc'[t] = "wake_del2" /\ \A s \in Threads : s # t => pc'[s] = pc[s]
  BY <1>1 DEF Good, Base, TypeOK
<1>3. reg[t] = <<p, n>>
  BY <1>1 DEF Good, WInv, ListInv, SleepRing
<1>4. /\ u \in Threads /\ u \in Members(sq) /\ u \in allocated
      /\ u # current /\ u \notin Loose
  BY <1>1, LeavingStands DEF LeaveLabels
<1>5. \A s \in Threads : s # t =>
        pc[s] \notin MgmtLabels \cup LeaveLabels \cup LooseLabels
  BY <1>1, Alone DEF MgmtLabels
<1>6. /\ Ring(links, SleepHead, sq) /\ sq \in Seq(Threads) /\ sq \in Seq(Nodes)
      /\ u \in Nodes /\ SleepHead \in Nodes /\ Nodes \subseteq X
      /\ links \in Pointers(Nodes, X) /\ links \in Links
      /\ Members(sq) \subseteq Threads
  <2>1. \A s \in Threads : pc[s] # "wake_del2"
    BY <1>1, <1>5 DEF LooseLabels
  <2>2. QED
    BY <1>1, <1>4, <2>1, CurrentRings, QType, NodeFacts, LinksArePointers
       DEF Good, Base, TypeOK
<1> HIDE DEF X, sq, u
<1>7. PICK i \in 1..Len(sq) : sq[i] = u
  BY <1>4 DEF Members
<1>8. p \in ({SleepHead} \cup Members(sq)) \ {u} /\ n \in ({SleepHead} \cup Members(sq)) \ {u}
  <2>1. p \in {SleepHead} \cup Members(sq) /\ n \in {SleepHead} \cup Members(sq)
    BY <1>4, <1>6, RingCloses
  <2>2. /\ n = Stop(SleepHead, sq, i+1) /\ p = Stop(SleepHead, sq, i-1)
    <3>1. i \in 0..Len(sq) /\ i-1 \in 0..Len(sq) /\ (i-1)+1 = i
          /\ Stop(SleepHead, sq, i) = u
      BY <1>7 DEF Stop
    <3>2. QED
      BY <1>6, <3>1 DEF Ring
  <2>3. Stop(SleepHead, sq, i+1) # u /\ Stop(SleepHead, sq, i-1) # u
    <3>1. \A k \in 1..Len(sq) : k # i => sq[k] # u
      BY <1>6, <1>7 DEF Ring
    <3>2. SleepHead # u
      BY <1>4, NodeFacts
    <3>3. QED
      BY <1>7, <3>1, <3>2 DEF Stop
  <2>4. QED
    BY <2>1, <2>2, <2>3
<1>9. links' = SetNext(links, p, n) /\ SetPrev(links', n, p) = l2
  BY <1>1, <1>3 DEF ListDel
<1>10. p \in Nodes /\ n \in Nodes
  BY <1>6, <1>8, NodeFacts
<1>11. links' \in Links /\ l2 \in Links /\ l2.next = links'.next
  <2>1. links' \in Links
    BY <1>6, <1>9, <1>10, StoreType
  <2>2. l2 \in Links
    BY <1>9, <1>10, <2>1, StoreType
  <2>3. QED
    BY <1>9, <2>1, <2>2 DEF SetPrev, Links
<1> HIDE DEF l2, n, p
<1>12. /\ Ring(l2, SleepHead, Cut(sq, i)) /\ Cut(sq, i) \in Seq(Threads)
       /\ Members(Cut(sq, i)) = Members(sq) \ {u}
  <2>1. Ring(l2, SleepHead, Cut(sq, i))
    BY <1>6, <1>7, RingDel DEF l2
  <2>2. \A j, k \in 1..Len(sq) : sq[j] = sq[k] => j = k
    BY <1>6 DEF Ring
  <2>3. QED
    BY <1>6, <1>7, <2>1, <2>2, CutType, MembersCut
<1>13. Q(SleepHead)' = Cut(sq, i)
  BY <1>11, <1>12, RingReads, NodeFacts DEF Q
<1>14. SleepRing'
  <2>1. \A s \in Threads : pc'[s] # "wake_del1" /\ (pc'[s] = "wake_del2" => s = t)
    BY <1>2, <1>5 DEF LeaveLabels, LooseLabels
  <2>2. pc'[t] = "wake_del2" /\ reg'[t] = <<p, n>>
    BY <1>1, <1>2, <1>3
  <2>3. Ring(SetPrev(links', n, p), SleepHead, Cut(sq, i))
    BY <1>9, <1>12
  <2>4. {p, n} \subseteq {SleepHead} \cup Members(Cut(sq, i))
    BY <1>8, <1>12
  <2>5. QED
    BY <1>13, <2>1, <2>2, <2>3, <2>4 DEF SleepRing
<1>15. \A x \in Nodes \ ({SleepHead} \cup Members(sq)) :
         links'.next[x] = links.next[x] /\ links'.prev[x] = links.prev[x]
  BY <1>6, <1>8, <1>9 DEF SetNext, Links
<1>16. /\ \A x \in {RunHead} \cup Members(Q(RunHead)) :
            links'.next[x] = links.next[x] /\ links'.prev[x] = links.prev[x]
       /\ \A x \in {MutexHead} \cup Members(Q(MutexHead)) :
            links'.next[x] = links.next[x] /\ links'.prev[x] = links.prev[x]
  BY <1>6, <1>15, Apart, QType, NodeFacts DEF sq
<1>17. Q(RunHead)' = Q(RunHead) /\ RunRing'
  <2>1. pc[current] # "insert2" /\ pc'[current'] \notin {"insert1", "insert2"}
    BY <1>1, <1>2
  <2>2. QED
    BY <1>11, <1>16, <2>1, RunKept
<1>18. /\ Q(MutexHead)' = Q(MutexHead) /\ Ready(MutexHead)' = Ready(MutexHead)
       /\ MutexRing'
  BY <1>11, <1>16, MutexKept
<1>19. Loose = {} /\ Loose' = {u} /\ Leaving = {u} /\ Leaving' = {}
  <2>1. \A s \in Threads : /\ pc[s] \notin LooseLabels /\ pc'[s] \notin LeaveLabels
                           /\ pc[s] \in LeaveLabels <=> s = t
                           /\ pc'[s] \in LooseLabels <=> s = t
    BY <1>1, <1>2, <1>5 DEF LooseLabels, LeaveLabels
  <2>2. QED
    BY <1>1, <2>1 DEF Loose, Leaving, u
<1>20. Placed'
  <2> SUFFICES ASSUME NEW s \in Threads, NEW h \in Heads
               PROVE  s \in Members(Q(h)') <=> h \in Place(s)'
    BY DEF Placed
  <2>0. h = RunHead \/ h = SleepHead \/ h = MutexHead
    BY DEF Heads
  <2>1. CASE s # u
    <3>1. Place(s)' = Place(s)
      BY <1>1, <1>19, <2>1 DEF Place
    <3>2. s \in Members(Q(h)') <=> s \in Members(Q(h))
      BY <1>12, <1>13, <1>17, <1>18, <2>0, <2>1 DEF sq
    <3>3. QED
      BY <3>1, <3>2 DEF Good, WInv, ListInv, Placed
  <2>2. CASE s = u
    <3>1. Place(s)' = {}
      BY <1>19, <2>2 DEF Place
    <3>2. s \notin Members(Q(SleepHead)')
      BY <1>12, <1>13, <2>2
    <3>3. s \notin Members(Q(RunHead)') /\ s \notin Members(Q(MutexHead)')
      BY <1>4, <1>17, <1>18, <2>2, Apart DEF sq
    <3>4. QED
      BY <2>0, <3>1, <3>2, <3>3
  <2>3. QED
    BY <2>1, <2>2
<1>21. \A h \in Heads : Q(h)' \in Seq(Threads)
  BY <1>12, <1>13, <1>17, <1>18, QType DEF Heads
<1>22. QED
  BY <1>7, <1>13, <1>14, <1>17, <1>18, <1>19, <1>20, <1>21 DEF ListInv, sq, u

LEMMA WakeDelPrevLists ==
  ASSUME Good, NEW t \in Threads, WakeDelPrev(t)
  PROVE  /\ ListInv' /\ Ready(MutexHead)' = Ready(MutexHead)
         /\ \A h \in Heads : Q(h)' = Q(h)
         /\ Loose' = Loose /\ Leaving' = Leaving
<1> DEFINE sq == Q(SleepHead)
<1>1. /\ t = current /\ pc[t] = "wake_del2"
      /\ UNCHANGED <<current, allocated, tstate, arg>>
      /\ links' = SetPrev(links, reg[t][2], reg[t][1])
      /\ reg' = [reg EXCEPT ![t] = <<NULL, NULL>>]
      /\ pc' = [pc EXCEPT ![t] = "insert"]
  BY DEF WakeDelPrev, At, Goto, userVars
<1>2. /\ pc'[t] = "insert"
      /\ \A s \in Threads : s # t => pc'[s] = pc[s] /\ reg'[s] = reg[s]
  BY <1>1 DEF Good, Base, TypeOK
<1>3. /\ reg[t][1] \in {SleepHead} \cup Members(sq)
      /\ reg[t][2] \in {SleepHead} \cup Members(sq)
      /\ Ring(links', SleepHead, sq) /\ sq \in Seq(Threads)
      /\ Members(sq) \subseteq Threads
  BY <1>1, QType, NodeFacts DEF Good, WInv, ListInv, SleepRing
<1> HIDE DEF sq
<1>4. /\ links \in Links /\ links' \in Links
      /\ \A x \in Nodes \ ({SleepHead} \cup Members(sq)) :
           links'.next[x] = links.next[x] /\ links'.prev[x] = links.prev[x]
  <2>1. reg[t][1] \in Nodes \cup {NULL} /\ links \in Links
    BY DEF Good, Base, TypeOK
  <2>2. links' \in Links
    BY <1>1, <2>1, StoreType
  <2>3. QED
    BY <1>1, <1>3, <2>1, <2>2 DEF SetPrev, Links
<1>5. \A s \in Threads : s # t =>
        pc[s] \notin MgmtLabels \cup LeaveLabels \cup LooseLabels
  BY <1>1, Alone DEF MgmtLabels
<1>6. Q(SleepHead)' = sq /\ SleepRing'
  <2>1. Q(SleepHead)' = sq
    BY <1>3, <1>4, RingRead, NodeFacts DEF Q
  <2>2. \A s \in Threads : pc'[s] # "wake_del1" /\ pc'[s] # "wake_del2"
    BY <1>2, <1>5 DEF LeaveLabels, LooseLabels
  <2>3. QED
    BY <1>3, <2>1, <2>2 DEF SleepRing
<1>7. /\ \A x \in {RunHead} \cup Members(Q(RunHead)) :
           links'.next[x] = links.next[x] /\ links'.prev[x] = links.prev[x]
      /\ \A x \in {MutexHead} \cup Members(Q(MutexHead)) :
           links'.next[x] = links.next[x] /\ links'.prev[x] = links.prev[x]
  BY <1>3, <1>4, Apart, QType, NodeFacts DEF sq
<1>8. Q(RunHead)' = Q(RunHead) /\ RunRing'
  <2>1. pc[current] # "insert2" /\ pc'[current'] \notin {"insert1", "insert2"}
    BY <1>1, <1>2
  <2>2. QED
    BY <1>4, <1>7, <2>1, RunKept
<1>9. /\ Q(MutexHead)' = Q(MutexHead) /\ Ready(MutexHead)' = Ready(MutexHead)
      /\ MutexRing'
  BY <1>4, <1>7, MutexKept
<1>10. Loose' = Loose /\ Leaving' = Leaving
  <2>1. \A s \in Threads : /\ pc'[s] \in LooseLabels <=> pc[s] \in LooseLabels
                           /\ pc'[s] \in LeaveLabels <=> pc[s] \in LeaveLabels
    BY <1>1, <1>2 DEF LooseLabels, LeaveLabels
  <2>2. QED
    BY <1>1, <2>1 DEF Loose, Leaving
<1>11. \A s \in Threads : Place(s)' = Place(s)
  BY <1>1, <1>10 DEF Place
<1>12. \A h \in Heads : Q(h)' = Q(h)
  BY <1>6, <1>8, <1>9 DEF Heads, sq
<1>13. Placed'
  BY <1>11, <1>12 DEF Placed, Good, WInv, ListInv
<1>14. QED
  BY <1>6, <1>8, <1>9, <1>10, <1>12, <1>13 DEF ListInv, Good, WInv

-----------------------------------------------------------------------------
(* The mutex queue.                                                        *)

(* The labels of a step of mutex_lock or mutex_unlock.                     *)
LEMMA MutexLabelsApart ==
  ASSUME Good, NEW t \in Threads, pc[t] \in MutexLabels, NEW l \in MutexLabels \cup {"user"},
         pc' = [pc EXCEPT ![t] = l], UNCHANGED arg
  PROVE  /\ pc'[t] = l
         /\ \A s \in Threads : s # t => pc'[s] = pc[s]
         /\ \A s \in Threads : /\ pc'[s] = "wake_del1" <=> pc[s] = "wake_del1"
                               /\ pc'[s] = "wake_del2" <=> pc[s] = "wake_del2"
         /\ Loose' = Loose /\ Leaving' = Leaving
         /\ pc[t] \notin {"insert1", "insert2"} /\ pc'[t] \notin {"insert1", "insert2"}
<1>1. pc'[t] = l /\ \A s \in Threads : s # t => pc'[s] = pc[s]
  BY DEF Good, Base, TypeOK
<1>2. \A s \in Threads : /\ pc'[s] = "wake_del1" <=> pc[s] = "wake_del1"
                         /\ pc'[s] = "wake_del2" <=> pc[s] = "wake_del2"
                         /\ pc'[s] \in LooseLabels <=> pc[s] \in LooseLabels
                         /\ pc'[s] \in LeaveLabels <=> pc[s] \in LeaveLabels
  BY <1>1 DEF LooseLabels, LeaveLabels, MutexLabels
<1>3. pc[t] \notin {"insert1", "insert2"} /\ pc'[t] \notin {"insert1", "insert2"}
  BY <1>1 DEF MutexLabels
<1>4. QED
  BY <1>1, <1>2, <1>3 DEF Loose, Leaving

LEMMA MutexInitLists ==
  ASSUME Good, NEW t \in Threads, MutexInit(t)
  PROVE  /\ ListInv' /\ Ready(MutexHead)'
         /\ \A h \in Heads : Q(h)' = Q(h)
         /\ Q(MutexHead) = <<>>
         /\ Loose' = Loose /\ Leaving' = Leaving
<1>1. /\ t = current /\ pc[t] = "mlock_init"
      /\ UNCHANGED <<current, allocated, tstate, arg, reg>>
      /\ links' = ListInit(links, MutexHead)
      /\ pc' = [pc EXCEPT ![t] = "user"]
  BY DEF MutexInit, At, LeaveMutex, Goto
<1>2. /\ pc'[t] = "user" /\ \A s \in Threads : s # t => pc'[s] = pc[s]
      /\ \A s \in Threads : /\ pc'[s] = "wake_del1" <=> pc[s] = "wake_del1"
                            /\ pc'[s] = "wake_del2" <=> pc[s] = "wake_del2"
      /\ Loose' = Loose /\ Leaving' = Leaving
      /\ pc[t] \notin {"insert1", "insert2"} /\ pc'[t] \notin {"insert1", "insert2"}
  BY <1>1, MutexLabelsApart DEF MutexLabels
<1>3. ~Ready(MutexHead) /\ Q(MutexHead) = <<>>
  <2>1. ~Ready(MutexHead)
    BY <1>1 DEF First, Good, WInv, WaitersInv
  <2>2. QED
    BY <2>1 DEF Q, Read, Ready
<1>4. /\ links \in Links /\ links' \in Links
      /\ \A x \in Nodes \ {MutexHead} :
           links'.next[x] = links.next[x] /\ links'.prev[x] = links.prev[x]
  <2>1. links \in Links
    BY DEF Good, Base, TypeOK
  <2>2. links' \in Links
    BY <1>1, <2>1, ListInitType, NodeFacts
  <2>3. QED
    BY <1>1, <2>1, <2>2 DEF ListInit, Links
<1>5. Ring(links', MutexHead, <<>>)
  BY <1>1, <1>4, RingInit, LinksArePointers, NodeFacts
<1>6. Q(MutexHead)' = <<>> /\ Ready(MutexHead)' /\ MutexRing'
  <2>1. <<>> \in Seq(Threads)
    OBVIOUS
  <2>2. Read(links', MutexHead) = <<>> /\ links'.next[MutexHead] # NULL
    BY <1>4, <1>5, <2>1, RingRead, NodeFacts
  <2>3. QED
    BY <1>5, <2>2 DEF Q, Ready, MutexRing
<1>7. /\ \A x \in {RunHead} \cup Members(Q(RunHead)) :
           links'.next[x] = links.next[x] /\ links'.prev[x] = links.prev[x]
      /\ \A x \in {SleepHead} \cup Members(Q(SleepHead)) :
           links'.next[x] = links.next[x] /\ links'.prev[x] = links.prev[x]
  BY <1>4, QType, NodeFacts
<1>8. Q(RunHead)' = Q(RunHead) /\ RunRing'
  BY <1>1, <1>2, <1>4, <1>7, RunKept
<1>9. Q(SleepHead)' = Q(SleepHead) /\ SleepRing'
  BY <1>1, <1>2, <1>4, <1>7, SleepKept
<1>10. \A s \in Threads : Place(s)' = Place(s)
  BY <1>1, <1>2 DEF Place
<1>11. \A h \in Heads : Q(h)' = Q(h)
  BY <1>3, <1>6, <1>8, <1>9 DEF Heads
<1>12. Placed'
  BY <1>10, <1>11 DEF Placed, Good, WInv, ListInv
<1>13. QED
  BY <1>2, <1>3, <1>6, <1>8, <1>9, <1>11, <1>12 DEF ListInv, Good, WInv

(* mutex_unlock moves the thread that has waited longest to the ready ones. *)
LEMMA MutexNotifyLists ==
  ASSUME Good, NEW t \in Threads, MutexNotify(t)
  PROVE  /\ ListInv' /\ Ready(MutexHead)' = Ready(MutexHead)
         /\ Q(MutexHead) # <<>> /\ Q(MutexHead)' = Tail(Q(MutexHead))
         /\ Q(RunHead)' = Append(Q(RunHead), Q(MutexHead)[1])
         /\ Q(SleepHead)' = Q(SleepHead)
         /\ Loose' = Loose /\ Leaving' = Leaving
         /\ arg[t] = Q(MutexHead)[1] /\ arg[t] \in Members(Q(MutexHead))
<1> DEFINE u  == arg[t]
           rq == Q(RunHead)
           mq == Q(MutexHead)
           l1 == ListDel(links, u)
           X  == Nodes \cup {NULL}
<1>1. /\ t = current /\ pc[t] = "munlock_notify"
      /\ UNCHANGED <<current, allocated, arg, reg>>
      /\ tstate' = [tstate EXCEPT ![u] = "RUNNING"]
      /\ links' = ListAddTail(l1, u, RunHead)
      /\ pc' = [pc EXCEPT ![t] = "user"]
  BY DEF MutexNotify, At, LeaveMutex, Goto, userVars
<1>2. /\ pc'[t] = "user" /\ \A s \in Threads : s # t => pc'[s] = pc[s]
      /\ \A s \in Threads : /\ pc'[s] = "wake_del1" <=> pc[s] = "wake_del1"
                            /\ pc'[s] = "wake_del2" <=> pc[s] = "wake_del2"
      /\ Loose' = Loose /\ Leaving' = Leaving
      /\ pc[t] \notin {"insert1", "insert2"} /\ pc'[t] \notin {"insert1", "insert2"}
  BY <1>1, MutexLabelsApart DEF MutexLabels
<1>3. mq # <<>> /\ u = mq[1]
  BY <1>1 DEF Good, WInv, WaitersInv
<1>4. /\ rq \in Seq(Threads) /\ mq \in Seq(Threads)
      /\ rq \in Seq(Nodes) /\ mq \in Seq(Nodes) /\ links \in Links
      /\ links \in Pointers(Nodes, X) /\ Nodes \subseteq X
      /\ RunHead \in Nodes /\ MutexHead \in Nodes /\ SleepHead \in Nodes
      /\ Members(rq) \subseteq Threads /\ Members(mq) \subseteq Threads
  BY QType, NodeFacts, LinksArePointers DEF Good, Base, TypeOK
<1>5. Ready(MutexHead)
  BY <1>3 DEF Q, Read, Ready
<1>6. Ring(links, RunHead, rq) /\ Ring(links, MutexHead, mq)
  BY <1>1, <1>5, CurrentRings
<1>7. /\ Members(rq) \cap Members(mq) = {}
      /\ Members(Q(SleepHead)) \cap Members(rq) = {}
      /\ Members(Q(SleepHead)) \cap Members(mq) = {}
      /\ Members(Q(SleepHead)) \subseteq Threads
  BY Apart, QType, NodeFacts
<1> HIDE DEF X, rq, mq, u
<1>8. /\ Tail(mq) = Cut(mq, 1) /\ Tail(mq) \in Seq(Threads) /\ u \in Threads
      /\ Members(Tail(mq)) = Members(mq) \ {u} /\ u \in Members(mq)
      /\ 1 \in 1..Len(mq)
  <2>1. \A j, k \in 1..Len(mq) : mq[j] = mq[k] => j = k
    BY <1>6 DEF Ring
  <2>2. QED
    BY <1>3, <1>4, <2>1, TailCuts, MembersTail
<1>9. u \in Nodes /\ u \notin Heads /\ u \notin Members(rq)
  BY <1>7, <1>8, NodeFacts
<1>10. Ring(l1, MutexHead, Tail(mq)) /\ l1 \in Pointers(Nodes, X)
  <2>1. Ring(ListDel(links, mq[1]), MutexHead, Cut(mq, 1))
    BY <1>4, <1>6, <1>8, RingDel
  <2>2. ListDel(links, u) \in Pointers(Nodes, X)
    BY <1>4, <1>6, <1>9, ListOpsType
  <2>3. QED
    BY <1>3, <1>8, <2>1, <2>2
<1>11. \A x \in Nodes \ ({MutexHead} \cup Members(mq)) :
         l1.next[x] = links.next[x] /\ l1.prev[x] = links.prev[x]
  BY <1>4, <1>6, <1>8, DelFrame
<1> HIDE DEF l1
<1>12. Ring(l1, RunHead, rq)
  <2>1. {RunHead} \cup Members(rq) \subseteq Nodes \ ({MutexHead} \cup Members(mq))
    BY <1>4, <1>7, NodeFacts
  <2>2. QED
    BY <1>4, <1>6, <1>11, <2>1, RingKept
<1>13. /\ Ring(links', RunHead, Append(rq, u)) /\ links' \in Links
       /\ Append(rq, u) \in Seq(Threads)
       /\ Members(Append(rq, u)) = Members(rq) \cup {u}
  <2>1. Ring(ListAddTail(l1, u, RunHead), RunHead, Append(rq, u))
    BY <1>4, <1>9, <1>10, <1>12, RingAddTail, NodeFacts
  <2>2. ListAddTail(l1, u, RunHead) \in Pointers(Nodes, X)
    BY <1>4, <1>9, <1>10, <1>12, ListOpsType
  <2>3. QED
    BY <1>1, <1>4, <1>8, <2>1, <2>2, MembersAppend, LinksArePointers DEF X
<1>14. \A x \in Nodes \ ({RunHead, u} \cup Members(rq)) :
         links'.next[x] = l1.next[x] /\ links'.prev[x] = l1.prev[x]
  BY <1>1, <1>4, <1>9, <1>10, <1>12, AddTailFrame
<1>15. Q(RunHead)' = Append(rq, u) /\ RunRing'
  <2>1. Q(RunHead)' = Append(rq, u)
    BY <1>13, RingRead, NodeFacts DEF Q
  <2>2. QED
    BY <1>1, <1>2, <1>13, <2>1 DEF RunRing
<1>16. /\ Q(MutexHead)' = Tail(mq) /\ MutexRing'
       /\ Ready(MutexHead)' = Ready(MutexHead)
  <2>1. {MutexHead} \cup Members(Tail(mq)) \subseteq Nodes \ ({RunHead, u} \cup Members(rq))
    BY <1>4, <1>7, <1>8, <1>9, NodeFacts
  <2>2. Ring(links', MutexHead, Tail(mq))
    BY <1>8, <1>10, <1>14, <2>1, RingKept
  <2>3. Read(links', MutexHead) = Tail(mq) /\ links'.next[MutexHead] # NULL
    BY <1>8, <1>13, <2>2, RingRead, NodeFacts
  <2>4. QED
    BY <1>5, <2>2, <2>3 DEF Q, Ready, MutexRing
<1>17. Q(SleepHead)' = Q(SleepHead) /\ SleepRing'
  <2>1. \A x \in {SleepHead} \cup Members(Q(SleepHead)) :
          links'.next[x] = links.next[x] /\ links'.prev[x] = links.prev[x]
    <3>1. {SleepHead} \cup Members(Q(SleepHead))
             \subseteq (Nodes \ ({RunHead, u} \cup Members(rq)))
                       \cap (Nodes \ ({MutexHead} \cup Members(mq)))
      BY <1>4, <1>7, <1>8, <1>9, NodeFacts DEF rq, mq
    <3>2. QED
      BY <1>11, <1>14, <3>1
  <2>2. QED
    BY <1>1, <1>2, <1>13, <2>1, SleepKept
<1>18. Placed'
  <2> SUFFICES ASSUME NEW s \in Threads, NEW h \in Heads
               PROVE  s \in Members(Q(h)') <=> h \in Place(s)'
    BY DEF Placed
  <2>0. h = RunHead \/ h = SleepHead \/ h = MutexHead
    BY DEF Heads
  <2>1. CASE s # u
    <3>0. tstate'[s] = tstate[s]
      BY <1>1, <2>1 DEF Good, Base, TypeOK
    <3>1. Place(s)' = Place(s)
      BY <1>1, <1>2, <2>1, <3>0 DEF Place
    <3>2. s \in Members(Q(h)') <=> s \in Members(Q(h))
      BY <1>8, <1>13, <1>15, <1>16, <1>17, <2>0, <2>1 DEF rq, mq
    <3>3. QED
      BY <3>1, <3>2 DEF Good, WInv, ListInv, Placed
  <2>2. CASE s = u
    <3>1. u # current /\ u \in allocated /\ u \notin Loose \cup Leaving
      BY <1>8, Standing DEF mq
    <3>2. tstate'[u] = "RUNNING"
      BY <1>1, <1>8 DEF Good, Base, TypeOK
    <3>3. Place(s)' = {RunHead}
      BY <1>1, <1>2, <2>2, <3>1, <3>2 DEF Place, HomeOf
    <3>4. /\ s \in Members(Q(RunHead)') /\ s \notin Members(Q(MutexHead)')
          /\ s \notin Members(Q(SleepHead)')
      BY <1>7, <1>8, <1>13, <1>15, <1>16, <1>17, <2>2
    <3>5. QED
      BY <2>0, <3>3, <3>4, NodeFacts
  <2>3. QED
    BY <2>1, <2>2
<1>19. \A h \in Heads : Q(h)' \in Seq(Threads)
  BY <1>8, <1>13, <1>15, <1>16, <1>17, QType DEF Heads
<1>20. QED
  BY <1>2, <1>3, <1>8, <1>15, <1>16, <1>17, <1>18, <1>19 DEF ListInv, rq, mq, u

(* mutex_lock queues the thread and gives the processor away.              *)
LEMMA MutexEnqueueLists ==
  ASSUME Good, NEW t \in Threads, MutexEnqueue(t)
  PROVE  /\ ListInv' /\ Ready(MutexHead) /\ Ready(MutexHead)'
         /\ halted' = "no" /\ tstate' = [tstate EXCEPT ![t] = "WAITING"]
         /\ Q(MutexHead)' = Append(Q(MutexHead), t)
         /\ Q(RunHead) # <<>> /\ current' = Q(RunHead)[1]
         /\ current' \in Members(Q(RunHead))
         /\ Q(RunHead)' = Tail(Q(RunHead))
         /\ Q(SleepHead)' = Q(SleepHead)
         /\ Loose' = Loose /\ Leaving' = Leaving
<1> DEFINE rq == Q(RunHead)
           sq == Q(SleepHead)
           mq == Q(MutexHead)
           l1 == ListAddTail(links, t, MutexHead)
           X  == Nodes \cup {NULL}
<1>1. /\ t = current /\ pc[t] = "mlock_enqueue"
      /\ UNCHANGED <<allocated, arg, reg>>
      /\ pc' = [pc EXCEPT ![t] = "mlock_try"]
  BY DEF MutexEnqueue, At, Goto, userVars
<1>2. /\ pc'[t] = "mlock_try" /\ \A s \in Threads : s # t => pc'[s] = pc[s]
      /\ \A s \in Threads : /\ pc'[s] = "wake_del1" <=> pc[s] = "wake_del1"
                            /\ pc'[s] = "wake_del2" <=> pc[s] = "wake_del2"
      /\ Loose' = Loose /\ Leaving' = Leaving
      /\ pc[t] \notin {"insert1", "insert2"} /\ pc'[t] \notin {"insert1", "insert2"}
  BY <1>1, MutexLabelsApart DEF MutexLabels
<1>3. Ready(MutexHead)
  <2>1. mutex.locked # 0 /\ pc[current] \notin First
    BY <1>1 DEF Good, WInv, WaitersInv, First
  <2>2. QED
    BY <2>1 DEF Good, WInv, WaitersInv
<1>4. /\ rq \in Seq(Threads) /\ mq \in Seq(Threads) /\ sq \in Seq(Threads)
      /\ rq \in Seq(Nodes) /\ mq \in Seq(Nodes) /\ links \in Links
      /\ links \in Pointers(Nodes, X) /\ Nodes \subseteq X
      /\ RunHead \in Nodes /\ MutexHead \in Nodes /\ SleepHead \in Nodes
      /\ t \in Nodes /\ t # MutexHead /\ t # RunHead /\ t # SleepHead
      /\ Members(rq) \subseteq Threads /\ Members(mq) \subseteq Threads
      /\ Members(sq) \subseteq Threads
  BY QType, NodeFacts, LinksArePointers DEF Good, Base, TypeOK
<1>5. Ring(links, RunHead, rq) /\ Ring(links, MutexHead, mq)
  BY <1>1, <1>3, CurrentRings
<1>6. /\ Members(rq) \cap Members(mq) = {} /\ Members(sq) \cap Members(rq) = {}
      /\ Members(sq) \cap Members(mq) = {}
      /\ t \notin Members(rq) /\ t \notin Members(sq) /\ t \notin Members(mq)
  BY <1>1, Apart, NodeFacts
<1>7. rq # <<>>
  <2>1. current # Idle
    BY <1>1 DEF Good, WInv, Owned
  <2>2. QED
    BY <2>1, SomeoneReady DEF Members
<1>8. links.prev[MutexHead] # NULL
  <2>1. links.prev[MutexHead] \in {MutexHead} \cup Members(mq)
    BY <1>4, <1>5, RingCloses
  <2>2. QED
    BY <1>4, <2>1, NodeFacts
<1>9. tstate' = [tstate EXCEPT ![t] = "WAITING"] /\ Switch(tstate', l1)
  BY <1>8 DEF MutexEnqueue
<1>10. tstate'[current] = "WAITING"
       /\ \A s \in Threads : s # t => tstate'[s] = tstate[s]
  BY <1>1, <1>9 DEF Good, Base, TypeOK
<1> HIDE DEF X, rq, sq, mq
<1>11. /\ Ring(l1, MutexHead, Append(mq, t)) /\ l1 \in Links
       /\ Append(mq, t) \in Seq(Threads)
       /\ Members(Append(mq, t)) = Members(mq) \cup {t}
  <2>1. Ring(l1, MutexHead, Append(mq, t))
    BY <1>4, <1>5, <1>6, RingAddTail
  <2>2. l1 \in Pointers(Nodes, X)
    BY <1>4, <1>5, ListOpsType
  <2>3. QED
    BY <1>4, <2>1, <2>2, MembersAppend, LinksArePointers DEF X
<1>12. \A x \in Nodes \ ({MutexHead, t} \cup Members(mq)) :
         l1.next[x] = links.next[x] /\ l1.prev[x] = links.prev[x]
  BY <1>4, <1>5, AddTailFrame
<1> HIDE DEF l1
<1>13. Ring(l1, RunHead, rq)
  <2>1. {RunHead} \cup Members(rq) \subseteq Nodes \ ({MutexHead, t} \cup Members(mq))
    BY <1>4, <1>6, NodeFacts
  <2>2. QED
    BY <1>4, <1>5, <1>12, <2>1, RingKept
<1>14. /\ halted' = "no" /\ links' \in Links
       /\ current' = rq[1] /\ current' \in Threads
       /\ current' \in Members(rq) \cup {current} /\ current' # current
       /\ Tail(rq) \in Seq(Threads)
       /\ Members(Tail(rq)) = Members(rq) \ {current'}
       /\ Ring(links', RunHead, Tail(rq))
       /\ \A x \in Nodes \ ({RunHead, current} \cup Members(rq)) :
            links'.next[x] = l1.next[x] /\ links'.prev[x] = l1.prev[x]
  <2>1. rq = RunAfter(tstate'[current], rq) /\ sq = SleepAfter(tstate'[current], sq)
    BY <1>10 DEF RunAfter, SleepAfter
  <2>2. current \in Threads /\ halted = "no" /\ current \notin Members(rq)
    BY <1>1, <1>6 DEF Good, WInv, Undisturbed
  <2>3. tstate'[current] # "SLEEPING" /\ tstate'[current] # "RUNNING"
    BY <1>10
  <2>4. PICK ts : ts = tstate'
    OBVIOUS
  <2>5. /\ rq = RunAfter(ts[current], rq) /\ sq = SleepAfter(ts[current], sq)
        /\ ts[current] # "SLEEPING" /\ ts[current] # "RUNNING" /\ Switch(ts, l1)
    BY <1>9, <2>1, <2>3, <2>4
  <2>6. QED
    BY <1>4, <1>7, <1>11, <1>13, <2>2, <2>5, SwitchRings, SMTT(60)
<1>15. Q(RunHead)' = Tail(rq) /\ RunRing'
  <2>1. Q(RunHead)' = Tail(rq)
    BY <1>14, RingRead, NodeFacts DEF Q
  <2>2. pc'[current'] \notin {"insert1", "insert2"}
    <3>1. pc'[current'] = pc[current']
      BY <1>1, <1>2, <1>14
    <3>2. QED
      BY <1>1, <1>14, <3>1 DEF HotLabels, Good, WInv, Undisturbed
  <2>3. QED
    BY <1>14, <2>1, <2>2 DEF RunRing
<1>16. Q(MutexHead)' = Append(mq, t) /\ MutexRing' /\ Ready(MutexHead)'
  <2>1. Ring(links', MutexHead, Append(mq, t))
    <3>1. links' = ListDel(l1, rq[1])
      <4>1. Requeued(tstate', l1) = l1
        BY <1>10 DEF Requeued
      <4>2. ListFirst(l1, RunHead) = rq[1] /\ rq[1] \in Threads
        BY <1>4, <1>7, <1>13, RingEnds, TailCuts DEF ListFirst
      <4>3. QED
        BY <1>9, <4>1, <4>2 DEF Switch
    <3>2. rq[1] \in Members(rq)
      BY <1>4, <1>7, TailCuts DEF Members
    <3>3. \A x \in Nodes \ ({RunHead} \cup Members(rq)) :
            links'.next[x] = l1.next[x] /\ links'.prev[x] = l1.prev[x]
      BY <1>4, <1>11, <1>13, <3>1, <3>2, DelFrame, LinksArePointers DEF X
    <3>4. {MutexHead} \cup Members(Append(mq, t)) \subseteq Nodes \ ({RunHead} \cup Members(rq))
      BY <1>4, <1>6, <1>11, NodeFacts
    <3>5. QED
      BY <1>11, <3>3, <3>4, RingKept
  <2>2. Read(links', MutexHead) = Append(mq, t) /\ links'.next[MutexHead] # NULL
    BY <1>11, <1>14, <2>1, RingRead, NodeFacts
  <2>3. QED
    BY <2>1, <2>2 DEF Q, Ready, MutexRing
<1>17. Q(SleepHead)' = sq /\ SleepRing'
  <2>1. \A x \in {SleepHead} \cup Members(sq) :
          links'.next[x] = links.next[x] /\ links'.prev[x] = links.prev[x]
    <3>1. {SleepHead} \cup Members(sq)
             \subseteq (Nodes \ ({RunHead, current} \cup Members(rq)))
                       \cap (Nodes \ ({MutexHead, t} \cup Members(mq)))
      BY <1>1, <1>4, <1>6, NodeFacts
    <3>2. QED
      BY <1>12, <1>14, <3>1
  <2>2. QED
    BY <1>1, <1>2, <1>14, <2>1, SleepKept DEF sq
<1>18. Placed'
  <2> SUFFICES ASSUME NEW s \in Threads, NEW h \in Heads
               PROVE  s \in Members(Q(h)') <=> h \in Place(s)'
    BY DEF Placed
  <2>0. h = RunHead \/ h = SleepHead \/ h = MutexHead
    BY DEF Heads
  <2>1. CASE s # t /\ s # current'
    <3>1. Place(s)' = Place(s)
      BY <1>1, <1>2, <1>10, <2>1 DEF Place
    <3>2. /\ s \in Members(Q(RunHead)') <=> s \in Members(rq)
          /\ s \in Members(Q(MutexHead)') <=> s \in Members(mq)
          /\ s \in Members(Q(SleepHead)') <=> s \in Members(sq)
      BY <1>11, <1>14, <1>15, <1>16, <1>17, <2>1
    <3>3. QED
      BY <2>0, <3>1, <3>2 DEF Good, WInv, ListInv, Placed, rq, sq, mq
  <2>2. CASE s = t
    <3>1. t # current' /\ t \in allocated /\ t \notin Loose \cup Leaving
      BY <1>1, <1>14 DEF Good, WInv, StateInv, CurrentFits
    <3>2. Place(s)' = {MutexHead}
      BY <1>1, <1>2, <1>10, <2>2, <3>1 DEF Place, HomeOf
    <3>3. /\ s \in Members(Q(MutexHead)') /\ s \notin Members(Q(RunHead)')
          /\ s \notin Members(Q(SleepHead)')
      BY <1>6, <1>11, <1>14, <1>15, <1>16, <1>17, <2>2
    <3>4. QED
      BY <2>0, <3>2, <3>3, NodeFacts
  <2>3. CASE s = current'
    <3>1. /\ s \notin Members(Q(RunHead)') /\ s \notin Members(Q(SleepHead)')
          /\ s \notin Members(Q(MutexHead)')
      BY <1>1, <1>6, <1>11, <1>14, <1>15, <1>16, <1>17, <2>3
    <3>2. Place(s)' = {}
      BY <2>3 DEF Place
    <3>3. QED
      BY <2>0, <3>1, <3>2
  <2>4. QED
    BY <2>1, <2>2, <2>3
<1>19. \A h \in Heads : Q(h)' \in Seq(Threads)
  BY <1>4, <1>11, <1>14, <1>15, <1>16, <1>17 DEF Heads
<1>20. QED
  BY <1>1, <1>2, <1>3, <1>7, <1>9, <1>14, <1>15, <1>16, <1>17, <1>18, <1>19
     DEF ListInv, rq, sq, mq


-----------------------------------------------------------------------------
(* The steps that yield and do nothing else.                               *)

(* Whoever waits for a spin lock waits for threads_mgmt_lock.              *)
LEMMA SpinIsForMgmt ==
  ASSUME Good, NEW t \in Threads, t = current, NEW l \in Wanted(t), ~Available(l, t)
  PROVE  l = "threads_mgmt_lock" /\ pc[t] \in DOMAIN AfterLock
<1> SUFFICES l # "printf_lock"
  BY DEF Wanted, Locks
<1> SUFFICES ASSUME l = "printf_lock" PROVE FALSE
  OBVIOUS
<1>1. locks[l].locked # 0 /\ locks[l].owner # t
  BY DEF Available
<1>2. locks[l].owner \in Threads \cup {NULL} /\ l \in Locks
  BY DEF Good, Base, TypeOK, Locks
<1>3. locks[l].owner # NULL
  BY <1>1, <1>2 DEF Good, WInv, NoOrphanLock
<1>4. locks[l].owner \in printing
  BY <1>2, <1>3 DEF Good, WInv, NoOrphanLock
<1>5. QED
  BY <1>1, <1>2, <1>3, <1>4 DEF Good, WInv, Undisturbed

(* The current thread is the only one that can be printing.                *)
LEMMA NobodyPrints ==
  ASSUME Good, pc[current] \notin DOMAIN AfterLog
  PROVE  printing = {}
BY DEF Good, WInv, Undisturbed

LEMMA TurnSteps ==
  ASSUME Good, Windows \subseteq TickFree,
         Tick \/ \E t \in Threads : \/ Spin(t) \/ CallYield(t) \/ SleepYield(t)
                                    \/ ExitYield(t) \/ WaitSpin(t)
  PROVE  /\ Turn /\ printing = {}
         /\ UNCHANGED <<locks, mutex, printing, parent, held>>
<1>1. /\ "user" \notin HotLabels /\ "sleep_yield" \notin HotLabels
      /\ "exit_yield" \notin HotLabels /\ "wait_loop" \notin HotLabels
      /\ DOMAIN AfterLock \cap HotLabels = {}
      /\ DOMAIN AfterLock \cap DOMAIN AfterLog = {}
      /\ "user" \notin DOMAIN AfterLog /\ "sleep_yield" \notin DOMAIN AfterLog
      /\ "exit_yield" \notin DOMAIN AfterLog /\ "wait_loop" \notin DOMAIN AfterLog
  BY DEF HotLabels, MutexLabels, AfterLock, AfterLog
<1>2. CASE Tick
  <2>1. current \notin printing /\ pc[current] \notin Windows
    BY <1>2 DEF Tick, Here, Windows
  <2>2. pc[current] \notin MutexLabels
    BY <1>2 DEF Tick, Good, Base, FlagInv, FlagRestored, TypeOK
  <2>3. pc[current] \notin HotLabels
    BY <2>1, <2>2 DEF HotLabels, Windows
  <2>4. printing = {}
    BY <2>1 DEF Good, WInv, Undisturbed, Base, TypeOK
  <2>5. QED
    BY <1>2, <2>3, <2>4 DEF Tick, Turn
<1>3. ASSUME NEW t \in Threads, Spin(t)
      PROVE  /\ Turn /\ printing = {}
             /\ UNCHANGED <<locks, mutex, printing, parent, held>>
  <2>1. t = current /\ \E l \in Wanted(t) : ~Available(l, t)
    BY <1>3 DEF Spin
  <2>2. pc[t] \in DOMAIN AfterLock
    BY <2>1, SpinIsForMgmt
  <2>3. printing = {} /\ pc[current] \notin HotLabels
    BY <1>1, <2>1, <2>2, NobodyPrints
  <2>4. QED
    BY <1>3, <2>3 DEF Spin, Turn, userVars
<1>4. ASSUME NEW t \in Threads,
             CallYield(t) \/ SleepYield(t) \/ ExitYield(t) \/ WaitSpin(t)
      PROVE  /\ Turn /\ printing = {}
             /\ UNCHANGED <<locks, mutex, printing, parent, held>>
  <2>1. t = current /\ pc[t] \in {"user", "sleep_yield", "exit_yield", "wait_loop"}
    BY <1>4 DEF CallYield, SleepYield, ExitYield, WaitSpin, InUser, At
  <2>2. printing = {} /\ pc[current] \notin HotLabels
    BY <1>1, <2>1, NobodyPrints
  <2>3. /\ Switch(tstate, links)
        /\ UNCHANGED <<tstate, arg, reg, allocated, locks, mutex, printing, parent, held>>
    BY <1>4 DEF CallYield, SleepYield, ExitYield, WaitSpin, userVars
  <2>4. /\ \A s \in Threads : s # current => pc'[s] = pc[s]
        /\ \/ pc'[current] = pc[current]
           \/ pc[current] = "sleep_yield" /\ pc'[current] = "user"
           \/ pc[current] = "exit_yield" /\ pc'[current] = "exit_returned"
    BY <1>4, <2>1 DEF CallYield, SleepYield, ExitYield, WaitSpin, Goto, At,
       Good, Base, TypeOK
  <2>5. QED
    BY <2>2, <2>3, <2>4 DEF Turn
<1>5. QED
  BY <1>2, <1>3, <1>4

(* Where a thread stands after somebody has yielded.                       *)
LEMMA TurnMoves ==
  ASSUME Good, Turn, NEW t \in Threads
  PROVE  /\ \A L \in {CreateLabels, OwnLabels, MgmtLabels, HotLabels, First} :
              pc'[t] \in L <=> pc[t] \in L
         /\ pc'[t] = "mlock_try" <=> pc[t] = "mlock_try"
         /\ \/ pc'[t] = pc[t]
            \/ t = current /\ pc[t] = "sleep_yield" /\ pc'[t] = "user"
            \/ t = current /\ pc[t] = "exit_yield" /\ pc'[t] = "exit_returned"
BY DEF Turn, CreateLabels, OwnLabels, LeaveLabels, LooseLabels, MgmtLabels, HotLabels,
       MutexLabels, First

LEMMA TurnKeeps ==
  ASSUME Good, Turn, printing = {},
         UNCHANGED <<locks, mutex, printing, parent, held>>
  PROVE  WInv'
<1>1. /\ ListInv' /\ Q(MutexHead)' = Q(MutexHead) /\ Ready(MutexHead)' = Ready(MutexHead)
      /\ Loose' = Loose /\ Leaving' = Leaving
  BY TurnLists
<1>2. /\ halted' = "no" /\ current' \in Threads
      /\ current' \in Members(Q(RunHead)) \cup {current}
      /\ current' = current => tstate[current] = "RUNNING"
  BY TurnQueues DEF Turn
<1>3. UNCHANGED <<tstate, arg, allocated>> /\ pc[current] \notin HotLabels
  BY DEF Turn
<1>4. \A t \in Threads : pc[t] \notin HotLabels /\ pc'[t] \notin HotLabels
  <2>1. \A t \in Threads : pc[t] \notin HotLabels
    BY <1>3 DEF Good, WInv, Undisturbed
  <2>2. QED
    BY <2>1, TurnMoves
<1>5. Undisturbed'
  BY <1>2, <1>4 DEF Undisturbed
<1>6. NoOrphanLock'
  <2>1. \A t \in Threads : pc'[t] \in MgmtLabels <=> pc[t] \in MgmtLabels
    BY TurnMoves
  <2>2. QED
    BY <2>1 DEF NoOrphanLock, Good, WInv
<1>7. Owned'
  <2>1. \A t \in Threads : pc'[t] \in OwnLabels <=> pc[t] \in OwnLabels
    BY TurnMoves
  <2>2. pc'[Idle] = "user"
    BY TurnMoves, NodeFacts DEF Good, WInv, Owned
  <2>3. QED
    BY <1>3, <2>1, <2>2 DEF Owned, Good, WInv
<1>8. StateInv'
  <2>1. /\ current' \in allocated /\ current' \notin Loose \cup Leaving
        /\ tstate[current'] = "RUNNING"
    <3>1. CASE current' = current
      BY <1>2, <3>1 DEF Good, WInv, StateInv, CurrentFits
    <3>2. CASE current' \in Members(Q(RunHead))
      BY <3>2, Standing
    <3>3. QED
      BY <1>2, <3>1, <3>2
  <2>2. CurrentFits'
    BY <1>1, <1>3, <2>1 DEF CurrentFits
  <2>3. ASSUME NEW t \in Threads PROVE Raw(t)' <=> Raw(t)
    <3>1. \A s \in Threads : pc'[s] \in CreateLabels <=> pc[s] \in CreateLabels
      BY TurnMoves
    <3>2. QED
      BY <1>3, <3>1 DEF Raw
  <2>4. ASSUME NEW t \in Threads PROVE Fits(t)'
    <3>1. Fits(t) /\ tstate'[t] = tstate[t] /\ allocated' = allocated
          /\ arg'[t] = arg[t] /\ tstate'[arg[t]] = tstate[arg[t]]
      BY <1>3 DEF Good, WInv, StateInv
    <3>2. CASE pc'[t] = pc[t]
      BY <2>3, <3>1, <3>2 DEF Fits
    <3>3. CASE t = current /\ pc[t] = "sleep_yield" /\ pc'[t] = "user"
      BY <2>3, <3>1, <3>3 DEF Fits, ExitLabels, LeaveLabels, LooseLabels, Good, WInv,
         StateInv, CurrentFits
    <3>4. CASE t = current /\ pc[t] = "exit_yield" /\ pc'[t] = "exit_returned"
      BY <2>3, <3>1, <3>4 DEF Fits, ExitLabels, LeaveLabels, LooseLabels, Good, WInv,
         StateInv, CurrentFits
    <3>5. QED
      BY <3>2, <3>3, <3>4, TurnMoves
  <2>5. QED
    BY <2>2, <2>4 DEF StateInv
<1>9. WaitersInv'
  <2>1. \A t \in Threads : Coming(t) => Coming(t)'
    <3> SUFFICES ASSUME NEW t \in Threads, Coming(t) PROVE Coming(t)'
      OBVIOUS
    <3>1. pc[t] = "mlock_try" /\ tstate[t] = "RUNNING"
      BY <1>4 DEF Coming, HotLabels, MutexLabels
    <3>2. QED
      BY <1>3, <3>1, TurnMoves DEF Coming
  <2>2. pc'[current'] \notin {"munlock_log", "munlock_notify", "mlock_log", "mlock_enqueue"}
        /\ pc'[current'] \notin First
    BY <1>2, <1>4 DEF HotLabels, MutexLabels, First
  <2>3. mutex.locked # 0 => Ready(MutexHead)
    BY <1>3 DEF Good, WInv, WaitersInv, HotLabels, MutexLabels, First
  <2>4. QED
    BY <1>1, <2>1, <2>2, <2>3 DEF WaitersInv, Good, WInv
<1>10. QED
  BY <1>1, <1>5, <1>6, <1>7, <1>8, <1>9 DEF WInv

-----------------------------------------------------------------------------
(* Steps of the current thread that change no state, no slot and nothing   *)
(* of the mutex: what the thread may do, seen from its label.               *)
Notifying == {"munlock_log", "munlock_notify"}

Jump(t) ==
  /\ t = current /\ t # Idle
  /\ UNCHANGED <<current, halted, tstate, mutex, allocated, parent, held>>
  /\ \A s \in Threads : s # t => pc'[s] = pc[s] /\ arg'[s] = arg[s]
  /\ pc'[t] \in OwnLabels => arg'[t] \in allocated /\ parent[arg'[t]] = t
  /\ pc'[t] \in CreateLabels <=> pc[t] \in CreateLabels
  /\ pc[t] \in CreateLabels \cup Notifying => arg'[t] = arg[t]
  /\ pc'[t] \in LeaveLabels \cup LooseLabels \cup {"insert2"} =>
       pc[t] \in LeaveLabels \cup LooseLabels \cup {"insert2"} /\ arg'[t] = arg[t]
  /\ pc'[t] \in {"wait_log", "wait_free"} => tstate[arg'[t]] = "TERMINATED"
  /\ pc[t] \in ExitLabels \/ pc'[t] \in ExitLabels =>
       pc[t] = "exit_unlock" /\ pc'[t] = "exit_yield"
  /\ pc[t] = "sleep_unlock" => pc'[t] = "sleep_yield"
  /\ pc[t] \notin {"sleep_yield", "mlock_try"}
  /\ pc'[t] \in Notifying <=> pc[t] \in Notifying
  /\ pc'[t] \in First <=> pc[t] \in First
  /\ pc'[t] \in {"mlock_log", "mlock_enqueue"} =>
       pc[t] \in {"mlock_log", "mlock_enqueue"}

LEMMA JumpState ==
  ASSUME Good, NEW t \in Threads, Jump(t), current \notin (Loose \cup Leaving)'
  PROVE  Owned' /\ StateInv'
<1>1. /\ t = current /\ t # Idle
      /\ UNCHANGED <<current, tstate, allocated, parent, held>>
      /\ \A s \in Threads : s # t => pc'[s] = pc[s] /\ arg'[s] = arg[s]
  BY DEF Jump
<1>2. Owned'
  <2>1. \A s \in Threads : pc'[s] \in OwnLabels => arg'[s] \in allocated /\ parent[arg'[s]] = s
    BY <1>1 DEF Jump, Good, WInv, Owned
  <2>2. pc'[Idle] = "user"
    BY <1>1, NodeFacts DEF Good, WInv, Owned
  <2>3. QED
    BY <1>1, <2>1, <2>2 DEF Owned, Good, WInv
<1>3. ASSUME NEW s \in Threads PROVE Raw(s)' <=> Raw(s)
  <2>1. \A r \in Threads : /\ pc'[r] \in CreateLabels <=> pc[r] \in CreateLabels
                           /\ pc[r] \in CreateLabels => arg'[r] = arg[r]
    BY <1>1 DEF Jump
  <2>2. QED
    BY <2>1 DEF Raw
<1>4. CurrentFits'
  <2>1. current \in allocated
    BY DEF Good, WInv, StateInv, CurrentFits
  <2>2. CASE tstate[current] = "RUNNING"
    BY <1>1, <2>1, <2>2 DEF CurrentFits
  <2>3. CASE tstate[current] = "SLEEPING"
    <3>1. pc[t] = "sleep_unlock" /\ \A s \in Threads \ {t} : pc[s] \notin MgmtLabels
      BY <1>1, <2>3 DEF Jump, Good, WInv, StateInv, CurrentFits
    <3>2. pc'[t] = "sleep_yield" /\ \A s \in Threads \ {t} : pc'[s] \notin MgmtLabels
      BY <1>1, <3>1 DEF Jump
    <3>3. QED
      BY <1>1, <2>1, <2>3, <3>2 DEF CurrentFits
  <2>4. CASE tstate[current] = "TERMINATED"
    <3>1. pc[t] \in ExitLabels
      BY <1>1, <2>4 DEF ExitLabels, Good, WInv, StateInv, CurrentFits
    <3>2. pc'[t] = "exit_yield"
      BY <3>1 DEF Jump
    <3>3. QED
      BY <1>1, <2>1, <2>4, <3>2 DEF CurrentFits
  <2>5. QED
    BY <2>2, <2>3, <2>4 DEF Good, WInv, StateInv, CurrentFits
<1>5. ASSUME NEW s \in Threads PROVE Fits(s)'
  <2>1. Fits(s) /\ (Raw(s)' <=> Raw(s))
    BY <1>3 DEF Good, WInv, StateInv
  <2>2. CASE s # t
    BY <1>1, <2>1, <2>2 DEF Fits
  <2>3. CASE s = t
    <3>1. /\ t \in allocated
          /\ \/ tstate[t] = "RUNNING"
             \/ tstate[t] = "SLEEPING" /\ pc[t] = "sleep_unlock"
             \/ tstate[t] = "TERMINATED" /\ pc[t] = "exit_unlock"
      BY <1>1 DEF Jump, ExitLabels, Good, WInv, StateInv, CurrentFits
    <3>2. /\ pc'[t] \in LeaveLabels \cup LooseLabels \cup {"insert2"} => tstate[arg'[t]] = "RUNNING"
          /\ pc'[t] \in {"wait_log", "wait_free"} => tstate[arg'[t]] = "TERMINATED"
      BY <2>1, <2>3 DEF Jump, Fits
    <3>3. CASE tstate[t] = "RUNNING"
      <4>1. ~Raw(t)' /\ pc[t] \notin ExitLabels
        BY <2>1, <2>3, <3>3 DEF Fits
      <4>2. pc'[t] \notin ExitLabels
        BY <4>1 DEF Jump, ExitLabels
      <4>3. QED
        BY <1>1, <2>3, <3>1, <3>2, <3>3, <4>1, <4>2 DEF Fits
    <3>4. CASE tstate[t] = "SLEEPING" /\ pc[t] = "sleep_unlock"
      <4>1. pc'[t] = "sleep_yield" /\ ~Raw(t)'
        BY <2>1, <2>3, <3>4 DEF Jump, Fits
      <4>2. QED
        BY <1>1, <2>3, <3>1, <3>2, <3>4, <4>1 DEF Fits, ExitLabels
    <3>5. CASE tstate[t] = "TERMINATED" /\ pc[t] = "exit_unlock"
      <4>1. pc'[t] = "exit_yield"
        BY <3>5 DEF Jump, ExitLabels
      <4>2. ~Raw(t)'
        BY <2>1, <2>3, <3>1, <3>5 DEF Fits
      <4>3. QED
        BY <1>1, <2>3, <3>1, <3>2, <3>5, <4>1, <4>2 DEF Fits, ExitLabels
    <3>6. QED
      BY <3>1, <3>3, <3>4, <3>5
  <2>4. QED
    BY <2>2, <2>3
<1>6. QED
  BY <1>2, <1>4, <1>5 DEF StateInv

LEMMA JumpWaiters ==
  ASSUME Good, NEW t \in Threads, Jump(t),
         Q(MutexHead)' = Q(MutexHead), Ready(MutexHead)' = Ready(MutexHead)
  PROVE  WaitersInv'
<1>1. /\ t = current /\ UNCHANGED <<current, tstate, mutex>>
      /\ \A s \in Threads : s # t => pc'[s] = pc[s] /\ arg'[s] = arg[s]
  BY DEF Jump
<1>2. \A s \in Threads : Coming(s) => Coming(s)'
  <2> SUFFICES ASSUME NEW s \in Threads, Coming(s) PROVE Coming(s)'
    OBVIOUS
  <2>1. CASE s # t
    BY <1>1, <2>1 DEF Coming
  <2>2. CASE s = t
    BY <2>2 DEF Coming, Jump, Notifying
  <2>3. QED
    BY <2>1, <2>2
<1>3. pc'[t] \in Notifying => Q(MutexHead) # <<>> /\ arg'[t] = Q(MutexHead)[1]
  BY <1>1 DEF Jump, Notifying, Good, WInv, WaitersInv
<1>4. pc'[t] \in {"mlock_log", "mlock_enqueue"} => mutex.locked # 0
  BY <1>1 DEF Jump, Good, WInv, WaitersInv
<1>5. /\ pc'[t] \in First => ~Ready(MutexHead)
      /\ mutex.locked # 0 /\ ~Ready(MutexHead) => pc'[t] \in First
  BY <1>1 DEF Jump, Good, WInv, WaitersInv
<1>6. mutex.locked = 0 /\ Q(MutexHead) # <<>> => \E s \in Threads : Coming(s)'
  BY <1>2 DEF Good, WInv, WaitersInv
<1>7. QED
  BY <1>1, <1>3, <1>4, <1>5, <1>6 DEF WaitersInv, Notifying

LEMMA JumpKeeps ==
  ASSUME Good, NEW t \in Threads, Jump(t), ListInv', NoOrphanLock',
         Q(MutexHead)' = Q(MutexHead), Ready(MutexHead)' = Ready(MutexHead),
         current \notin (Loose \cup Leaving)',
         printing' \subseteq {t}, t \in printing' => pc'[t] \in DOMAIN AfterLog
  PROVE  WInv'
<1>1. Undisturbed'
  BY DEF Jump, Undisturbed, Good, WInv
<1>2. QED
  BY <1>1, JumpState, JumpWaiters DEF WInv

(* A step of t that touches no spin lock.                                  *)
LEMMA OrphanFrame ==
  ASSUME Good, NEW t \in Threads, UNCHANGED <<locks, printing>>,
         \A s \in Threads : s # t => (pc[s] \in MgmtLabels => pc'[s] \in MgmtLabels),
         pc[t] \in MgmtLabels => pc'[t] \in MgmtLabels
  PROVE  NoOrphanLock'
BY DEF NoOrphanLock, Good, WInv

(* The four steps of the spin locks.                                       *)
LockStep(t) == LockMgmt(t) \/ UnlockMgmt(t) \/ LogBegin(t) \/ LogEnd(t)

LEMMA LockOrphans ==
  ASSUME Good, NEW t \in Threads, LockStep(t)
  PROVE  /\ NoOrphanLock' /\ halted' = halted
         /\ printing' \subseteq {t}
         /\ t \in printing' => pc'[t] \in DOMAIN AfterLog
<1>1. /\ NoOrphanLock /\ TypeOK /\ SpinExclusion /\ NULL \notin Threads
      /\ Locks = {"threads_mgmt_lock", "printf_lock"}
      /\ locks \in [Locks -> [locked : Nat, owner : Threads \cup {NULL}]]
      /\ pc \in [Threads -> Labels]
  BY NodeFacts DEF Good, Base, WInv, Locks, TypeOK
<1>2. t = current
  BY DEF LockStep, LockMgmt, UnlockMgmt, LogBegin, LogEnd, At
<1>3. printing \subseteq {t} /\ (t \in printing => pc[t] \in DOMAIN AfterLog)
  BY <1>2 DEF Good, WInv, Undisturbed
<1>4. CASE LockMgmt(t)
  <2>1. PICK l \in DOMAIN AfterLock :
          /\ pc[t] = l /\ Acquire(t, "threads_mgmt_lock") /\ Goto(t, AfterLock[l])
          /\ UNCHANGED <<halted, printing>>
    BY <1>4 DEF LockMgmt, At, cpuVars
  <2>2. l \notin MgmtLabels /\ AfterLock[l] \in MgmtLabels /\ l \notin DOMAIN AfterLog
    BY DEF AfterLock, AfterLog, MgmtLabels
  <2>3. pc'[t] \in MgmtLabels /\ \A s \in Threads : s # t => pc'[s] = pc[s]
    BY <1>1, <2>1, <2>2 DEF Goto
  <2>4. locks["threads_mgmt_lock"].locked = 0
    <3>1. locks["threads_mgmt_lock"].owner # t
      BY <1>1, <2>1, <2>2 DEF NoOrphanLock
    <3>2. QED
      BY <2>1, <3>1 DEF Acquire, Available
  <2>5. /\ locks'["threads_mgmt_lock"] = [locked |-> 1, owner |-> t]
        /\ locks'["printf_lock"] = locks["printf_lock"]
    BY <1>1, <2>1, <2>4 DEF Acquire
  <2>6. NoOrphanLock'
    BY <1>1, <2>1, <2>3, <2>4, <2>5 DEF NoOrphanLock
  <2>7. QED
    BY <1>3, <2>1, <2>2, <2>6
<1>5. CASE UnlockMgmt(t)
  <2>1. PICK l \in DOMAIN AfterUnlock :
          /\ pc[t] = l /\ Release(t, "threads_mgmt_lock") /\ Goto(t, AfterUnlock[l])
          /\ UNCHANGED printing
    BY <1>5 DEF UnlockMgmt, At
  <2>2. l \in MgmtLabels /\ AfterUnlock[l] \notin MgmtLabels /\ l \notin DOMAIN AfterLog
    BY DEF AfterUnlock, AfterLog, MgmtLabels
  <2>3. /\ pc'[t] \notin MgmtLabels
        /\ \A s \in Threads : s # t => pc'[s] = pc[s]
    BY <1>1, <2>1, <2>2 DEF Goto
  <2>4. /\ locks["threads_mgmt_lock"].locked = 1
        /\ locks["threads_mgmt_lock"].owner = t
    BY <1>1, <2>1, <2>2 DEF NoOrphanLock, SpinExclusion
  <2>5. /\ locks'["threads_mgmt_lock"] = [locked |-> 0, owner |-> NULL]
        /\ locks'["printf_lock"] = locks["printf_lock"] /\ halted' = halted
    BY <1>1, <2>1, <2>4 DEF Release
  <2>6. NoOrphanLock'
    BY <1>1, <2>1, <2>3, <2>5 DEF NoOrphanLock
  <2>7. QED
    BY <1>3, <2>1, <2>2, <2>5, <2>6
<1>6. CASE LogBegin(t)
  <2>1. /\ pc[t] \in DOMAIN AfterLog /\ t \notin printing
        /\ Acquire(t, "printf_lock") /\ printing' = printing \cup {t}
        /\ UNCHANGED <<halted, pc>>
    BY <1>6 DEF LogBegin, At, cpuVars
  <2>2. locks["printf_lock"].locked = 0
    <3>1. locks["printf_lock"].owner # t
      BY <1>1, <2>1 DEF NoOrphanLock
    <3>2. QED
      BY <2>1, <3>1 DEF Acquire, Available
  <2>3. /\ locks'["printf_lock"] = [locked |-> 1, owner |-> t]
        /\ locks'["threads_mgmt_lock"] = locks["threads_mgmt_lock"]
    BY <1>1, <2>1, <2>2 DEF Acquire
  <2>4. NoOrphanLock'
    BY <1>1, <2>1, <2>3 DEF NoOrphanLock
  <2>5. QED
    BY <1>3, <2>1, <2>4
<1>7. CASE LogEnd(t)
  <2>1. PICK l \in DOMAIN AfterLog :
          /\ pc[t] = l /\ t \in printing /\ Release(t, "printf_lock")
          /\ printing' = printing \ {t} /\ Goto(t, AfterLog[l])
    BY <1>7 DEF LogEnd, At
  <2>2. AfterLog[l] \in MgmtLabels <=> l \in MgmtLabels
    BY DEF AfterLog, MgmtLabels
  <2>3. /\ pc'[t] \in MgmtLabels <=> pc[t] \in MgmtLabels
        /\ \A s \in Threads : s # t => pc'[s] = pc[s]
    BY <1>1, <2>1, <2>2 DEF Goto
  <2>4. locks["printf_lock"].locked = 1 /\ locks["printf_lock"].owner = t
    BY <1>1, <2>1 DEF NoOrphanLock, SpinExclusion
  <2>5. /\ locks'["printf_lock"] = [locked |-> 0, owner |-> NULL]
        /\ locks'["threads_mgmt_lock"] = locks["threads_mgmt_lock"]
        /\ halted' = halted
    BY <1>1, <2>1, <2>4 DEF Release
  <2>6. NoOrphanLock'
    BY <1>1, <2>1, <2>3, <2>5 DEF NoOrphanLock
  <2>7. QED
    BY <1>3, <2>1, <2>5, <2>6
<1>8. QED
  BY <1>4, <1>5, <1>6, <1>7 DEF LockStep

(* Calls and steps of the bodies that touch no spin lock.                  *)
PlainStep(t) ==
  \/ CallPrintf(t) \/ CallSleep(t) \/ CallExit(t) \/ CallMutexLock(t)
  \/ \E u \in Threads : CallWake(t, u) \/ CallWait(t, u)
  \/ WaitDone(t)
  \/ WakeTest(t) /\ tstate[arg[t]] # "SLEEPING"

StoreStep(t) ==
  \/ Insert(t) \/ InsertNext(t) \/ InsertPrev(t)
  \/ WakeDel(t) \/ WakeDelNext(t) \/ WakeDelPrev(t)

LEMMA LockJumps ==
  ASSUME Good, NEW t \in Threads, LockStep(t)
  PROVE  Jump(t)
<1>1. /\ t = current /\ UNCHANGED <<current, tstate, mutex, allocated, parent, held, arg>>
      /\ halted' = halted /\ pc[t] # "user"
  <2>1. "user" \notin DOMAIN AfterLock \cup DOMAIN AfterUnlock \cup DOMAIN AfterLog
    BY DEF AfterLock, AfterUnlock, AfterLog
  <2>2. QED
    BY <2>1, LockOrphans DEF LockStep, LockMgmt, UnlockMgmt, LogBegin, LogEnd, At, cpuVars,
       userVars
<1>2. t # Idle
  BY <1>1 DEF Good, WInv, Owned
<1>3. pc \in [Threads -> Labels]
  BY DEF Good, Base, TypeOK
<1>4. pc[t] \in OwnLabels => arg[t] \in allocated /\ parent[arg[t]] = t
  BY DEF Good, WInv, Owned
<1>5. pc[t] = "wait_log" => tstate[arg[t]] = "TERMINATED"
  BY DEF Good, WInv, StateInv, Fits
<1> USE DEF Jump, OwnLabels, CreateLabels, LeaveLabels, LooseLabels, ExitLabels, Notifying, First
<1>6. CASE LockMgmt(t)
  <2>1. PICK l \in DOMAIN AfterLock : pc[t] = l /\ pc' = [pc EXCEPT ![t] = AfterLock[l]]
    BY <1>6 DEF LockMgmt, At, Goto
  <2>2. <<l, AfterLock[l]>> \in {<<"create_lock", "create_log">>, <<"wake_lock", "wake_test">>,
          <<"sleep_lock", "sleep_log">>, <<"exit_lock", "exit_log">>}
    BY DEF AfterLock
  <2>3. QED
    BY <1>1, <1>2, <1>3, <1>4, <2>1, <2>2
<1>7. CASE UnlockMgmt(t)
  <2>1. PICK l \in DOMAIN AfterUnlock : pc[t] = l /\ pc' = [pc EXCEPT ![t] = AfterUnlock[l]]
    BY <1>7 DEF UnlockMgmt, At, Goto
  <2>2. <<l, AfterUnlock[l]>> \in {<<"insert_unlock", "user">>,
          <<"sleep_unlock", "sleep_yield">>, <<"exit_unlock", "exit_yield">>}
    BY DEF AfterUnlock
  <2>3. QED
    BY <1>1, <1>2, <1>3, <1>4, <2>1, <2>2
<1>8. CASE LogBegin(t)
  <2>1. pc' = pc /\ pc[t] \in DOMAIN AfterLog
    BY <1>8 DEF LogBegin, At
  <2>2. pc[t] \notin {"exit_unlock", "exit_yield", "exit_returned", "sleep_unlock",
                      "sleep_yield", "mlock_try", "wait_free"}
    BY <2>1 DEF AfterLog
  <2>3. QED
    BY <1>1, <1>2, <1>3, <1>4, <1>5, <2>1, <2>2
<1>9. CASE LogEnd(t)
  <2>1. PICK l \in DOMAIN AfterLog : pc[t] = l /\ pc' = [pc EXCEPT ![t] = AfterLog[l]]
    BY <1>9 DEF LogEnd, At, Goto
  <2>2. <<l, AfterLog[l]>> \in {<<"create_log", "create_set">>, <<"wake_log", "wake_del">>,
          <<"sleep_log", "sleep_set">>, <<"exit_log", "exit_set">>,
          <<"wait_log", "wait_free">>, <<"printf_log", "user">>,
          <<"mlock_log", "mlock_enqueue">>, <<"mlock_first_log", "mlock_init">>,
          <<"munlock_log", "munlock_notify">>}
    BY DEF AfterLog
  <2>3. QED
    BY <1>1, <1>2, <1>3, <1>4, <1>5, <2>1, <2>2
<1>10. QED
  BY <1>6, <1>7, <1>8, <1>9 DEF LockStep

LEMMA PlainJumps ==
  ASSUME Good, NEW t \in Threads, PlainStep(t)
  PROVE  /\ Jump(t) /\ UNCHANGED <<locks, printing>>
         /\ pc[t] \in {"user", "wait_loop", "wake_test"}
         /\ pc[t] \in MgmtLabels => pc'[t] \in MgmtLabels
<1>1. pc \in [Threads -> Labels] /\ arg \in [Threads -> Threads]
  BY DEF Good, Base, TypeOK
<1>2. pc[t] \in OwnLabels => arg[t] \in allocated /\ parent[arg[t]] = t
  BY DEF Good, WInv, Owned
<1>3. pc[Idle] = "user" /\ \A u \in Threads : parent[u] # Idle
  BY DEF Good, WInv, Owned
<1> USE DEF Jump, OwnLabels, CreateLabels, LeaveLabels, LooseLabels, ExitLabels, Notifying, First,
            MgmtLabels, cpuVars, userVars, flagVars, InUser, At, Goto
<1>4. CASE CallPrintf(t) \/ CallSleep(t) \/ CallExit(t)
  BY <1>1, <1>4 DEF CallPrintf, CallSleep, CallExit
<1>5. CASE CallMutexLock(t)
  BY <1>1, <1>5 DEF CallMutexLock
<1>6. CASE \E u \in Threads : CallWake(t, u) \/ CallWait(t, u)
  BY <1>1, <1>3, <1>6 DEF CallWake, CallWait, CallOn, Owns
<1>7. CASE WaitDone(t)
  BY <1>1, <1>2, <1>3, <1>7 DEF WaitDone
<1>8. CASE WakeTest(t) /\ tstate[arg[t]] # "SLEEPING"
  BY <1>1, <1>2, <1>3, <1>8 DEF WakeTest
<1>9. QED
  BY <1>4, <1>5, <1>6, <1>7, <1>8 DEF PlainStep

LEMMA StoreJumps ==
  ASSUME Good, NEW t \in Threads, StoreStep(t)
  PROVE  /\ Jump(t) /\ UNCHANGED <<locks, printing>>
         /\ pc[t] \in LeaveLabels \cup LooseLabels \cup {"insert2"}
         /\ pc[t] \in MgmtLabels /\ pc'[t] \in MgmtLabels
<1>1. pc \in [Threads -> Labels]
  BY DEF Good, Base, TypeOK
<1>2. pc[t] \in OwnLabels => arg[t] \in allocated /\ parent[arg[t]] = t
  BY DEF Good, WInv, Owned
<1>3. pc[Idle] = "user"
  BY DEF Good, WInv, Owned
<1> USE DEF Jump, OwnLabels, CreateLabels, LeaveLabels, LooseLabels, ExitLabels, Notifying, First,
            MgmtLabels, cpuVars, userVars, flagVars, At, Goto
<1>4. CASE Insert(t) \/ InsertNext(t) \/ InsertPrev(t)
  BY <1>1, <1>2, <1>3, <1>4 DEF Insert, InsertNext, InsertPrev
<1>5. CASE WakeDel(t) \/ WakeDelNext(t) \/ WakeDelPrev(t)
  BY <1>1, <1>2, <1>3, <1>5 DEF WakeDel, WakeDelNext, WakeDelPrev
<1>6. QED
  BY <1>4, <1>5 DEF StoreStep

(* All the steps that jump keep the invariant.                             *)
LEMMA JumpActions ==
  ASSUME Good, NEW t \in Threads, LockStep(t) \/ PlainStep(t) \/ StoreStep(t)
  PROVE  WInv'
<1>0. t = current
  BY LockJumps, PlainJumps, StoreJumps DEF Jump
<1>1. current \notin Loose \cup Leaving
  BY DEF Good, WInv, StateInv, CurrentFits
<1>2. CASE LockStep(t) \/ PlainStep(t)
  <2>1. Plain(t)
    BY <1>2, PlainSteps DEF LockStep, PlainStep, Good, Base
  <2>2. /\ ListInv' /\ Ready(MutexHead)' = Ready(MutexHead)
        /\ Q(MutexHead)' = Q(MutexHead)
        /\ Loose' = Loose /\ Leaving' = Leaving
    BY <2>1, PlainLists, NodeFacts
  <2>3. CASE LockStep(t)
    BY <1>1, <2>2, <2>3, LockJumps, LockOrphans, JumpKeeps
  <2>4. CASE PlainStep(t)
    <3>1. pc[t] \notin DOMAIN AfterLog
      BY <2>4, PlainJumps DEF AfterLog
    <3>2. printing = {}
      BY <1>0, <3>1, NobodyPrints
    <3>3. \A s \in Threads : s # t => pc'[s] = pc[s]
      BY <2>4, PlainJumps DEF Jump
    <3>4. NoOrphanLock'
      BY <2>4, <3>3, PlainJumps, OrphanFrame
    <3>5. QED
      BY <1>1, <2>2, <2>4, <3>2, <3>4, PlainJumps, JumpKeeps
  <2>5. QED
    BY <1>2, <2>3, <2>4
<1>3. CASE StoreStep(t)
  <2>1. /\ Jump(t) /\ UNCHANGED <<locks, printing>>
        /\ pc[t] \in LeaveLabels \cup LooseLabels \cup {"insert2"}
        /\ pc[t] \in MgmtLabels /\ pc'[t] \in MgmtLabels
    BY <1>3, StoreJumps
  <2>2. /\ ListInv' /\ Ready(MutexHead)' = Ready(MutexHead)
        /\ Q(MutexHead)' = Q(MutexHead)
        /\ Loose' \subseteq Loose \cup {arg[t]} /\ Leaving' \subseteq Leaving
    BY <1>3, InsertLists, InsertNextLists, InsertPrevLists, WakeDelLists, WakeDelNextLists,
       WakeDelPrevLists, NodeFacts DEF StoreStep
  <2>3. arg[t] # current
    BY <1>0, <2>1, NodeFacts DEF OwnLabels, Good, WInv, Owned
  <2>4. printing = {}
    <3>1. pc[t] \notin DOMAIN AfterLog
      BY <1>3 DEF StoreStep, Insert, InsertNext, InsertPrev, WakeDel, WakeDelNext,
         WakeDelPrev, At, AfterLog
    <3>2. QED
      BY <1>0, <3>1, NobodyPrints
  <2>5. NoOrphanLock'
    <3>1. \A s \in Threads : s # t => pc'[s] = pc[s]
      BY <2>1 DEF Jump
    <3>2. QED
      BY <2>1, <3>1, OrphanFrame
  <2>6. QED
    BY <1>1, <2>1, <2>2, <2>3, <2>4, <2>5, JumpKeeps
<1>4. QED
  BY <1>2, <1>3

-----------------------------------------------------------------------------
(* Steps that set the state of a thread, under threads_mgmt_lock.          *)
SetStep(t) ==
  \/ SleepSet(t) \/ ExitSet(t) \/ CreateSet(t)
  \/ WakeTest(t) /\ tstate[arg[t]] = "SLEEPING"

LEMMA SetFacts ==
  ASSUME Good, NEW t \in Threads, SetStep(t)
  PROVE  /\ t = current /\ t # Idle /\ tstate[t] = "RUNNING" /\ pc[t] \in MgmtLabels
         /\ UNCHANGED <<current, halted, mutex, allocated, parent, held, arg, locks, printing>>
         /\ printing = {}
         /\ \A s \in Threads : s # t => pc'[s] = pc[s]
         /\ \/ /\ pc[t] = "sleep_set" /\ pc'[t] = "sleep_unlock"
               /\ tstate' = [tstate EXCEPT ![t] = "SLEEPING"]
            \/ /\ pc[t] = "exit_set" /\ pc'[t] = "exit_unlock"
               /\ tstate' = [tstate EXCEPT ![t] = "TERMINATED"]
            \/ /\ pc[t] = "create_set" /\ pc'[t] = "insert"
               /\ tstate' = [tstate EXCEPT ![arg[t]] = "RUNNING"]
            \/ /\ pc[t] = "wake_test" /\ pc'[t] = "wake_log" /\ tstate[arg[t]] = "SLEEPING"
               /\ tstate' = [tstate EXCEPT ![arg[t]] = "RUNNING"]
<1>1. /\ t = current
      /\ UNCHANGED <<current, halted, mutex, allocated, parent, held, arg, locks, printing>>
      /\ pc[t] \in {"sleep_set", "exit_set", "create_set", "wake_test"}
  BY DEF SetStep, SleepSet, ExitSet, CreateSet, WakeTest, At, cpuVars, userVars
<1>2. printing = {} /\ t # Idle /\ pc[t] \in MgmtLabels
  <2>1. pc[t] \notin DOMAIN AfterLog
    BY <1>1 DEF AfterLog
  <2>2. QED
    BY <1>1, <2>1, NobodyPrints DEF MgmtLabels, Good, WInv, Owned
<1>3. tstate[t] = "RUNNING"
  BY <1>1 DEF Good, WInv, StateInv, CurrentFits
<1>4. /\ \A s \in Threads : s # t => pc'[s] = pc[s]
      /\ \/ /\ pc[t] = "sleep_set" /\ pc'[t] = "sleep_unlock"
            /\ tstate' = [tstate EXCEPT ![t] = "SLEEPING"]
         \/ /\ pc[t] = "exit_set" /\ pc'[t] = "exit_unlock"
            /\ tstate' = [tstate EXCEPT ![t] = "TERMINATED"]
         \/ /\ pc[t] = "create_set" /\ pc'[t] = "insert"
            /\ tstate' = [tstate EXCEPT ![arg[t]] = "RUNNING"]
         \/ /\ pc[t] = "wake_test" /\ pc'[t] = "wake_log" /\ tstate[arg[t]] = "SLEEPING"
            /\ tstate' = [tstate EXCEPT ![arg[t]] = "RUNNING"]
  BY DEF SetStep, SleepSet, ExitSet, CreateSet, WakeTest, At, Goto, Good, Base, TypeOK
<1>5. QED
  BY <1>1, <1>2, <1>3, <1>4

(* The state of a thread that is not the one the step is about.            *)
LEMMA FitsFrame ==
  ASSUME NEW s \in Threads, Fits(s), s \in allocated' <=> s \in allocated,
         tstate'[s] = tstate[s], pc'[s] = pc[s], arg'[s] = arg[s], Raw(s)' <=> Raw(s),
         pc[s] \in LeaveLabels \cup LooseLabels \cup {"insert2", "wait_log", "wait_free"} =>
           tstate'[arg[s]] = tstate[arg[s]]
  PROVE  Fits(s)'
BY DEF Fits

LEMMA SetState ==
  ASSUME Good, NEW t \in Threads, SetStep(t), Loose' \cup Leaving' \subseteq Loose \cup Leaving \cup {arg[t]},
         pc[t] \in {"sleep_set", "exit_set"} => Loose' = Loose /\ Leaving' = Leaving
  PROVE  StateInv'
<1>1. /\ t = current /\ t # Idle /\ tstate[t] = "RUNNING" /\ pc[t] \in MgmtLabels
      /\ UNCHANGED <<current, allocated, parent, arg>>
      /\ \A s \in Threads : s # t => pc'[s] = pc[s]
  BY SetFacts
<1>2. /\ tstate \in [Threads -> States] /\ arg \in [Threads -> Threads]
      /\ t \in allocated /\ t \notin Loose \cup Leaving
      /\ \A s \in Threads : Fits(s)
      /\ ~Raw(t) /\ pc[t] \notin ExitLabels
  <2>1. Fits(t)
    BY DEF Good, WInv, StateInv
  <2>2. QED
    BY <1>1, <2>1 DEF Fits, Good, Base, TypeOK, WInv, StateInv, CurrentFits
<1>3. \A s \in Threads \ {t} : pc[s] \notin MgmtLabels \cup LeaveLabels \cup LooseLabels \cup {"insert2"}
  BY <1>1, Alone DEF MgmtLabels
<1>4. CASE pc[t] \in {"sleep_set", "exit_set"}
  <2>1. /\ \/ pc'[t] = "sleep_unlock" /\ tstate'[t] = "SLEEPING"
           \/ pc'[t] = "exit_unlock" /\ tstate'[t] = "TERMINATED"
        /\ \A s \in Threads : s # t => tstate'[s] = tstate[s]
    BY <1>2, <1>4, SetFacts
  <2>2. \A s \in Threads : Raw(s)' <=> Raw(s)
    <3>1. \A s \in Threads : pc'[s] \in CreateLabels <=> pc[s] \in CreateLabels
      BY <1>1, <1>4, <2>1 DEF CreateLabels
    <3>2. QED
      BY <1>1, <3>1 DEF Raw
  <2>3. CurrentFits'
    <3>1. current' \notin (Loose \cup Leaving)'
      BY <1>1, <1>2, <1>4
    <3>2. \A s \in Threads \ {t} : pc'[s] \notin MgmtLabels
      BY <1>1, <1>3
    <3>3. QED
      BY <1>1, <1>2, <2>1, <3>1, <3>2 DEF CurrentFits
  <2>4. ASSUME NEW s \in Threads PROVE Fits(s)'
    <3>1. CASE s = t
      BY <1>1, <1>2, <2>1, <2>2, <3>1 DEF Fits, ExitLabels, LeaveLabels, LooseLabels
    <3>2. CASE s # t
      <4>1. pc[s] \in LeaveLabels \cup LooseLabels \cup {"insert2", "wait_log", "wait_free"} =>
              tstate'[arg[s]] = tstate[arg[s]]
        <5> SUFFICES ASSUME pc[s] \in {"wait_log", "wait_free"} PROVE arg[s] # t /\ arg[s] \in Threads
          BY <1>3, <2>1, <3>2
        <5>1. tstate[arg[s]] = "TERMINATED"
          BY <1>2 DEF Fits
        <5>2. QED
          BY <1>1, <1>2, <5>1
      <4>2. QED
        BY <1>1, <1>2, <2>1, <2>2, <3>2, <4>1, FitsFrame
    <3>3. QED
      BY <3>1, <3>2
  <2>5. QED
    BY <2>3, <2>4 DEF StateInv
<1>5. CASE pc[t] \in {"create_set", "wake_test"}
  <2> DEFINE u == arg[t]
  <2>1. /\ u \in Threads /\ u \in allocated /\ u # t /\ pc[t] \in OwnLabels
    BY <1>2, <1>5 DEF OwnLabels, CreateLabels, Good, WInv, Owned
  <2>2. /\ pc'[t] \in {"insert", "wake_log"} /\ tstate'[u] = "RUNNING"
        /\ \A s \in Threads : s # u => tstate'[s] = tstate[s]
        /\ pc[t] = "wake_test" => pc'[t] = "wake_log" /\ tstate[u] = "SLEEPING"
    BY <1>2, <1>5, <2>1, SetFacts
  <2>3. \A s \in Threads : Raw(s)' <=> Raw(s) /\ s # u
    <3>1. \A r \in Threads : pc'[r] \in CreateLabels <=> r # t /\ pc[r] \in CreateLabels
      BY <1>1, <1>5, <2>2 DEF CreateLabels
    <3>2. \A r \in Threads : r # t /\ pc[r] \in CreateLabels => arg[r] # u
      BY <2>1, OneOwner DEF OwnLabels
    <3>3. QED
      BY <1>1, <3>1, <3>2 DEF Raw
  <2>4. CurrentFits'
    <3>1. current' \notin (Loose \cup Leaving)'
      BY <1>1, <1>2, <2>1
    <3>2. QED
      BY <1>1, <1>2, <2>1, <2>2, <3>1 DEF CurrentFits
  <2>5. pc[u] \notin ExitLabels
    <3>1. CASE pc[t] = "create_set"
      <4>1. Raw(u)
        BY <3>1 DEF Raw, CreateLabels
      <4>2. pc[u] = "user"
        BY <1>2, <2>1, <4>1 DEF Fits, States
      <4>3. QED
        BY <4>2 DEF ExitLabels
    <3>2. CASE pc[t] = "wake_test"
      BY <1>2, <2>1, <2>2, <3>2 DEF Fits
    <3>3. QED
      BY <1>5, <3>1, <3>2
  <2>6. \A s \in Threads : s # t /\ pc[s] \in {"wait_log", "wait_free"} => arg[s] # u
    BY <2>1, OneOwner DEF OwnLabels
  <2> HIDE DEF u
  <2>7. ASSUME NEW s \in Threads PROVE Fits(s)'
    <3>1. CASE s = t
      <4>1. ~Raw(t)' /\ tstate'[t] = "RUNNING" /\ tstate'[arg'[t]] = "RUNNING"
        BY <1>1, <1>2, <2>1, <2>2, <2>3 DEF u
      <4>2. QED
        BY <1>1, <1>2, <2>2, <3>1, <4>1 DEF Fits, ExitLabels
    <3>2. CASE s = u
      <4>1. pc'[s] = pc[s] /\ s # t /\ tstate'[s] = "RUNNING" /\ s \in allocated'
        BY <1>1, <2>1, <2>2, <3>2
      <4>2. /\ pc[s] \notin LeaveLabels \cup LooseLabels \cup {"insert2"}
            /\ pc[s] \in {"wait_log", "wait_free"} =>
                 tstate[arg[s]] = "TERMINATED" /\ arg[s] # u /\ arg[s] \in Threads
        BY <1>2, <1>3, <2>6, <4>1 DEF Fits
      <4>3. pc[s] \in {"wait_log", "wait_free"} => tstate'[arg'[s]] = "TERMINATED"
        BY <1>1, <2>2, <4>2
      <4>4. ~Raw(s)' /\ pc'[s] \notin ExitLabels
        BY <2>3, <2>5, <3>2, <4>1
      <4>5. QED
        BY <4>1, <4>2, <4>3, <4>4 DEF Fits
    <3>3. CASE s # t /\ s # u
      <4>1. pc[s] \in LeaveLabels \cup LooseLabels \cup {"insert2", "wait_log", "wait_free"} =>
              tstate'[arg[s]] = tstate[arg[s]]
        BY <1>2, <1>3, <2>2, <2>6, <3>3
      <4>2. QED
        BY <1>1, <1>2, <2>2, <2>3, <3>3, <4>1, FitsFrame
    <3>4. QED
      BY <3>1, <3>2, <3>3
  <2>8. QED
    BY <2>4, <2>7 DEF StateInv
<1>6. QED
  BY <1>4, <1>5, SetFacts

LEMMA SetKeeps ==
  ASSUME Good, NEW t \in Threads, SetStep(t)
  PROVE  WInv'
<1>1. /\ t = current /\ t # Idle /\ tstate[t] = "RUNNING" /\ pc[t] \in MgmtLabels
      /\ UNCHANGED <<current, halted, mutex, allocated, parent, held, arg, locks, printing>>
      /\ printing = {}
      /\ \A s \in Threads : s # t => pc'[s] = pc[s]
      /\ pc[t] \in {"sleep_set", "exit_set", "create_set", "wake_test"}
      /\ pc'[t] \in {"sleep_unlock", "exit_unlock", "insert", "wake_log"}
      /\ pc'[t] \in OwnLabels => pc[t] \in OwnLabels
  <2>1. /\ pc[t] \in {"sleep_set", "exit_set", "create_set", "wake_test"}
        /\ pc'[t] \in {"sleep_unlock", "exit_unlock", "insert", "wake_log"}
        /\ pc[t] \in {"sleep_set", "exit_set"} => pc'[t] \in {"sleep_unlock", "exit_unlock"}
    BY SetFacts
  <2>2. pc'[t] \in OwnLabels => pc[t] \in OwnLabels
    BY <2>1 DEF OwnLabels, CreateLabels, LeaveLabels, LooseLabels
  <2>3. QED
    BY <2>1, <2>2, SetFacts
<1>2. \A s \in Threads : s # t => tstate'[s] = tstate[s] \/ tstate'[s] = "RUNNING"
  BY SetFacts DEF Good, Base, TypeOK
<1>3. /\ ListInv' /\ Ready(MutexHead)' = Ready(MutexHead) /\ Q(MutexHead)' = Q(MutexHead)
      /\ Loose' \cup Leaving' \subseteq Loose \cup Leaving \cup {arg[t]}
      /\ pc[t] \in {"sleep_set", "exit_set"} => Loose' = Loose /\ Leaving' = Leaving
  <2>1. CASE SleepSet(t) \/ ExitSet(t)
    <3>1. Plain(t)
      BY <2>1, PlainSteps DEF Good, Base
    <3>2. QED
      BY <3>1, PlainLists, NodeFacts
  <2>2. CASE CreateSet(t)
    BY <2>2, CreateSetLists, NodeFacts DEF CreateSet, At
  <2>3. CASE WakeTest(t) /\ tstate[arg[t]] = "SLEEPING"
    BY <2>3, WakeTestLists, NodeFacts DEF WakeTest, At
  <2>4. QED
    BY <2>1, <2>2, <2>3 DEF SetStep
<1>4. Undisturbed'
  BY <1>1 DEF Undisturbed, Good, WInv
<1>5. NoOrphanLock'
  <2>1. pc'[t] \in MgmtLabels
    BY <1>1 DEF MgmtLabels
  <2>2. QED
    BY <1>1, <2>1, OrphanFrame
<1>6. Owned'
  <2>1. pc'[Idle] = "user" /\ tstate'[Idle] = "RUNNING"
    BY <1>1, <1>2, NodeFacts DEF Good, WInv, Owned
  <2>2. \A s \in Threads : pc'[s] \in OwnLabels => pc[s] \in OwnLabels
    BY <1>1
  <2>3. QED
    BY <1>1, <2>1, <2>2 DEF Owned, Good, WInv
<1>7. StateInv'
  BY <1>3, SetState
<1>8. WaitersInv'
  <2>1. \A s \in Threads : Coming(s) => Coming(s)'
    BY <1>1, <1>2 DEF Coming
  <2>2. QED
    BY <1>1, <1>3, <2>1 DEF WaitersInv, Good, WInv, First
<1>9. QED
  BY <1>3, <1>4, <1>5, <1>6, <1>7, <1>8 DEF WInv

-----------------------------------------------------------------------------
(* Slots: create_thread takes one, wait() gives one back.                  *)

LEMMA CreateKeeps ==
  ASSUME Good, NEW t \in Threads, NEW u \in Threads, CallCreate(t, u)
  PROVE  WInv'
<1>1. /\ t = current /\ t # Idle /\ pc[t] = "user" /\ u \notin allocated
      /\ UNCHANGED <<current, halted, tstate, locks, mutex>>
      /\ allocated' = allocated \cup {u}
      /\ parent' = [parent EXCEPT ![u] = t]
      /\ arg' = [arg EXCEPT ![t] = u]
      /\ pc' = [pc EXCEPT ![t] = "create_lock", ![u] = "user"]
      /\ printing' = printing \ {u}
      /\ held' = [held EXCEPT ![u] = 0]
  BY DEF CallCreate, InUser, At, cpuVars
<1>2. /\ u # t /\ u # Idle
      /\ tstate[u] \in {"FREE", "TERMINATED"} /\ tstate[t] = "RUNNING"
      /\ pc[u] \in {"user", "exit_yield", "exit_returned"}
      /\ \A s \in Threads : Fits(s)
      /\ t \in allocated /\ ~Raw(t) /\ t \notin Loose \cup Leaving
  <2>1. u # t /\ u # Idle /\ t \in allocated /\ tstate[t] = "RUNNING"
        /\ t \notin Loose \cup Leaving
    BY <1>1 DEF Good, WInv, Owned, StateInv, CurrentFits
  <2>2. tstate[u] \in States /\ \A s \in Threads : Fits(s)
    BY DEF Good, Base, TypeOK, WInv, StateInv
  <2>3. ~Raw(t)
    BY <2>1, <2>2 DEF Fits
  <2>4. QED
    BY <1>1, <2>1, <2>2, <2>3 DEF Fits, States
<1>3. /\ pc'[t] = "create_lock" /\ pc'[u] = "user" /\ arg'[t] = u
      /\ parent'[u] = t /\ held'[u] = 0
      /\ \A s \in Threads : s # t => arg'[s] = arg[s]
      /\ \A s \in Threads : s # u => parent'[s] = parent[s] /\ held'[s] = held[s]
      /\ \A s \in Threads : s # t /\ s # u => pc'[s] = pc[s]
  BY <1>1, <1>2 DEF Good, Base, TypeOK
<1>4. printing = {} /\ printing' = {}
  BY <1>1, NobodyPrints DEF AfterLog
<1>5. /\ ListInv' /\ Ready(MutexHead)' = Ready(MutexHead) /\ Q(MutexHead)' = Q(MutexHead)
      /\ Loose' = Loose /\ Leaving' = Leaving
  BY CreateLists, NodeFacts
<1>6. Undisturbed'
  BY <1>1, <1>3, <1>4 DEF Undisturbed, HotLabels, MutexLabels, Good, WInv
<1>7. NoOrphanLock'
  <2>1. /\ \A s \in Threads : s # t => (pc[s] \in MgmtLabels => pc'[s] \in MgmtLabels)
        /\ pc[t] \notin MgmtLabels
    BY <1>1, <1>2, <1>3 DEF MgmtLabels
  <2>2. QED
    BY <1>1, <1>4, <2>1, OrphanFrame
<1>8. Owned'
  <2>1. pc'[Idle] = "user" /\ parent'[Idle] = NULL /\ held'[Idle] = 0 /\ Idle \in allocated'
    BY <1>1, <1>2, <1>3, NodeFacts DEF Good, WInv, Owned
  <2>2. \A s \in Threads : parent'[s] # s /\ parent'[s] # Idle
    BY <1>1, <1>2, <1>3 DEF Good, WInv, Owned
  <2>3. ASSUME NEW s \in Threads, pc'[s] \in OwnLabels
        PROVE  arg'[s] \in allocated' /\ parent'[arg'[s]] = s
    <3>1. CASE s = t
      BY <1>1, <1>3, <3>1
    <3>2. CASE s # t
      <4>1. pc[s] \in OwnLabels /\ arg[s] \in Threads
        BY <1>3, <2>3, <3>2 DEF OwnLabels, CreateLabels, LeaveLabels, LooseLabels, Good,
           Base, TypeOK
      <4>2. arg[s] \in allocated /\ parent[arg[s]] = s
        BY <4>1 DEF Good, WInv, Owned
      <4>3. QED
        BY <1>1, <1>3, <3>2, <4>1, <4>2
    <3>3. QED
      BY <3>1, <3>2
  <2>4. QED
    BY <1>1, <2>1, <2>2, <2>3 DEF Owned, Good, WInv
<1>9. StateInv'
  <2>1. CurrentFits'
    BY <1>1, <1>2, <1>5 DEF CurrentFits
  <2>2. \A s \in Threads : Raw(s)' <=> Raw(s) \/ s = u
    <3>1. \A r \in Threads : r # t => (pc'[r] \in CreateLabels <=> pc[r] \in CreateLabels)
      BY <1>2, <1>3 DEF CreateLabels
    <3>2. pc'[t] \in CreateLabels /\ pc[t] \notin CreateLabels
      BY <1>1, <1>3 DEF CreateLabels
    <3>3. QED
      BY <1>3, <3>1, <3>2 DEF Raw
  <2>3. ASSUME NEW s \in Threads PROVE Fits(s)'
    <3>1. CASE s = u
      BY <1>1, <1>2, <1>3, <2>2, <3>1 DEF Fits, ExitLabels, LeaveLabels, LooseLabels
    <3>2. CASE s = t
      BY <1>1, <1>2, <1>3, <2>2, <3>2 DEF Fits, ExitLabels, LeaveLabels, LooseLabels
    <3>3. CASE s # t /\ s # u
      BY <1>1, <1>2, <1>3, <2>2, <3>3, FitsFrame
    <3>4. QED
      BY <3>1, <3>2, <3>3
  <2>4. QED
    BY <2>1, <2>3 DEF StateInv
<1>10. WaitersInv'
  <2>1. \A s \in Threads : Coming(s) => Coming(s)'
    BY <1>1, <1>2, <1>3 DEF Coming
  <2>2. pc[current] \notin First /\ pc'[current'] = "create_lock"
    BY <1>1, <1>3 DEF First
  <2>3. QED
    BY <1>1, <1>5, <2>1, <2>2 DEF WaitersInv, Good, WInv, First
<1>11. QED
  BY <1>5, <1>6, <1>7, <1>8, <1>9, <1>10 DEF WInv

LEMMA FreeKeeps ==
  ASSUME Good, NEW t \in Threads, WaitFree(t)
  PROVE  WInv'
<1> DEFINE u == arg[t]
<1>1. /\ t = current /\ pc[t] = "wait_free"
      /\ UNCHANGED <<current, halted, tstate, locks, mutex, printing, arg, held>>
      /\ allocated' = allocated \ {u}
      /\ parent' = [parent EXCEPT ![u] = NULL]
      /\ pc' = [pc EXCEPT ![t] = "user"]
  BY DEF WaitFree, At, Goto, cpuVars
<1>2. /\ u \in Threads /\ u \in allocated /\ parent[u] = t /\ u # t /\ u # Idle /\ t # Idle
      /\ tstate[u] = "TERMINATED" /\ tstate[t] = "RUNNING"
      /\ \A s \in Threads : Fits(s)
      /\ t \in allocated /\ ~Raw(t) /\ t \notin Loose \cup Leaving
      /\ pc[t] \in OwnLabels
  <2>1. pc[t] \in OwnLabels
    BY <1>1 DEF OwnLabels
  <2>2. u \in Threads /\ u \in allocated /\ parent[u] = t /\ u # t /\ u # Idle /\ t # Idle
    BY <1>1, <2>1, NodeFacts DEF Good, Base, TypeOK, WInv, Owned
  <2>3. /\ \A s \in Threads : Fits(s)
        /\ t \in allocated /\ t \notin Loose \cup Leaving /\ tstate[t] = "RUNNING"
    BY <1>1 DEF Good, WInv, StateInv, CurrentFits
  <2>4. tstate[u] = "TERMINATED" /\ ~Raw(t)
    BY <1>1, <2>3 DEF Fits
  <2>5. QED
    BY <2>1, <2>2, <2>3, <2>4
<1>3. /\ pc'[t] = "user" /\ parent'[u] = NULL
      /\ \A s \in Threads : s # u => parent'[s] = parent[s]
      /\ \A s \in Threads : s # t => pc'[s] = pc[s]
  BY <1>1, <1>2 DEF Good, Base, TypeOK
<1>4. printing = {}
  BY <1>1, NobodyPrints DEF AfterLog
<1>5. /\ ListInv' /\ Ready(MutexHead)' = Ready(MutexHead) /\ Q(MutexHead)' = Q(MutexHead)
      /\ Loose' = Loose /\ Leaving' = Leaving
  BY FreeLists, NodeFacts
<1>6. \A s \in Threads : s # t /\ pc[s] \in OwnLabels => arg[s] # u
  BY <1>2, OneOwner
<1> HIDE DEF u
<1>7. Undisturbed'
  BY <1>1, <1>3, <1>4 DEF Undisturbed, HotLabels, MutexLabels, Good, WInv
<1>8. NoOrphanLock'
  BY <1>1, <1>3, <1>4, OrphanFrame DEF MgmtLabels
<1>9. Owned'
  <2>1. pc'[Idle] = "user" /\ parent'[Idle] = NULL /\ Idle \in allocated'
    BY <1>1, <1>2, <1>3, NodeFacts DEF Good, WInv, Owned
  <2>2. \A s \in Threads : parent'[s] # s /\ parent'[s] # Idle
    BY <1>2, <1>3, NodeFacts DEF Good, WInv, Owned
  <2>3. ASSUME NEW s \in Threads, pc'[s] \in OwnLabels
        PROVE  arg'[s] \in allocated' /\ parent'[arg'[s]] = s
    <3>1. s # t /\ pc[s] \in OwnLabels /\ arg[s] \in Threads
      BY <1>3, <2>3 DEF OwnLabels, CreateLabels, LeaveLabels, LooseLabels, Good, Base, TypeOK
    <3>2. arg[s] # u /\ arg[s] \in allocated /\ parent[arg[s]] = s
      BY <1>6, <3>1 DEF Good, WInv, Owned
    <3>3. QED
      BY <1>1, <1>3, <3>1, <3>2
  <2>4. QED
    BY <1>1, <2>1, <2>2, <2>3 DEF Owned, Good, WInv
<1>10. StateInv'
  <2>1. CurrentFits'
    BY <1>1, <1>2, <1>5 DEF CurrentFits
  <2>2. \A s \in Threads : Raw(s)' <=> Raw(s)
    <3>1. \A r \in Threads : pc'[r] \in CreateLabels <=> pc[r] \in CreateLabels
      BY <1>1, <1>3 DEF CreateLabels
    <3>2. QED
      BY <1>1, <3>1 DEF Raw
  <2>3. ~Raw(u) /\ pc[u] \in {"exit_yield", "exit_returned"}
    <3>1. ~Raw(u)
      BY <1>1, <1>6 DEF Raw, OwnLabels, CreateLabels
    <3>2. pc[u] \in ExitLabels
      BY <1>2, <3>1 DEF Fits
    <3>3. pc[u] # "exit_unlock"
      BY <1>1, <1>2 DEF Good, WInv, Undisturbed, HotLabels
    <3>4. QED
      BY <3>1, <3>2, <3>3 DEF ExitLabels
  <2>4. ASSUME NEW s \in Threads PROVE Fits(s)'
    <3>1. CASE s = u
      BY <1>1, <1>2, <1>3, <2>2, <2>3, <3>1 DEF Fits, ExitLabels, LeaveLabels, LooseLabels
    <3>2. CASE s = t
      BY <1>1, <1>2, <1>3, <2>2, <3>2 DEF Fits, ExitLabels, LeaveLabels, LooseLabels
    <3>3. CASE s # t /\ s # u
      BY <1>1, <1>2, <1>3, <2>2, <3>3, FitsFrame
    <3>4. QED
      BY <3>1, <3>2, <3>3
  <2>5. QED
    BY <2>1, <2>4 DEF StateInv
<1>11. WaitersInv'
  <2>1. \A s \in Threads : Coming(s) => Coming(s)'
    BY <1>1, <1>3 DEF Coming
  <2>2. pc[current] \notin First /\ pc'[current'] = "user"
    BY <1>1, <1>3 DEF First
  <2>3. QED
    BY <1>1, <1>5, <2>1, <2>2 DEF WaitersInv, Good, WInv, First
<1>12. QED
  BY <1>5, <1>7, <1>8, <1>9, <1>10, <1>11 DEF WInv

-----------------------------------------------------------------------------
(* The mutex.                                                              *)

(* A thread on its way through mutex_lock or mutex_unlock that changes no  *)
(* thread's state.                                                         *)
MutexMove(t) ==
  /\ t = current /\ t # Idle /\ tstate[t] = "RUNNING" /\ printing = {}
  /\ UNCHANGED <<current, halted, tstate, allocated, parent, locks, printing>>
  /\ \A s \in Threads : s # t => pc'[s] = pc[s] /\ arg'[s] = arg[s] /\ held'[s] = held[s]
  /\ pc[t]  \in {"user"} \cup MutexLabels
  /\ pc'[t] \in {"user"} \cup MutexLabels

LEMMA MutexMoveKeeps ==
  ASSUME Good, NEW t \in Threads, MutexMove(t), Loose' = Loose, Leaving' = Leaving
  PROVE  Undisturbed' /\ NoOrphanLock' /\ Owned' /\ StateInv'
<1>1. /\ t = current /\ t # Idle /\ tstate[t] = "RUNNING" /\ printing = {}
      /\ UNCHANGED <<current, halted, tstate, allocated, parent, locks, printing>>
      /\ \A s \in Threads : s # t => pc'[s] = pc[s] /\ arg'[s] = arg[s] /\ held'[s] = held[s]
  BY DEF MutexMove
<1>2. /\ {pc[t], pc'[t]} \cap (MgmtLabels \cup OwnLabels \cup CreateLabels \cup ExitLabels
            \cup LeaveLabels \cup LooseLabels \cup {"insert2", "wait_log", "wait_free"}) = {}
      /\ \A s \in Threads : pc'[s] \in CreateLabels <=> pc[s] \in CreateLabels
  <2>1. ({"user"} \cup MutexLabels) \cap (MgmtLabels \cup OwnLabels \cup CreateLabels \cup ExitLabels
            \cup LeaveLabels \cup LooseLabels \cup {"insert2", "wait_log", "wait_free"}) = {}
    BY DEF MutexLabels, MgmtLabels, OwnLabels, CreateLabels, ExitLabels, LeaveLabels, LooseLabels
  <2>2. {pc[t], pc'[t]} \subseteq {"user"} \cup MutexLabels
    BY DEF MutexMove
  <2>3. {pc[t], pc'[t]} \cap (MgmtLabels \cup OwnLabels \cup CreateLabels \cup ExitLabels
            \cup LeaveLabels \cup LooseLabels \cup {"insert2", "wait_log", "wait_free"}) = {}
    BY <2>1, <2>2
  <2>4. QED
    BY <1>1, <2>3
<1>3. Undisturbed'
  BY <1>1 DEF Undisturbed, Good, WInv
<1>4. NoOrphanLock'
  BY <1>1, <1>2, OrphanFrame
<1>5. Owned'
  <2>1. pc'[Idle] = "user" /\ held'[Idle] = 0
    BY <1>1, NodeFacts DEF Good, WInv, Owned
  <2>2. \A s \in Threads : pc'[s] \in OwnLabels => pc[s] \in OwnLabels /\ arg'[s] = arg[s]
    BY <1>1, <1>2
  <2>3. QED
    BY <1>1, <2>1, <2>2 DEF Owned, Good, WInv
<1>6. StateInv'
  <2>1. /\ CurrentFits' /\ t \in allocated
    BY <1>1 DEF CurrentFits, Good, WInv, StateInv
  <2>2. \A s \in Threads : Raw(s)' <=> Raw(s)
    <3>1. \A r \in Threads : pc[r] \in CreateLabels => arg'[r] = arg[r]
      BY <1>1, <1>2
    <3>2. QED
      BY <1>2, <3>1 DEF Raw
  <2>3. ASSUME NEW s \in Threads PROVE Fits(s)'
    <3>1. Fits(s)
      BY DEF Good, WInv, StateInv
    <3>2. CASE s = t
      <4>1. ~Raw(t)' /\ pc'[t] \notin ExitLabels
            /\ pc'[t] \notin LeaveLabels \cup LooseLabels \cup {"insert2", "wait_log", "wait_free"}
        BY <1>1, <1>2, <2>2, <3>1, <3>2 DEF Fits
      <4>2. QED
        BY <1>1, <2>1, <3>2, <4>1 DEF Fits
    <3>3. CASE s # t
      BY <1>1, <2>2, <3>1, <3>3, FitsFrame
    <3>4. QED
      BY <3>2, <3>3
  <2>4. QED
    BY <2>1, <2>3 DEF StateInv
<1>7. QED
  BY <1>3, <1>4, <1>5, <1>6

LEMMA TryKeeps ==
  ASSUME Good, NEW t \in Threads, MutexTry(t)
  PROVE  WInv'
<1>1. /\ t = current /\ pc[t] = "mlock_try"
      /\ UNCHANGED <<current, halted, links, tstate, locks, printing, arg, allocated, parent>>
  BY DEF MutexTry, At, cpuVars
<1>2. /\ pc \in [Threads -> Labels] /\ held \in [Threads -> Nat]
      /\ mutex.locked \in Nat
  BY DEF Good, Base, TypeOK
<1>3. /\ \/ /\ pc'[t] = "mlock_log" /\ UNCHANGED <<mutex, held>> /\ mutex.locked # 0
         \/ /\ pc'[t] = "mlock_first_log" /\ ~Ready(MutexHead)
            /\ mutex'.locked # 0 /\ UNCHANGED held
         \/ /\ pc'[t] = "user" /\ Ready(MutexHead) /\ mutex'.locked # 0
            /\ held' = [held EXCEPT ![t] = @ + 1]
      /\ \A s \in Threads : s # t => pc'[s] = pc[s]
  <2>1. CASE ~MutexAvailable(t)
    BY <1>1, <1>2, <2>1 DEF MutexTry, MutexAvailable, Goto
  <2>2. CASE MutexAvailable(t) /\ ~Ready(MutexHead)
    BY <1>1, <1>2, <2>2 DEF MutexTry, Ready, Goto
  <2>3. CASE MutexAvailable(t) /\ Ready(MutexHead)
    BY <1>1, <1>2, <2>3 DEF MutexTry, Ready, Goto, LeaveMutex, LockedBy
  <2>4. QED
    BY <2>1, <2>2, <2>3
<1>4. /\ tstate[t] = "RUNNING" /\ t # Idle /\ printing = {}
  <2>1. pc[t] \notin DOMAIN AfterLog
    BY <1>1 DEF AfterLog
  <2>2. QED
    BY <1>1, <2>1, NobodyPrints DEF Good, WInv, Owned, StateInv, CurrentFits
<1>5. \A s \in Threads : s # t => held'[s] = held[s]
  BY <1>2, <1>3
<1>6. MutexMove(t)
  BY <1>1, <1>3, <1>4, <1>5 DEF MutexMove, MutexLabels
<1>7. /\ ListInv' /\ Ready(MutexHead)' = Ready(MutexHead) /\ Q(MutexHead)' = Q(MutexHead)
      /\ Loose' = Loose /\ Leaving' = Leaving
  <2>1. Plain(t)
    BY PlainSteps DEF Good, Base
  <2>2. QED
    BY <2>1, PlainLists, NodeFacts
<1>8. WaitersInv'
  <2>1. mutex'.locked # 0 /\ pc'[current'] \notin {"munlock_log", "munlock_notify"}
    BY <1>1, <1>3
  <2>2. ~Ready(MutexHead) => pc'[current'] \in First
    BY <1>1, <1>3 DEF First, Good, WInv, WaitersInv
  <2>3. pc'[current'] \in First => ~Ready(MutexHead)
    BY <1>1, <1>3 DEF First
  <2>4. QED
    BY <1>7, <2>1, <2>2, <2>3 DEF WaitersInv
<1>9. QED
  BY <1>6, <1>7, <1>8, MutexMoveKeeps DEF WInv

(* mutex_unlock finds the first waiter: its assertions hold.               *)
LEMMA UnlockKeeps ==
  ASSUME Good, NEW t \in Threads, CallMutexUnlock(t)
  PROVE  WInv'
<1>1. /\ t = current /\ pc[t] = "user" /\ held[t] > 0
      /\ UNCHANGED <<current, links, tstate, locks, printing, allocated, parent>>
      /\ held' = [held EXCEPT ![t] = @ - 1]
  BY DEF CallMutexUnlock, InUser, At
<1>2. /\ pc \in [Threads -> Labels] /\ held \in [Threads -> Nat] /\ arg \in [Threads -> Threads]
      /\ mutex.locked \in Nat
  BY DEF Good, Base, TypeOK
<1>3. mutex.owner = t /\ mutex.locked # 0
  BY <1>1, <1>2 DEF Good, Base, MutexInv, MutexExclusion
<1>4. Ready(MutexHead)
  BY <1>1, <1>3 DEF Good, WInv, WaitersInv, First
<1>5. /\ ListEmpty(links, MutexHead) <=> Q(MutexHead) = <<>>
      /\ Q(MutexHead) # <<>> =>
           ListFirst(links, MutexHead) = Q(MutexHead)[1] /\ Q(MutexHead)[1] \in Threads
  <2>1. Ring(links, MutexHead, Q(MutexHead)) /\ Q(MutexHead) \in Seq(Threads)
    BY <1>1, <1>4, CurrentRings, QType, NodeFacts
  <2>2. links.next[MutexHead] = IF Q(MutexHead) = <<>> THEN MutexHead ELSE Q(MutexHead)[1]
    BY <2>1, RingEnds
  <2>3. Q(MutexHead) # <<>> => Q(MutexHead)[1] \in Threads
    BY <2>1, TailCuts
  <2>4. QED
    BY <2>2, <2>3, NodeFacts DEF ListEmpty, ListFirst
<1>6. Notifies => Q(MutexHead) # <<>> /\ ListFirst(links, MutexHead) \in Threads
  BY <1>5 DEF Notifies
<1>7. /\ mutex'.locked = mutex.locked - 1 /\ halted' = halted
      /\ arg' = [arg EXCEPT ![t] = IF Notifies THEN ListFirst(links, MutexHead) ELSE @]
      /\ pc' = [pc EXCEPT ![t] = IF Notifies THEN "munlock_log" ELSE "user"]
  BY <1>3, <1>6 DEF CallMutexUnlock, Goto
<1>8. /\ tstate[t] = "RUNNING" /\ t # Idle /\ printing = {}
  <2>1. t # Idle
    BY <1>1 DEF Good, WInv, Owned
  <2>2. pc[t] \notin DOMAIN AfterLog
    BY <1>1 DEF AfterLog
  <2>3. QED
    BY <1>1, <2>1, <2>2, NobodyPrints DEF Good, WInv, StateInv, CurrentFits
<1>9. /\ \A s \in Threads : s # t => pc'[s] = pc[s] /\ arg'[s] = arg[s] /\ held'[s] = held[s]
      /\ pc'[t] = IF Notifies THEN "munlock_log" ELSE "user"
      /\ Notifies => arg'[t] = Q(MutexHead)[1]
  BY <1>1, <1>2, <1>5, <1>6, <1>7
<1>10. MutexMove(t)
  BY <1>1, <1>7, <1>8, <1>9 DEF MutexMove, MutexLabels
<1>11. /\ ListInv' /\ Ready(MutexHead)' = Ready(MutexHead) /\ Q(MutexHead)' = Q(MutexHead)
       /\ Loose' = Loose /\ Leaving' = Leaving
  <2>1. Plain(t)
    BY PlainSteps DEF Good, Base
  <2>2. QED
    BY <2>1, PlainLists, NodeFacts
<1>12. WaitersInv'
  <2>1. pc'[current'] \in {"munlock_log", "munlock_notify"} =>
          Q(MutexHead) # <<>> /\ arg'[current'] = Q(MutexHead)[1]
    BY <1>1, <1>6, <1>9
  <2>2. pc'[current'] \notin First \cup {"mlock_log", "mlock_enqueue"}
    BY <1>1, <1>9 DEF First
  <2>3. mutex'.locked = 0 /\ Q(MutexHead) # <<>> => Coming(t)'
    BY <1>2, <1>3, <1>5, <1>7, <1>9 DEF Coming, Notifies
  <2>4. QED
    BY <1>1, <1>4, <1>11, <2>1, <2>2, <2>3 DEF WaitersInv
<1>13. QED
  BY <1>10, <1>11, <1>12, MutexMoveKeeps DEF WInv

LEMMA InitKeeps ==
  ASSUME Good, NEW t \in Threads, MutexInit(t)
  PROVE  WInv'
<1>1. /\ t = current /\ pc[t] = "mlock_init"
      /\ UNCHANGED <<current, halted, tstate, locks, printing, arg, allocated, parent>>
      /\ mutex'.locked = mutex.locked
      /\ held' = [held EXCEPT ![t] = @ + 1]
      /\ pc' = [pc EXCEPT ![t] = "user"]
  BY DEF MutexInit, At, LeaveMutex, Goto
<1>2. /\ pc'[t] = "user"
      /\ \A s \in Threads : s # t => pc'[s] = pc[s] /\ held'[s] = held[s]
  BY <1>1 DEF Good, Base, TypeOK
<1>3. /\ tstate[t] = "RUNNING" /\ t # Idle /\ printing = {}
  <2>1. pc[t] \notin DOMAIN AfterLog
    BY <1>1 DEF AfterLog
  <2>2. QED
    BY <1>1, <2>1, NobodyPrints DEF Good, WInv, Owned, StateInv, CurrentFits
<1>4. MutexMove(t)
  BY <1>1, <1>2, <1>3 DEF MutexMove, MutexLabels
<1>5. /\ ListInv' /\ Ready(MutexHead)' /\ Q(MutexHead)' = <<>>
      /\ Loose' = Loose /\ Leaving' = Leaving
  BY MutexInitLists, NodeFacts
<1>6. WaitersInv'
  BY <1>1, <1>2, <1>5 DEF WaitersInv, First
<1>7. QED
  BY <1>4, <1>5, <1>6, MutexMoveKeeps DEF WInv

LEMMA NotifyKeeps ==
  ASSUME Good, NEW t \in Threads, MutexNotify(t)
  PROVE  WInv'
<1> DEFINE u == arg[t]
<1>1. /\ t = current /\ pc[t] = "munlock_notify"
      /\ UNCHANGED <<current, halted, mutex, locks, printing, arg, allocated, parent, held>>
      /\ tstate' = [tstate EXCEPT ![u] = "RUNNING"]
      /\ pc' = [pc EXCEPT ![t] = "user"]
  BY DEF MutexNotify, At, LeaveMutex, Goto, userVars
<1>2. /\ ListInv' /\ Ready(MutexHead)' = Ready(MutexHead)
      /\ Loose' = Loose /\ Leaving' = Leaving
      /\ u \in Members(Q(MutexHead))
  BY MutexNotifyLists
<1>3. /\ u \in Threads /\ u \in allocated /\ u # t /\ tstate[u] = "WAITING"
  BY <1>1, <1>2, Standing
<1>4. /\ t \in allocated /\ tstate[t] = "RUNNING" /\ t \notin Loose \cup Leaving
      /\ t # Idle /\ printing = {} /\ \A s \in Threads : Fits(s)
  <2>1. pc[t] \notin DOMAIN AfterLog
    BY <1>1 DEF AfterLog
  <2>2. QED
    BY <1>1, <2>1, NobodyPrints DEF Good, WInv, Owned, StateInv, CurrentFits
<1>5. /\ pc'[t] = "user" /\ tstate'[u] = "RUNNING"
      /\ \A s \in Threads : s # t => pc'[s] = pc[s]
      /\ \A s \in Threads : s # u => tstate'[s] = tstate[s]
  BY <1>1, <1>3 DEF Good, Base, TypeOK
<1>6. pc[u] = "mlock_try" /\ ~Raw(u)
  BY <1>3, <1>4 DEF Fits
<1> HIDE DEF u
<1>7. Undisturbed'
  BY <1>1, <1>4, <1>5 DEF Undisturbed, Good, WInv
<1>8. NoOrphanLock'
  BY <1>1, <1>5, OrphanFrame DEF MgmtLabels
<1>9. Owned'
  <2>1. pc'[Idle] = "user" /\ tstate'[Idle] = "RUNNING"
    BY <1>4, <1>5, NodeFacts DEF Good, WInv, Owned
  <2>2. \A s \in Threads : pc'[s] \in OwnLabels => pc[s] \in OwnLabels
    BY <1>5 DEF OwnLabels, CreateLabels, LeaveLabels, LooseLabels
  <2>3. QED
    BY <1>1, <2>1, <2>2 DEF Owned, Good, WInv
<1>10. StateInv'
  <2>1. CurrentFits'
    BY <1>1, <1>2, <1>3, <1>4, <1>5 DEF CurrentFits
  <2>2. \A s \in Threads : Raw(s)' <=> Raw(s)
    <3>1. \A r \in Threads : pc'[r] \in CreateLabels <=> pc[r] \in CreateLabels
      BY <1>1, <1>5 DEF CreateLabels
    <3>2. QED
      BY <1>1, <3>1 DEF Raw
  <2>3. ASSUME NEW s \in Threads PROVE Fits(s)'
    <3>1. CASE s = u
      BY <1>1, <1>3, <1>5, <1>6, <2>2, <3>1 DEF Fits, ExitLabels, LeaveLabels, LooseLabels
    <3>2. CASE s = t
      BY <1>1, <1>3, <1>4, <1>5, <2>2, <3>2 DEF Fits, ExitLabels, LeaveLabels, LooseLabels
    <3>3. CASE s # t /\ s # u
      <4>1. Fits(s) /\ arg[s] \in Threads
        BY <1>4 DEF Good, Base, TypeOK
      <4>2. pc[s] \in LeaveLabels \cup LooseLabels \cup {"insert2", "wait_log", "wait_free"} =>
              arg[s] # u
        BY <1>3, <4>1 DEF Fits
      <4>3. QED
        BY <1>1, <1>5, <2>2, <3>3, <4>1, <4>2, FitsFrame
    <3>4. QED
      BY <3>1, <3>2, <3>3
  <2>4. QED
    BY <2>1, <2>3 DEF StateInv
<1>11. WaitersInv'
  <2>1. \E s \in Threads : Coming(s)'
    <3>1. \A s \in Threads : s = u => Coming(s)'
      BY <1>3, <1>5, <1>6 DEF Coming
    <3>2. QED
      BY <1>3, <3>1
  <2>2. pc[current] \notin First /\ pc'[current'] = "user"
    BY <1>1, <1>5 DEF First
  <2>3. QED
    BY <1>1, <1>2, <1>3, <2>1, <2>2 DEF WaitersInv, Good, WInv, First
<1>12. QED
  BY <1>2, <1>7, <1>8, <1>9, <1>10, <1>11 DEF WInv

LEMMA EnqueueKeeps ==
  ASSUME Good, NEW t \in Threads, MutexEnqueue(t)
  PROVE  WInv'
<1>1. /\ t = current /\ pc[t] = "mlock_enqueue"
      /\ UNCHANGED <<mutex, locks, printing, arg, allocated, parent, held>>
      /\ pc' = [pc EXCEPT ![t] = "mlock_try"]
  BY DEF MutexEnqueue, At, Goto, userVars
<1>2. /\ ListInv' /\ Ready(MutexHead) /\ Ready(MutexHead)' /\ halted' = "no"
      /\ Loose' = Loose /\ Leaving' = Leaving
      /\ tstate' = [tstate EXCEPT ![t] = "WAITING"]
      /\ current' \in Members(Q(RunHead))
  BY MutexEnqueueLists
<1>3. /\ current' \in Threads /\ current' # t /\ current' \in allocated
      /\ tstate[current'] = "RUNNING" /\ current' \notin Loose \cup Leaving
  BY <1>1, <1>2, Standing
<1>4. /\ t \in allocated /\ tstate[t] = "RUNNING" /\ t \notin Loose \cup Leaving
      /\ t # Idle /\ printing = {} /\ \A s \in Threads : Fits(s)
      /\ mutex.locked # 0
  <2>1. pc[t] \notin DOMAIN AfterLog
    BY <1>1 DEF AfterLog
  <2>2. QED
    BY <1>1, <2>1, NobodyPrints DEF Good, WInv, Owned, StateInv, CurrentFits, WaitersInv
<1>5. /\ pc'[t] = "mlock_try" /\ tstate'[t] = "WAITING"
      /\ \A s \in Threads : s # t => pc'[s] = pc[s] /\ tstate'[s] = tstate[s]
  BY <1>1, <1>2 DEF Good, Base, TypeOK
<1>6. \A s \in Threads : pc'[s] \notin HotLabels
  <2>1. \A s \in Threads : s # t => pc[s] \notin HotLabels
    BY <1>1 DEF Good, WInv, Undisturbed
  <2>2. "mlock_try" \notin HotLabels
    BY DEF HotLabels, MutexLabels
  <2>3. QED
    BY <1>5, <2>1, <2>2
<1>7. Undisturbed'
  BY <1>1, <1>2, <1>4, <1>6 DEF Undisturbed
<1>8. NoOrphanLock'
  BY <1>1, <1>5, OrphanFrame DEF MgmtLabels
<1>9. Owned'
  <2>1. pc'[Idle] = "user" /\ tstate'[Idle] = "RUNNING"
    BY <1>4, <1>5, NodeFacts DEF Good, WInv, Owned
  <2>2. \A s \in Threads : pc'[s] \in OwnLabels => pc[s] \in OwnLabels
    BY <1>5 DEF OwnLabels, CreateLabels, LeaveLabels, LooseLabels
  <2>3. QED
    BY <1>1, <2>1, <2>2 DEF Owned, Good, WInv
<1>10. StateInv'
  <2>1. CurrentFits'
    BY <1>1, <1>2, <1>3, <1>5 DEF CurrentFits
  <2>2. \A s \in Threads : Raw(s)' <=> Raw(s)
    <3>1. \A r \in Threads : pc'[r] \in CreateLabels <=> pc[r] \in CreateLabels
      BY <1>1, <1>5 DEF CreateLabels
    <3>2. QED
      BY <1>1, <3>1 DEF Raw
  <2>3. ASSUME NEW s \in Threads PROVE Fits(s)'
    <3>1. Fits(s) /\ Fits(t) /\ arg[s] \in Threads
      BY <1>4 DEF Good, Base, TypeOK
    <3>2. CASE s = t
      BY <1>1, <1>4, <1>5, <2>2, <3>1, <3>2 DEF Fits, ExitLabels, LeaveLabels, LooseLabels
    <3>3. CASE s # t
      <4>1. pc[s] \in LeaveLabels \cup LooseLabels => arg[s] # t
        BY <1>4 DEF Leaving, Loose
      <4>2. pc[s] \in {"wait_log", "wait_free"} => arg[s] # t
        BY <1>4, <3>1 DEF Fits
      <4>3. pc[s] # "insert2"
        BY <1>1, <3>3 DEF Good, WInv, Undisturbed, HotLabels
      <4>4. QED
        BY <1>1, <1>5, <2>2, <3>1, <3>3, <4>1, <4>2, <4>3, FitsFrame
    <3>4. QED
      BY <3>2, <3>3
  <2>4. QED
    BY <2>1, <2>3 DEF StateInv
<1>11. WaitersInv'
  BY <1>1, <1>2, <1>3, <1>4, <1>6 DEF WaitersInv, HotLabels, MutexLabels, First
<1>12. QED
  BY <1>2, <1>7, <1>8, <1>9, <1>10, <1>11 DEF WInv

-----------------------------------------------------------------------------
(* The invariant.                                                          *)

LEMMA WindowStep ==
  ASSUME Good, Windows \subseteq TickFree, [Next]_vars
  PROVE  WInv'
<1>1. CASE Tick \/ \E t \in Threads : \/ Spin(t) \/ CallYield(t) \/ SleepYield(t)
                                      \/ ExitYield(t) \/ WaitSpin(t)
  BY <1>1, TurnSteps, TurnKeeps
<1>2. ASSUME NEW t \in Threads, LockStep(t) \/ PlainStep(t) \/ StoreStep(t) PROVE WInv'
  BY <1>2, JumpActions
<1>3. ASSUME NEW t \in Threads, SetStep(t) PROVE WInv'
  BY <1>3, SetKeeps
<1>4. ASSUME NEW t \in Threads, WaitFree(t) \/ \E u \in Threads : CallCreate(t, u) PROVE WInv'
  BY <1>4, FreeKeeps, CreateKeeps
<1>5. ASSUME NEW t \in Threads,
             \/ MutexTry(t) \/ CallMutexUnlock(t) \/ MutexInit(t) \/ MutexNotify(t)
             \/ MutexEnqueue(t)
      PROVE  WInv'
  BY <1>5, TryKeeps, UnlockKeeps, InitKeeps, NotifyKeeps, EnqueueKeeps
<1>6. ASSUME UNCHANGED vars PROVE WInv'
  BY <1>6 DEF vars, Good, WInv, ListInv, Q, RunRing, SleepRing, MutexRing, Ready, Placed, Place,
     Leaving, Loose, Undisturbed, NoOrphanLock, Owned, StateInv, CurrentFits, Fits, Raw,
     WaitersInv, Coming
<1>7. ASSUME NEW t \in Threads, Call(t) PROVE WInv'
  BY <1>1, <1>2, <1>4, <1>5, <1>7 DEF Call, PlainStep
<1>8. ASSUME NEW t \in Threads, Kernel(t) PROVE WInv'
  BY <1>1, <1>2, <1>3, <1>4, <1>5, <1>8 DEF Kernel, PlainStep, LockStep, StoreStep, SetStep
<1>9. QED
  BY <1>1, <1>6, <1>7, <1>8 DEF Next, Hlt


-----------------------------------------------------------------------------
(* The initial states.                                                     *)

LEMMA EmptyRing ==
  ASSUME NEW ls, NEW h, Ring(ls, h, <<>>)
  PROVE  ls.prev[h] = h
<1>1. Len(<<>>) = 0 /\ 0 \in 0..0
  OBVIOUS
<1>2. ls.prev[Stop(h, <<>>, 1)] = Stop(h, <<>>, 0)
  BY <1>1 DEF Ring
<1>3. QED
  BY <1>1, <1>2 DEF Stop

LEMMA InitLists ==
  ASSUME Init
  PROVE  /\ links \in Links
         /\ Ring(links, RunHead, <<Idle>>) /\ Ring(links, SleepHead, <<>>)
         /\ \/ Ring(links, MutexHead, <<>>)
            \/ links.next[MutexHead] = NULL
<1> DEFINE X     == Nodes \cup {NULL}
           empty == [next |-> [n \in Nodes |-> NULL], prev |-> [n \in Nodes |-> NULL]]
           l1    == ListInit(empty, RunHead)
           l2    == ListInit(l1, SleepHead)
           l3    == IF QueueReady THEN ListInit(l2, MutexHead) ELSE l2
<1>1. links = ListAddTail(l3, Idle, RunHead)
  BY DEF Init
<1>2. <<>> \in Seq(Nodes) /\ <<>> \in Seq(Threads) /\ Members(<<>>) = {}
  BY DEF Members
<1>3. empty \in Pointers(Nodes, X) /\ Nodes \subseteq X
  BY DEF Pointers
<1>4. l1 \in Pointers(Nodes, X) /\ l2 \in Pointers(Nodes, X)
      /\ l3 \in Pointers(Nodes, X)
  BY <1>3, NodeFacts DEF ListInit, Pointers
<1>5. Ring(l1, RunHead, <<>>)
  BY <1>3, NodeFacts, RingInit
<1> HIDE DEF empty
<1>6. /\ l2.next[RunHead] = l1.next[RunHead] /\ l2.prev[RunHead] = l1.prev[RunHead]
      /\ l3.next[RunHead] = l2.next[RunHead] /\ l3.prev[RunHead] = l2.prev[RunHead]
      /\ l3.next[SleepHead] = l2.next[SleepHead] /\ l3.prev[SleepHead] = l2.prev[SleepHead]
  BY <1>4, NodeFacts DEF ListInit, Pointers
<1>7. Ring(l2, SleepHead, <<>>)
  BY <1>4, NodeFacts, RingInit
<1>8. l2.next[MutexHead] = NULL
  BY <1>3, NodeFacts DEF empty, ListInit
<1>9. Ring(l3, MutexHead, <<>>) \/ l3.next[MutexHead] = NULL
  BY <1>4, <1>8, NodeFacts, RingInit
<1> HIDE DEF l1, l2, l3
<1>10. Ring(l3, RunHead, <<>>) /\ Ring(l3, SleepHead, <<>>)
  <2>1. Ring(l2, RunHead, <<>>)
    BY <1>2, <1>5, <1>6, RingKept
  <2>2. QED
    BY <1>2, <1>6, <1>7, <2>1, RingKept
<1>11. Idle \in Nodes /\ Idle # RunHead /\ Idle \notin Heads
  BY NodeFacts
<1>12. Ring(links, RunHead, <<Idle>>)
  <2>1. Ring(ListAddTail(l3, Idle, RunHead), RunHead, Append(<<>>, Idle))
    BY <1>2, <1>3, <1>4, <1>10, <1>11, NodeFacts, RingAddTail
  <2>2. Append(<<>>, Idle) = <<Idle>>
    OBVIOUS
  <2>3. QED
    BY <1>1, <2>1, <2>2
<1>13. ASSUME NEW x \in {SleepHead, MutexHead}
       PROVE  links.next[x] = l3.next[x] /\ links.prev[x] = l3.prev[x]
  <2>1. x \in Nodes /\ x # Idle /\ x \notin {RunHead} \cup Members(<<>>)
    BY <1>2, <1>11, NodeFacts
  <2>2. RunHead \in Nodes /\ Ring(l3, RunHead, <<>>)
    BY <1>10, NodeFacts
  <2>3. /\ ListAddTail(l3, Idle, RunHead).next[x] = l3.next[x]
        /\ ListAddTail(l3, Idle, RunHead).prev[x] = l3.prev[x]
    <3>1. l3.prev[RunHead] = RunHead
      BY <2>2, EmptyRing
    <3>2. QED
      BY <1>4, <2>1, <2>2, <3>1 DEF ListAddTail, ListInsert, LinkNew, SetNext, SetPrev,
         Pointers
  <2>4. QED
    BY <1>1, <2>3
<1>14. Ring(links, SleepHead, <<>>)
  BY <1>2, <1>10, <1>13, RingKept
<1>15. Ring(links, MutexHead, <<>>) \/ links.next[MutexHead] = NULL
  BY <1>2, <1>9, <1>13, RingKept
<1>16. links \in Links
  BY <1>1, <1>2, <1>3, <1>4, <1>10, <1>11, NodeFacts, LinksArePointers, ListOpsType
<1>17. QED
  BY <1>12, <1>14, <1>15, <1>16

LEMMA InitReads ==
  ASSUME Init
  PROVE  /\ Q(RunHead) = <<Idle>> /\ Q(SleepHead) = <<>> /\ Q(MutexHead) = <<>>
         /\ Ready(MutexHead) => Ring(links, MutexHead, <<>>)
<1>1. <<Idle>> \in Seq(Threads) /\ <<>> \in Seq(Threads)
  BY NodeFacts
<1>2. Q(RunHead) = <<Idle>> /\ Q(SleepHead) = <<>>
  BY <1>1, InitLists, RingRead, NodeFacts DEF Q
<1>3. CASE links.next[MutexHead] = NULL
  BY <1>2, <1>3 DEF Q, Read, Ready
<1>4. CASE Ring(links, MutexHead, <<>>)
  BY <1>1, <1>2, <1>4, InitLists, RingRead, NodeFacts DEF Q
<1>5. QED
  BY <1>3, <1>4, InitLists

LEMMA InitWindow == Init => WInv
<1> SUFFICES ASSUME Init PROVE WInv
  OBVIOUS
<1>1. /\ Q(RunHead) = <<Idle>> /\ Q(SleepHead) = <<>> /\ Q(MutexHead) = <<>>
      /\ Ready(MutexHead) => Ring(links, MutexHead, <<>>)
  BY InitReads
<1>2. /\ \A t \in Threads : pc[t] = "user" /\ parent[t] = NULL /\ held[t] = 0
      /\ current = Main /\ allocated = {Main, Idle} /\ printing = {} /\ halted = "no"
      /\ \A t \in Threads :
           tstate[t] = IF t \in {Main, Idle} THEN "RUNNING" ELSE "FREE"
      /\ mutex.locked = 0
  BY DEF Init
<1>3. Loose = {} /\ Leaving = {} /\ \A t \in Threads : ~Raw(t)
  BY <1>2 DEF Loose, Leaving, Raw, LooseLabels, LeaveLabels, CreateLabels
<1>4. ListInv
  <2>1. \A h \in Heads : Q(h) \in Seq(Threads)
    <3>1. <<Idle>> \in Seq(Threads) /\ <<>> \in Seq(Threads)
      BY NodeFacts
    <3>2. QED
      BY <1>1, <3>1 DEF Heads
  <2>2. RunRing /\ SleepRing /\ MutexRing
    BY <1>1, <1>2, InitLists, NodeFacts DEF RunRing, SleepRing, MutexRing
  <2>3. Placed
    <3>1. Members(<<>>) = {} /\ Members(<<Idle>>) = {Idle}
      BY DEF Members
    <3>2. HomeOf("RUNNING") = {RunHead}
      BY DEF HomeOf
    <3>3. \A t \in Threads : Place(t) = IF t = Idle THEN {RunHead} ELSE {}
      BY <1>2, <1>3, <3>2, NodeFacts, ConstantsOK DEF Place
    <3>4. QED
      BY <1>1, <3>1, <3>3, NodeFacts DEF Placed, Heads
  <2>4. QED
    BY <2>1, <2>2, <2>3 DEF ListInv
<1>5. Undisturbed
  BY <1>2 DEF Undisturbed, HotLabels, MutexLabels
<1>6. NoOrphanLock
  BY NodeFacts DEF Init, NoOrphanLock, Locks
<1>7. Owned
  BY <1>2, NodeFacts DEF Owned, OwnLabels, CreateLabels, LeaveLabels, LooseLabels
<1>8. StateInv
  <2>1. CurrentFits
    BY <1>2, <1>3, NodeFacts DEF CurrentFits
  <2>2. \A t \in Threads : Fits(t)
    BY <1>2, <1>3 DEF Fits, ExitLabels, LeaveLabels, LooseLabels
  <2>3. QED
    BY <2>1, <2>2 DEF StateInv
<1>9. WaitersInv
  BY <1>1, <1>2, NodeFacts DEF WaitersInv, First
<1>10. QED
  BY <1>4, <1>5, <1>6, <1>7, <1>8, <1>9 DEF WInv

LEMMA WindowInvariant ==
  ASSUME Windows \subseteq TickFree
  PROVE  Spec => []Good
<1>1. WInv /\ TypeOK /\ SpinExclusion /\ FlagInv /\ MutexInv /\ [Next]_vars => WInv'
  BY WindowStep DEF Good, Base
<1>2. WInv /\ TypeOK /\ SpinExclusion /\ FlagInv /\ MutexInv => Good
  BY DEF Good, Base
<1>3. QED
  BY <1>1, <1>2, InitWindow, TypeCorrect, SpinLocksExclude, FlagInvariant,
     MutexInvariant, PTL DEF Spec


-----------------------------------------------------------------------------
(* What the invariant says.                                                *)

(* Between list operations every list is a ring, and reads as its queue.   *)
LEMMA RingsAtRest ==
  ASSUME Good, ListsAtRest, NEW h \in Heads, Ready(h)
  PROVE  Ring(links, h, Q(h)) /\ Q(h) \in Seq(Nodes) /\ Len(Q(h)) < Bound
<1>1. pc[current] # "insert2" /\ \A t \in Threads : pc[t] # "wake_del2"
  BY DEF ListsAtRest, Good, Base, TypeOK
<1>2. Ring(links, h, Q(h))
  BY <1>1, CurrentRings DEF Heads
<1>3. QED
  BY <1>2, QType, NodeFacts, NodesAreFinite, RingFits DEF Bound

LEMMA QueuesAreRead ==
  ASSUME Good
  PROVE  /\ \A h \in Heads : Ready(h) => Queue(h) = Q(h)
         /\ Ready(RunHead) /\ Ready(SleepHead)
         /\ ~Ready(MutexHead) => Q(MutexHead) = <<>>
<1>1. \A h \in Heads : Ready(h) => Queue(h) = Q(h)
  BY DEF Ready, Queue, Q, Read
<1>2. Q(RunHead) \in Seq(Threads) /\ Q(SleepHead) \in Seq(Threads) /\ links \in Links
  BY QType, NodeFacts DEF Good, Base, TypeOK
<1>3. Ready(RunHead)
  <2>1. CASE pc[current] = "insert2"
    <3>1. Ring(SetPrev(links, RunHead, arg[current]), RunHead, Q(RunHead))
      BY <2>1 DEF Good, WInv, ListInv, RunRing
    <3>2. /\ SetPrev(links, RunHead, arg[current]) \in Links
          /\ SetPrev(links, RunHead, arg[current]).next = links.next
      <4>1. arg[current] \in Nodes
        BY NodeFacts DEF Good, Base, TypeOK
      <4>2. QED
        BY <1>2, <4>1, StoreType DEF SetPrev, Links
    <3>3. QED
      BY <1>2, <3>1, <3>2, RingReads, NodeFacts DEF Ready
  <2>2. CASE pc[current] # "insert2"
    BY <1>2, <2>2, CurrentRings, RingRead, NodeFacts DEF Ready
  <2>3. QED
    BY <2>1, <2>2
<1>4. Ready(SleepHead)
  <2>1. CASE \A t \in Threads : pc[t] # "wake_del2"
    <3>1. Ring(links, SleepHead, Q(SleepHead))
      BY <2>1 DEF Good, WInv, ListInv, SleepRing
    <3>2. QED
      BY <1>2, <3>1, RingRead, NodeFacts DEF Ready
  <2>2. ASSUME NEW t \in Threads, pc[t] = "wake_del2" PROVE Ready(SleepHead)
    <3>1. Ring(SetPrev(links, reg[t][2], reg[t][1]), SleepHead, Q(SleepHead))
      BY <2>2 DEF Good, WInv, ListInv, SleepRing
    <3>2. /\ SetPrev(links, reg[t][2], reg[t][1]) \in Links
          /\ SetPrev(links, reg[t][2], reg[t][1]).next = links.next
      <4>1. reg[t][1] \in Nodes \cup {NULL}
        BY DEF Good, Base, TypeOK
      <4>2. QED
        BY <1>2, <4>1, StoreType DEF SetPrev, Links
    <3>3. QED
      BY <1>2, <3>1, <3>2, RingReads, NodeFacts DEF Ready
  <2>3. QED
    BY <2>1, <2>2
<1>5. QED
  BY <1>1, <1>3, <1>4 DEF Ready, Q, Read

LEMMA RingsAreClosed == Good => ListsWellFormed
<1> SUFFICES ASSUME Good, ListsAtRest, NEW h \in Heads, Ready(h)
             PROVE  WellFormed(links, h, Bound)
  BY DEF ListsWellFormed
<1>1. links \in Pointers(Nodes, Nodes \cup {NULL}) /\ h \in Nodes /\ Bound \in Nat
  BY NodeFacts, NodesAreFinite, LinksArePointers DEF Good, Base, TypeOK
<1>2. QED
  BY <1>1, RingsAtRest, RingIsRead

LEMMA EveryoneIsPlaced == Good => Placement
<1> SUFFICES ASSUME Good, ListsAtRest PROVE Placement
  BY DEF Placement
<1>1. ASSUME NEW h \in Heads, Ready(h)
      PROVE  On(h) = Members(Q(h)) /\ On(h) \subseteq Threads
  <2>1. Queue(h) = Q(h) /\ Q(h) \in Seq(Threads)
    BY <1>1, QueuesAreRead, QType
  <2>2. DOMAIN Q(h) = 1..Len(Q(h))
    BY <2>1
  <2>3. QED
    BY <2>1, <2>2, ThreadSeqs DEF On, Members
<1>2. ASSUME NEW h \in Heads, ~Ready(h) PROVE Members(Q(h)) = {}
  BY <1>2 DEF Ready, Q, Read, Members
<1>3. \A h \in Heads : Ready(h) => current \notin On(h)
  BY <1>1, Apart
<1>4. ASSUME NEW t \in Threads \ (Moving \cup {current})
      PROVE  {h \in {g \in Heads : Ready(g)} : t \in On(h)} =
               IF t \in allocated THEN HomeOf(tstate[t]) ELSE {}
  <2>1. t \notin Loose \cup Leaving
    BY <1>4 DEF Moving, Loose, Leaving, LooseLabels, LeaveLabels
  <2>2. Place(t) = IF t \in allocated THEN HomeOf(tstate[t]) ELSE {}
    BY <1>4, <2>1 DEF Place
  <2>3. \A h \in Heads : t \in Members(Q(h)) <=> h \in Place(t)
    BY DEF Good, WInv, ListInv, Placed
  <2>4. Place(t) \subseteq Heads
    BY <2>2 DEF HomeOf, Heads
  <2>5. QED
    BY <1>1, <1>2, <2>2, <2>3, <2>4
<1>5. QED
  BY <1>3, <1>4 DEF Placement

LEMMA HoldersCanRun == Good => NoBlockedHolder
<1> SUFFICES ASSUME Good, NEW t \in Threads \ {current}, NEW l \in Locks,
                    locks[l].owner = t
             PROVE  tstate[t] = "RUNNING"
  BY DEF NoBlockedHolder
<1>1. pc[t] \in MgmtLabels
  BY DEF Locks, Good, WInv, NoOrphanLock, Undisturbed
<1>2. pc[t] \notin {"sleep_unlock", "exit_unlock"}
  BY DEF Good, WInv, Undisturbed, HotLabels
<1>3. Fits(t) /\ tstate[t] \in States
  BY DEF Good, WInv, StateInv, Base, TypeOK
<1>4. QED
  BY <1>1, <1>2, <1>3 DEF Fits, MgmtLabels, ExitLabels, States

LEMMA NobodyReturns == Good => ExitedNeverRuns
<1> SUFFICES ASSUME Good PROVE ExitedNeverRuns
  OBVIOUS
<1>1. CurrentFits /\ Fits(current)
  BY DEF Good, WInv, StateInv, Base, TypeOK
<1>2. QED
  BY <1>1 DEF CurrentFits, Fits, ExitLabels, ExitedNeverRuns

LEMMA SomebodyWakes == Good => NoLostWakeup
<1> SUFFICES ASSUME Good, mutex.locked = 0, Ready(MutexHead), ~ListEmpty(links, MutexHead)
             PROVE  \E t \in Threads : Coming(t)
  BY DEF NoLostWakeup, Coming
<1>1. Ring(links, MutexHead, Q(MutexHead)) /\ Q(MutexHead) \in Seq(Nodes)
  BY QType, NodeFacts DEF Good, WInv, ListInv, MutexRing
<1>2. Q(MutexHead) # <<>>
  BY <1>1, RingEnds DEF ListEmpty
<1>3. QED
  BY <1>2 DEF Good, WInv, WaitersInv

-----------------------------------------------------------------------------
(* The theorems.                                                           *)

(* A lock with an owner has a thread in its section that will release it,  *)
(* and a free lock is free.                                                *)
THEOREM LocksHaveHolders ==
  ASSUME Windows \subseteq TickFree
  PROVE  Spec => []NoOrphanLock
<1>1. Good => NoOrphanLock
  BY DEF Good, WInv
<1>2. QED
  BY <1>1, WindowInvariant, PTL

(* The lists of the threads are closed rings in both directions whenever   *)
(* no list operation is half done.                                         *)
THEOREM ListsStayWellFormed ==
  ASSUME Windows \subseteq TickFree
  PROVE  Spec => []ListsWellFormed
BY RingsAreClosed, WindowInvariant, PTL

(* A suspended thread is on exactly the list that belongs to its state;    *)
(* the thread that runs and the freed slots are on none.                   *)
THEOREM ThreadsArePlaced ==
  ASSUME Windows \subseteq TickFree
  PROVE  Spec => []Placement
BY EveryoneIsPlaced, WindowInvariant, PTL

(* A thread that cannot be scheduled holds no spin lock.                   *)
THEOREM NoHolderIsBlocked ==
  ASSUME Windows \subseteq TickFree
  PROVE  Spec => []NoBlockedHolder
BY HoldersCanRun, WindowInvariant, PTL

(* The die() at the end of thread_exit is never reached, and the thread    *)
(* that runs has not been freed by wait.                                   *)
THEOREM ExitedThreadsStay ==
  ASSUME Windows \subseteq TickFree
  PROVE  Spec => []ExitedNeverRuns
BY NobodyReturns, WindowInvariant, PTL

(* While threads queue for a free mutex, one is on its way to it or is     *)
(* about to notify the first.                                              *)
THEOREM WakeupsAreNotLost ==
  ASSUME Windows \subseteq TickFree
  PROVE  Spec => []NoLostWakeup
BY SomebodyWakes, WindowInvariant, PTL

(* No assertion fails, no NULL queue is stored through, and yield always   *)
(* finds a thread to run.                                                  *)
THEOREM TheMachineRuns ==
  ASSUME Windows \subseteq TickFree
  PROVE  Spec => []NeverStops
<1>1. Good => NeverStops
  BY DEF Good, WInv, Undisturbed, NeverStops
<1>2. QED
  BY <1>1, WindowInvariant, PTL


-----------------------------------------------------------------------------
(* The lists implement the queues of Scheduler.                            *)

MutexQueue == IF Ready(MutexHead) THEN Queue(MutexHead) ELSE <<>>

Reads ==
  /\ Queue(RunHead) = Q(RunHead) /\ Queue(SleepHead) = Q(SleepHead)
  /\ MutexQueue = Q(MutexHead)

LEMMA GoodReads == Good => Reads
BY QueuesAreRead, NodeFacts DEF Reads, MutexQueue

SameQueues == current' = current /\ \A h \in Heads : Q(h)' = Q(h)

LEMMA SameQueuesStutter ==
  ASSUME Reads, Reads', SameQueues
  PROVE  UNCHANGED Sched!vars
<1>1. current' = current /\ Q(RunHead)' = Q(RunHead)
      /\ Q(SleepHead)' = Q(SleepHead) /\ Q(MutexHead)' = Q(MutexHead)
  BY NodeFacts DEF SameQueues
<1>2. /\ Queue(RunHead)' = Queue(RunHead) /\ Queue(SleepHead)' = Queue(SleepHead)
      /\ MutexQueue' = MutexQueue
  BY <1>1 DEF Reads
<1>3. QED
  BY <1>1, <1>2 DEF Sched!vars, MutexQueue

LEMMA SameQueuesSteps ==
  ASSUME Good, NEW t \in Threads,
         \/ LockStep(t) \/ PlainStep(t) \/ SetStep(t)
         \/ Insert(t) \/ InsertPrev(t) \/ WakeDel(t) \/ WakeDelPrev(t)
         \/ WaitFree(t) \/ \E u \in Threads : CallCreate(t, u)
         \/ MutexTry(t) \/ CallMutexUnlock(t) \/ MutexInit(t)
  PROVE  SameQueues
<1>1. TypeOK
  BY DEF Good, Base
<1>2. current' = current
  BY DEF LockStep, LockMgmt, UnlockMgmt, LogBegin, LogEnd, PlainStep, CallPrintf, CallSleep,
     CallExit, CallMutexLock, CallWake, CallWait, CallOn, WaitDone, WakeTest, SetStep, SleepSet,
     ExitSet, CreateSet, Insert, InsertPrev, WakeDel, WakeDelPrev, WaitFree, CallCreate,
     MutexTry, CallMutexUnlock, MutexInit, cpuVars
<1>3. CASE LockStep(t) \/ PlainStep(t) \/ SleepSet(t) \/ ExitSet(t) \/ MutexTry(t)
           \/ CallMutexUnlock(t)
  <2>1. Plain(t)
    BY <1>1, <1>3, PlainSteps DEF LockStep, PlainStep
  <2>2. \A h \in Heads : Q(h)' = Q(h)
    BY <2>1, PlainLists
  <2>3. QED
    BY <1>2, <2>2 DEF SameQueues
<1>4. CASE CreateSet(t) \/ (WakeTest(t) /\ tstate[arg[t]] = "SLEEPING")
  <2>1. CreateSet(t) => \A h \in Heads : Q(h)' = Q(h)
    BY CreateSetLists
  <2>2. (WakeTest(t) /\ tstate[arg[t]] = "SLEEPING") => \A h \in Heads : Q(h)' = Q(h)
    BY WakeTestLists
  <2>3. QED
    BY <1>2, <1>4, <2>1, <2>2 DEF SameQueues
<1>5. CASE Insert(t) \/ InsertPrev(t) \/ WakeDel(t) \/ WakeDelPrev(t)
  BY <1>2, <1>5, InsertLists, InsertPrevLists, WakeDelLists, WakeDelPrevLists DEF SameQueues
<1>6. CASE WaitFree(t) \/ \E u \in Threads : CallCreate(t, u)
  BY <1>2, <1>6, FreeLists, CreateLists DEF SameQueues
<1>7. CASE MutexInit(t)
  BY <1>2, <1>7, MutexInitLists DEF SameQueues
<1>8. SetStep(t) => SleepSet(t) \/ ExitSet(t) \/ CreateSet(t)
                     \/ (WakeTest(t) /\ tstate[arg[t]] = "SLEEPING")
  BY DEF SetStep
<1>9. QED
  BY <1>3, <1>4, <1>5, <1>6, <1>7, <1>8

(* Whoever yields goes to the end of the queue of its state.               *)
LEMMA TurnImplements ==
  ASSUME Good, Turn, Reads, Reads'
  PROVE  Sched!Next
<1> DEFINE rq  == Queue(RunHead)
           sq  == Queue(SleepHead)
           rq2 == RunAfter(tstate[current], rq)
           sq2 == SleepAfter(tstate[current], sq)
<1>1. rq2 # <<>> /\ current' = rq2[1] /\ rq' = Tail(rq2)
  BY TurnQueues DEF Turn, Reads
<1>2. sq' = sq2 /\ MutexQueue' = MutexQueue
  BY TurnLists DEF Reads
<1>3. Head(rq2) = rq2[1]
  OBVIOUS
<1>4. CASE tstate[current] = "RUNNING"
  <2>1. rq2 = Append(rq, current) /\ sq2 = sq
    BY <1>4 DEF RunAfter, SleepAfter
  <2>2. Sched!Rotate
    BY <1>1, <1>2, <1>3, <2>1 DEF Sched!Rotate, Sched!Dispatch, MutexQueue
  <2>3. QED
    BY <2>2 DEF Sched!Next
<1>5. CASE tstate[current] = "SLEEPING"
  <2>1. rq2 = rq /\ sq2 = Append(sq, current)
    BY <1>5 DEF RunAfter, SleepAfter
  <2>2. Sched!Sleep
    BY <1>1, <1>2, <1>3, <2>1 DEF Sched!Sleep, Sched!Dispatch, MutexQueue
  <2>3. QED
    BY <2>2 DEF Sched!Next
<1>6. CASE tstate[current] = "TERMINATED"
  <2>1. rq2 = rq /\ sq2 = sq
    BY <1>6 DEF RunAfter, SleepAfter
  <2>2. Sched!Exit
    BY <1>1, <1>2, <1>3, <2>1 DEF Sched!Exit, Sched!Dispatch, MutexQueue
  <2>3. QED
    BY <2>2 DEF Sched!Next
<1>7. QED
  BY <1>4, <1>5, <1>6 DEF Good, WInv, StateInv, CurrentFits

LEMMA EnqueueImplements ==
  ASSUME Good, Reads, Reads', NEW t \in Threads, MutexEnqueue(t)
  PROVE  Sched!Next
<1>1. t = current
  BY DEF MutexEnqueue, At
<1>2. /\ MutexQueue' = Append(MutexQueue, current)
      /\ Queue(RunHead) # <<>> /\ current' = Queue(RunHead)[1]
      /\ Queue(RunHead)' = Tail(Queue(RunHead)) /\ Queue(SleepHead)' = Queue(SleepHead)
  BY <1>1, MutexEnqueueLists DEF Reads
<1>3. Sched!Block
  BY <1>2 DEF Sched!Block, Sched!Dispatch, MutexQueue
<1>4. QED
  BY <1>3 DEF Sched!Next

LEMMA NotifyImplements ==
  ASSUME Good, Reads, Reads', NEW t \in Threads, MutexNotify(t)
  PROVE  Sched!Next
<1>1. current' = current
  BY DEF MutexNotify
<1>2. /\ MutexQueue # <<>> /\ MutexQueue' = Tail(MutexQueue)
      /\ Queue(RunHead)' = Append(Queue(RunHead), MutexQueue[1])
      /\ Queue(SleepHead)' = Queue(SleepHead)
  BY MutexNotifyLists DEF Reads
<1>3. Sched!Notify
  BY <1>1, <1>2 DEF Sched!Notify, MutexQueue
<1>4. QED
  BY <1>3 DEF Sched!Next

(* The store that makes a new or woken thread reachable.                   *)
LEMMA InsertImplements ==
  ASSUME Good, Reads, Reads', NEW t \in Threads, InsertNext(t)
  PROVE  Sched!Next
<1>1. PICK u : u = arg[t]
  OBVIOUS
<1>2. current' = current /\ pc[t] = "insert1"
  BY DEF InsertNext, At
<1>3. /\ u \in Threads /\ u # current
      /\ \A h \in Heads : u \notin Members(Q(h))
  BY <1>1, <1>2, LooseStands DEF LooseLabels
<1>4. /\ Queue(RunHead)' = Append(Queue(RunHead), u)
      /\ Queue(SleepHead)' = Queue(SleepHead) /\ MutexQueue' = MutexQueue
  BY <1>1, InsertNextLists DEF Reads
<1>5. ASSUME NEW h \in Heads PROVE ~Sched!In(u, Q(h))
  <2>1. Q(h) \in Seq(Threads)
    BY QType
  <2>2. DOMAIN Q(h) = 1..Len(Q(h))
    BY <2>1
  <2>3. QED
    BY <1>3, <2>2 DEF Sched!In, Members
<1>6. Sched!Nowhere(u)
  <2>1. ~Sched!In(u, Queue(RunHead)) /\ ~Sched!In(u, Queue(SleepHead))
        /\ ~Sched!In(u, MutexQueue)
    BY <1>5, NodeFacts DEF Reads
  <2>2. QED
    BY <1>3, <2>1 DEF Sched!Nowhere, MutexQueue
<1>7. Sched!Add(u)
  BY <1>2, <1>4, <1>6 DEF Sched!Add, MutexQueue
<1>8. QED
  BY <1>3, <1>7 DEF Sched!Next

(* The store that takes a woken thread off the sleepers.                   *)
LEMMA WakeImplements ==
  ASSUME Good, Reads, Reads', NEW t \in Threads, WakeDelNext(t)
  PROVE  Sched!Next
<1>1. PICK u : u = arg[t]
  OBVIOUS
<1>2. current' = current /\ u \in Threads
  BY <1>1 DEF WakeDelNext, Good, Base, TypeOK
<1>3. Q(SleepHead) \in Seq(Threads)
  BY QType, NodeFacts
<1>4. PICK i \in 1..Len(Q(SleepHead)) :
        Q(SleepHead)[i] = u /\ Q(SleepHead)' = Cut(Q(SleepHead), i)
  BY <1>1, WakeDelNextLists
<1>5. Cut(Q(SleepHead), i) = Sched!Without(Q(SleepHead), i)
  BY <1>3, CutRemoves DEF Sched!Without
<1>6. i \in DOMAIN Queue(SleepHead) /\ Queue(SleepHead)[i] = u
      /\ Queue(SleepHead)' = Sched!Without(Queue(SleepHead), i)
  BY <1>3, <1>4, <1>5 DEF Reads
<1>7. Queue(RunHead)' = Queue(RunHead) /\ MutexQueue' = MutexQueue
  BY WakeDelNextLists DEF Reads
<1>8. Sched!Rouse(u)
  BY <1>2, <1>6, <1>7 DEF Sched!Rouse, MutexQueue
<1>9. QED
  BY <1>2, <1>8 DEF Sched!Next

LEMMA StepImplements ==
  ASSUME Good, Reads, Reads', Windows \subseteq TickFree, [Next]_vars
  PROVE  [Sched!Next]_Sched!vars
<1>1. CASE Tick \/ \E t \in Threads : \/ Spin(t) \/ CallYield(t) \/ SleepYield(t)
                                      \/ ExitYield(t) \/ WaitSpin(t)
  BY <1>1, TurnSteps, TurnImplements
<1>2. ASSUME NEW t \in Threads,
             \/ LockStep(t) \/ PlainStep(t) \/ SetStep(t)
             \/ Insert(t) \/ InsertPrev(t) \/ WakeDel(t) \/ WakeDelPrev(t)
             \/ WaitFree(t) \/ \E u \in Threads : CallCreate(t, u)
             \/ MutexTry(t) \/ CallMutexUnlock(t) \/ MutexInit(t)
      PROVE  UNCHANGED Sched!vars
  BY <1>2, SameQueuesSteps, SameQueuesStutter
<1>3. ASSUME NEW t \in Threads,
             InsertNext(t) \/ WakeDelNext(t) \/ MutexEnqueue(t) \/ MutexNotify(t)
      PROVE  Sched!Next
  BY <1>3, InsertImplements, WakeImplements, EnqueueImplements, NotifyImplements
<1>4. CASE UNCHANGED vars
  BY <1>4, SameQueuesStutter DEF vars, SameQueues, Q
<1>5. ASSUME NEW t \in Threads, Call(t) PROVE [Sched!Next]_Sched!vars
  BY <1>1, <1>2, <1>5 DEF Call, PlainStep
<1>6. ASSUME NEW t \in Threads, Kernel(t) PROVE [Sched!Next]_Sched!vars
  BY <1>1, <1>2, <1>3, <1>6 DEF Kernel, PlainStep, LockStep, SetStep
<1>7. QED
  BY <1>1, <1>4, <1>5, <1>6 DEF Next, Hlt

LEMMA InitImplements == Init /\ Reads => Sched!Init
<1> SUFFICES ASSUME Init, Reads PROVE Sched!Init
  OBVIOUS
<1>1. Q(RunHead) = <<Idle>> /\ Q(SleepHead) = <<>> /\ Q(MutexHead) = <<>>
  BY InitReads
<1>2. /\ Queue(RunHead) = <<Idle>> /\ Queue(SleepHead) = <<>> /\ MutexQueue = <<>>
      /\ current = Main
  BY <1>1 DEF Reads, Init
<1>3. QED
  BY <1>2 DEF Sched!Init, MutexQueue

(* Every step of the kernel is a step of Scheduler on the queues that its  *)
(* lists make, or changes none of them: threads get the processor and the  *)
(* mutex in the order they asked, and none stands in two places.           *)
THEOREM ListsScheduleInOrder ==
  ASSUME Windows \subseteq TickFree
  PROVE  Spec => Implements
<1>1. Reads /\ Reads' /\ Good /\ [Next]_vars => [Sched!Next]_Sched!vars
  BY StepImplements
<1>2. QED
  BY <1>1, InitImplements, GoodReads, WindowInvariant, PTL DEF Spec, Implements, Sched!Spec

=============================================================================
