----------------------------- MODULE Threading -----------------------------
(***************************************************************************)
(* The threads of the kernel: threading.c, threading_asm.S and the timer   *)
(* handler of main.c, on one processor.                                    *)
(*                                                                         *)
(* `current' is the thread the processor executes; every other thread is   *)
(* suspended inside switch_thread_switch.  pc[t] is the kernel statement   *)
(* thread t executes next, "user" while it is outside the kernel.  Only    *)
(* the current thread takes steps; the timer interrupt (Tick) may come     *)
(* before any statement the thread executes with interrupts enabled and    *)
(* switches to the next thread of running_threads.                         *)
(*                                                                         *)
(* List operations that run with interrupts disabled are one step; in      *)
(* create_thread and wake, which hold threads_mgmt_lock but leave the      *)
(* interrupts on, every store of a list operation is a step of its own.    *)
(*                                                                         *)
(* The client is any program that uses the interface the way main.c does:  *)
(* only the creator of a thread wakes it and waits for it, once; unlocks   *)
(* match locks; a thread does not exit with the mutex held.                *)
(***************************************************************************)
EXTENDS Lists

CONSTANTS
  Threads,      \* struct thread slots of the slab allocator threads_alloc
  Main, Idle,   \* the boot thread and the thread of idle_thread()
  NULL,
  RunHead,      \* running_threads
  SleepHead,    \* sleeping_threads
  MutexHead,    \* mutex.queue of the one mutex
  QueueReady,   \* TRUE: the mutex has been locked before, its queue is set up
  TickFree,     \* labels before which the timer is assumed not to fire
  MaxDepth      \* bound on the nesting of mutex_lock in one thread

Heads == {RunHead, SleepHead, MutexHead}
Nodes == Threads \cup Heads

Locks == {"threads_mgmt_lock", "printf_lock"}

(* The four states of threading.h; "FREE" is a slot never handed out.      *)
States == {"FREE", "RUNNING", "SLEEPING", "WAITING", "TERMINATED"}

(* Where a thread stands.  Labels that end in _log are a call of log().    *)
AfterLock == [create_lock |-> "create_log", wake_lock |-> "wake_test",
              sleep_lock  |-> "sleep_log",  exit_lock |-> "exit_log"]

AfterLog == [create_log |-> "create_set",    wake_log     |-> "wake_del",
             sleep_log  |-> "sleep_set",     exit_log     |-> "exit_set",
             wait_log   |-> "wait_free",     printf_log   |-> "user",
             mlock_log  |-> "mlock_enqueue", mlock_first_log |-> "mlock_init",
             munlock_log |-> "munlock_notify"]

AfterUnlock == [insert_unlock |-> "user", sleep_unlock |-> "sleep_yield",
                exit_unlock   |-> "exit_yield"]

(* Labels at which the thread holds threads_mgmt_lock.                     *)
MgmtLabels == {"create_log", "create_set", "wake_test", "wake_log",
               "wake_del", "wake_del1", "wake_del2",
               "insert", "insert1", "insert2", "insert_unlock",
               "sleep_log", "sleep_set", "sleep_unlock",
               "exit_log", "exit_set", "exit_unlock"}

(* Labels inside mutex_lock and mutex_unlock, after their cli.             *)
MutexLabels == {"mlock_try", "mlock_log", "mlock_enqueue",
                "mlock_first_log", "mlock_init",
                "munlock_log", "munlock_notify"}

Labels == DOMAIN AfterLock \cup MgmtLabels \cup MutexLabels
          \cup {"user", "printf_log", "sleep_yield", "exit_yield",
                "exit_returned", "wait_loop", "wait_log", "wait_free"}

(* The statements at which a tick breaks the threads (README, "Windows"):  *)
(* a thread whose new state is set while it still holds threads_mgmt_lock, *)
(* a list store of create_thread, and a thread in vprintf, because         *)
(* mutex_lock and mutex_unlock log in their middle.                        *)
Windows == {"sleep_unlock", "exit_unlock", "insert1", "insert2", "printing"}

ASSUME ConstantsOK ==
  /\ IsFiniteSet(Threads)
  /\ Main \in Threads /\ Idle \in Threads /\ Main # Idle
  /\ NULL \notin Nodes
  /\ RunHead \notin Threads /\ SleepHead \notin Threads
  /\ MutexHead \notin Threads
  /\ RunHead # SleepHead /\ RunHead # MutexHead /\ SleepHead # MutexHead
  /\ QueueReady \in BOOLEAN
  /\ MaxDepth \in Nat

VARIABLES
  current,    \* current_thread
  links,      \* every struct list_head
  tstate,     \* thread->state
  locks,      \* the two spin locks: [locked, owner]
  mutex,      \* the mutex: [locked, owner]
  intr,       \* the interrupt flag of the thread: of the CPU, or saved
  spinning,   \* threads in the loop of spin_lock
  spinIF,     \* rflags local of spin_lock
  mutexIF,    \* rflags local of mutex_lock and mutex_unlock
  pc,
  printing,   \* threads inside vprintf, with printf_lock held
  arg,        \* the thread_t argument, local or result of the last call
  reg,        \* the neighbours a list operation in progress has read
  allocated,  \* slots handed out by slab_allocator_alloc
  parent,     \* who created the thread and may wake it and wait for it
  held,       \* mutex_lock calls not yet matched by mutex_unlock
  halted      \* "no", or why the machine stopped

cpuVars  == <<current, links, halted>>
flagVars == <<intr, spinning, spinIF>>
userVars == <<allocated, parent, held>>
vars == <<current, links, tstate, locks, mutex, intr, spinning, spinIF,
          mutexIF, pc, printing, arg, reg, allocated, parent, held, halted>>

(* init_threading has run: the boot thread is running, the idle thread is  *)
(* the only one on running_threads.                                        *)
Init ==
  /\ current = Main
  /\ links = LET empty == [next |-> [n \in Nodes |-> NULL],
                           prev |-> [n \in Nodes |-> NULL]]
                 heads == ListInit(ListInit(empty, RunHead), SleepHead)
                 queue == IF QueueReady THEN ListInit(heads, MutexHead)
                                        ELSE heads
             IN  ListAddTail(queue, Idle, RunHead)
  /\ tstate = [t \in Threads |->
                 IF t \in {Main, Idle} THEN "RUNNING" ELSE "FREE"]
  /\ locks = [l \in Locks |-> [locked |-> 0, owner |-> NULL]]
  /\ mutex = [locked |-> 0, owner |-> NULL]
  /\ intr = [t \in Threads |-> TRUE]
  /\ spinning = {}
  /\ spinIF = [t \in Threads |-> FALSE]
  /\ mutexIF = [t \in Threads |-> FALSE]
  /\ pc = [t \in Threads |-> "user"]
  /\ printing = {}
  /\ arg = [t \in Threads |-> t]
  /\ reg = [t \in Threads |-> <<NULL, NULL>>]
  /\ allocated = {Main, Idle}
  /\ parent = [t \in Threads |-> NULL]
  /\ held = [t \in Threads |-> 0]
  /\ halted = "no"

-----------------------------------------------------------------------------
(* The processor.                                                          *)

At(t, l)   == halted = "no" /\ current = t /\ pc[t] = l
Goto(t, l) == pc' = [pc EXCEPT ![t] = l]

(* switch_thread_switch with the thread states ts and the lists ls: the    *)
(* current thread is queued by its state, the first thread of              *)
(* running_threads becomes current.  On an empty list, current_thread      *)
(* would be computed from the list head itself: the machine runs wild.     *)
Requeued(ts, ls) ==
  IF ts[current] = "RUNNING" THEN ListAddTail(ls, current, RunHead)
  ELSE IF ts[current] = "SLEEPING" THEN ListAddTail(ls, current, SleepHead)
  ELSE ls

\* Mutant: the thread that gets the processor stays on running_threads.
SwitchWithoutDel(ts, ls) ==
  /\ current' = ListFirst(Requeued(ts, ls), RunHead)
  /\ links' = Requeued(ts, ls)
  /\ UNCHANGED halted

Switch(ts, ls) ==
  LET queued == Requeued(ts, ls)
      first  == ListFirst(queued, RunHead)
  IN  IF first \in Threads
      THEN /\ current' = first
           /\ links' = ListDel(queued, first)
           /\ UNCHANGED halted
      ELSE /\ links' = queued
           /\ halted' = "wild"
           /\ UNCHANGED current

(* The statement t is about to execute, for the assumption on the timer.   *)
Here(t) == IF t \in printing THEN "printing" ELSE pc[t]

(* timer(): the interrupt gate saves the interrupt flag, yield() switches. *)
Tick ==
  /\ halted = "no"
  /\ intr[current]
  /\ Here(current) \notin TickFree
  /\ Switch(tstate, links)
  /\ UNCHANGED <<tstate, locks, mutex, intr, spinning, spinIF, mutexIF, pc,
                 printing, arg, reg, allocated, parent, held>>

-----------------------------------------------------------------------------
(* Spin locks.                                                             *)

\* Mutant: spin_lock does not wait.
AvailableAlways(l, t) == TRUE

Available(l, t) == locks[l].locked = 0 \/ locks[l].owner = t

\* Mutant: set_rflags is missing after the loop.
AcquireFlagsLost(t, l) ==
  /\ Available(l, t)
  /\ locks' = [locks EXCEPT ![l] = [locked |-> @.locked + 1, owner |-> t]]
  /\ spinning' = spinning \ {t}
  /\ UNCHANGED <<intr, spinIF>>

(* The end of spin_lock: the loop is left, the saved flags are restored.   *)
Acquire(t, l) ==
  /\ Available(l, t)
  /\ locks' = [locks EXCEPT ![l] = [locked |-> @.locked + 1, owner |-> t]]
  /\ intr' = [intr EXCEPT ![t] = IF t \in spinning THEN spinIF[t] ELSE @]
  /\ spinning' = spinning \ {t}
  /\ spinIF' = [spinIF EXCEPT ![t] = FALSE]

\* Mutant: the owner is not reset.
ReleaseKeepsOwner(t, l) ==
  /\ locks' = [locks EXCEPT ![l].locked = @ - 1]
  /\ UNCHANGED halted

(* spin_unlock, with its two assertions.                                   *)
Release(t, l) ==
  IF locks[l].locked # 0 /\ locks[l].owner = t
  THEN /\ locks' = [locks EXCEPT ![l] =
                      [locked |-> @.locked - 1,
                       owner  |-> IF @.locked = 1 THEN NULL ELSE @.owner]]
       /\ UNCHANGED halted
  ELSE /\ halted' = "die"
       /\ UNCHANGED locks

(* The lock the thread is about to take, if any.                           *)
Wanted(t) ==
  {l \in Locks :
     \/ l = "threads_mgmt_lock" /\ pc[t] \in DOMAIN AfterLock
     \/ l = "printf_lock" /\ pc[t] \in DOMAIN AfterLog /\ t \notin printing}

(* One turn of the loop of spin_lock: cli, then yield() while the lock is  *)
(* somebody else's.                                                        *)
Spin(t) ==
  /\ halted = "no" /\ current = t
  /\ \E l \in Wanted(t) : ~Available(l, t)
  /\ intr' = [intr EXCEPT ![t] = FALSE]
  /\ spinIF' = [spinIF EXCEPT ![t] = IF t \in spinning THEN @ ELSE intr[t]]
  /\ spinning' = spinning \cup {t}
  /\ Switch(tstate, links)
  /\ UNCHANGED <<tstate, locks, mutex, mutexIF, pc, printing, arg, reg,
                 userVars>>

(* spin_lock(&threads_mgmt_lock) succeeds.                                 *)
LockMgmt(t) ==
  \E l \in DOMAIN AfterLock :
    /\ At(t, l)
    /\ Acquire(t, "threads_mgmt_lock")
    /\ Goto(t, AfterLock[l])
    /\ UNCHANGED <<cpuVars, tstate, mutex, mutexIF, printing, arg, reg,
                   userVars>>

UnlockMgmt(t) ==
  \E l \in DOMAIN AfterUnlock :
    /\ At(t, l)
    /\ Release(t, "threads_mgmt_lock")
    /\ Goto(t, AfterUnlock[l])
    /\ UNCHANGED <<current, links, tstate, mutex, flagVars, mutexIF,
                   printing, arg, reg, userVars>>

(* vprintf: printf_lock is taken, the text goes out, it is released.       *)
LogBegin(t) ==
  \E l \in DOMAIN AfterLog :
    /\ At(t, l) /\ t \notin printing
    /\ Acquire(t, "printf_lock")
    /\ printing' = printing \cup {t}
    /\ UNCHANGED <<cpuVars, tstate, mutex, mutexIF, pc, arg, reg, userVars>>

LogEnd(t) ==
  \E l \in DOMAIN AfterLog :
    /\ At(t, l) /\ t \in printing
    /\ Release(t, "printf_lock")
    /\ printing' = printing \ {t}
    /\ Goto(t, AfterLog[l])
    /\ UNCHANGED <<current, links, tstate, mutex, flagVars, mutexIF, arg,
                   reg, userVars>>

-----------------------------------------------------------------------------
(* Calls from the client.  Each starts one function of the interface.      *)

InUser(t) == At(t, "user")
Owns(t, u) == u \in allocated /\ parent[u] = t

(* yield(), and the body of idle_thread().                                 *)
CallYield(t) ==
  /\ InUser(t)
  /\ Switch(tstate, links)
  /\ UNCHANGED <<tstate, locks, mutex, flagVars, mutexIF, pc, printing, arg,
                 reg, userVars>>

(* printf() outside the kernel.                                            *)
CallPrintf(t) ==
  /\ InUser(t) /\ t # Idle
  /\ Goto(t, "printf_log")
  /\ UNCHANGED <<cpuVars, tstate, locks, mutex, flagVars, mutexIF, printing,
                 arg, reg, userVars>>

(* create_thread up to its lock: a free slot u is taken from the slab      *)
(* allocator and its first stack frame is laid out, with interrupts on.    *)
CallCreate(t, u) ==
  /\ InUser(t) /\ t # Idle
  /\ u \in Threads \ allocated
  /\ allocated' = allocated \cup {u}
  /\ parent' = [parent EXCEPT ![u] = t]
  /\ arg' = [arg EXCEPT ![t] = u]
  /\ intr' = [intr EXCEPT ![u] = TRUE]
  /\ pc' = [pc EXCEPT ![t] = "create_lock", ![u] = "user"]
  /\ spinning' = spinning \ {u}
  /\ printing' = printing \ {u}
  /\ held' = [held EXCEPT ![u] = 0]
  /\ UNCHANGED <<cpuVars, tstate, locks, mutex, spinIF, mutexIF, reg>>

CallSleep(t) ==
  /\ InUser(t) /\ t # Idle
  /\ Goto(t, "sleep_lock")
  /\ UNCHANGED <<cpuVars, tstate, locks, mutex, flagVars, mutexIF, printing,
                 arg, reg, userVars>>

CallExit(t) ==
  /\ InUser(t) /\ t # Idle /\ held[t] = 0
  /\ Goto(t, "exit_lock")
  /\ UNCHANGED <<cpuVars, tstate, locks, mutex, flagVars, mutexIF, printing,
                 arg, reg, userVars>>

(* wake and wait take a thread that the caller has created.                *)
CallOn(t, u, entry) ==
  /\ InUser(t) /\ Owns(t, u)
  /\ arg' = [arg EXCEPT ![t] = u]
  /\ Goto(t, entry)
  /\ UNCHANGED <<cpuVars, tstate, locks, mutex, flagVars, mutexIF, printing,
                 reg, userVars>>

CallWake(t, u) == CallOn(t, u, "wake_lock")
CallWait(t, u) == CallOn(t, u, "wait_loop")

(* mutex_lock and mutex_unlock save the flags and disable interrupts.      *)
CallMutexLock(t) ==
  /\ InUser(t) /\ t # Idle /\ held[t] < MaxDepth
  /\ mutexIF' = [mutexIF EXCEPT ![t] = intr[t]]
  /\ intr' = [intr EXCEPT ![t] = FALSE]
  /\ Goto(t, "mlock_try")
  /\ UNCHANGED <<cpuVars, tstate, locks, mutex, spinning, spinIF, printing,
                 arg, reg, userVars>>

\* Mutant: the waiters are looked at one unlock too early.
NotifiesEarly == mutex.locked = 2 /\ ~ListEmpty(links, MutexHead)

(* The mutex becomes free and a thread waits for it.                       *)
Notifies == mutex.locked = 1 /\ ~ListEmpty(links, MutexHead)

(* mutex_unlock up to the log: the assertions, the release, and the first  *)
(* thread of the queue, which stays queued until munlock_notify.           *)
CallMutexUnlock(t) ==
  /\ InUser(t) /\ held[t] > 0
  /\ held' = [held EXCEPT ![t] = @ - 1]
  /\ LET notify == Notifies
         first  == ListFirst(links, MutexHead)
     IN  IF \/ mutex.locked = 0 \/ mutex.owner # t
            \/ notify /\ first \notin Threads
         THEN /\ halted' = IF mutex.locked # 0 /\ mutex.owner = t THEN "wild" ELSE "die"
              /\ UNCHANGED <<mutex, arg, pc, intr, mutexIF>>
         ELSE /\ mutex' = [locked |-> mutex.locked - 1,
                           owner  |-> IF mutex.locked = 1 THEN NULL ELSE t]
              /\ arg' = [arg EXCEPT ![t] = IF notify THEN first ELSE @]
              /\ mutexIF' = [mutexIF EXCEPT ![t] = notify /\ intr[t]]
              /\ intr' = [intr EXCEPT ![t] = @ /\ ~notify]
              /\ Goto(t, IF notify THEN "munlock_log" ELSE "user")
              /\ UNCHANGED halted
  /\ UNCHANGED <<current, links, tstate, locks, spinning, spinIF, printing,
                 reg, allocated, parent>>

-----------------------------------------------------------------------------
(* The bodies of the functions.                                            *)

(* create_thread: t->rsp and t->state.                                     *)
CreateSet(t) ==
  /\ At(t, "create_set")
  /\ tstate' = [tstate EXCEPT ![arg[t]] = "RUNNING"]
  /\ Goto(t, "insert")
  /\ UNCHANGED <<cpuVars, locks, mutex, flagVars, mutexIF, printing, arg,
                 reg, userVars>>

(* list_add_tail(&t->list, &running_threads), store by store: prev is read *)
(* and the new node is linked, then prev->next and head->prev are set.     *)
Insert(t) ==
  /\ At(t, "insert")
  /\ LET p == links.prev[RunHead]
     IN  /\ reg' = [reg EXCEPT ![t] = <<p, RunHead>>]
         /\ links' = LinkNew(links, arg[t], p, RunHead)
  /\ Goto(t, "insert1")
  /\ UNCHANGED <<current, halted, tstate, locks, mutex, flagVars, mutexIF,
                 printing, arg, userVars>>

InsertNext(t) ==
  /\ At(t, "insert1")
  /\ links' = SetNext(links, reg[t][1], arg[t])
  /\ Goto(t, "insert2")
  /\ UNCHANGED <<current, halted, tstate, locks, mutex, flagVars, mutexIF,
                 printing, arg, reg, userVars>>

InsertPrev(t) ==
  /\ At(t, "insert2")
  /\ links' = SetPrev(links, reg[t][2], arg[t])
  /\ reg' = [reg EXCEPT ![t] = <<NULL, NULL>>]
  /\ Goto(t, "insert_unlock")
  /\ UNCHANGED <<current, halted, tstate, locks, mutex, flagVars, mutexIF,
                 printing, arg, userVars>>

(* wake: nothing happens unless the thread sleeps at this moment.          *)
WakeTest(t) ==
  /\ At(t, "wake_test")
  /\ IF tstate[arg[t]] = "SLEEPING"
     THEN tstate' = [tstate EXCEPT ![arg[t]] = "RUNNING"] /\ Goto(t, "wake_log")
     ELSE Goto(t, "insert_unlock") /\ UNCHANGED tstate
  /\ UNCHANGED <<cpuVars, locks, mutex, flagVars, mutexIF, printing, arg,
                 reg, userVars>>

(* list_del(&t->list), store by store.                                     *)
WakeDel(t) ==
  /\ At(t, "wake_del")
  /\ reg' = [reg EXCEPT ![t] = <<links.prev[arg[t]], links.next[arg[t]]>>]
  /\ Goto(t, "wake_del1")
  /\ UNCHANGED <<cpuVars, tstate, locks, mutex, flagVars, mutexIF, printing,
                 arg, userVars>>

WakeDelNext(t) ==
  /\ At(t, "wake_del1")
  /\ links' = SetNext(links, reg[t][1], reg[t][2])
  /\ Goto(t, "wake_del2")
  /\ UNCHANGED <<current, halted, tstate, locks, mutex, flagVars, mutexIF,
                 printing, arg, reg, userVars>>

WakeDelPrev(t) ==
  /\ At(t, "wake_del2")
  /\ links' = SetPrev(links, reg[t][2], reg[t][1])
  /\ reg' = [reg EXCEPT ![t] = <<NULL, NULL>>]
  /\ Goto(t, "insert")
  /\ UNCHANGED <<current, halted, tstate, locks, mutex, flagVars, mutexIF,
                 printing, arg, userVars>>

\* Mutant: yield() comes before spin_unlock.
SleepSetYield(t) ==
  /\ At(t, "sleep_set")
  /\ tstate' = [tstate EXCEPT ![t] = "SLEEPING"]
  /\ Switch(tstate', links)
  /\ Goto(t, "sleep_unlock")
  /\ UNCHANGED <<locks, mutex, flagVars, mutexIF, printing, arg, reg, userVars>>

SleepSet(t) ==
  /\ At(t, "sleep_set")
  /\ tstate' = [tstate EXCEPT ![t] = "SLEEPING"]
  /\ Goto(t, "sleep_unlock")
  /\ UNCHANGED <<cpuVars, locks, mutex, flagVars, mutexIF, printing, arg,
                 reg, userVars>>

SleepYield(t) ==
  /\ At(t, "sleep_yield")
  /\ Switch(tstate, links)
  /\ Goto(t, "user")
  /\ UNCHANGED <<tstate, locks, mutex, flagVars, mutexIF, printing, arg, reg,
                 userVars>>

\* Mutant: the state is not set.
ExitSetMissing(t) ==
  /\ At(t, "exit_set")
  /\ Goto(t, "exit_unlock")
  /\ UNCHANGED <<cpuVars, tstate, locks, mutex, flagVars, mutexIF, printing,
                 arg, reg, userVars>>

ExitSet(t) ==
  /\ At(t, "exit_set")
  /\ tstate' = [tstate EXCEPT ![t] = "TERMINATED"]
  /\ Goto(t, "exit_unlock")
  /\ UNCHANGED <<cpuVars, locks, mutex, flagVars, mutexIF, printing, arg,
                 reg, userVars>>

(* At "exit_returned" the thread would die("Returned from yield() ...").   *)
ExitYield(t) ==
  /\ At(t, "exit_yield")
  /\ Switch(tstate, links)
  /\ Goto(t, "exit_returned")
  /\ UNCHANGED <<tstate, locks, mutex, flagVars, mutexIF, printing, arg, reg,
                 userVars>>

WaitSpin(t) ==
  /\ At(t, "wait_loop")
  /\ tstate[arg[t]] # "TERMINATED"
  /\ Switch(tstate, links)
  /\ UNCHANGED <<tstate, locks, mutex, flagVars, mutexIF, pc, printing, arg,
                 reg, userVars>>

\* Mutant: wait() asks once instead of in a loop.
WaitDoneOnce(t) ==
  /\ At(t, "wait_loop")
  /\ Goto(t, "wait_log")
  /\ UNCHANGED <<cpuVars, tstate, locks, mutex, flagVars, mutexIF, printing,
                 arg, reg, userVars>>

WaitDone(t) ==
  /\ At(t, "wait_loop")
  /\ tstate[arg[t]] = "TERMINATED"
  /\ Goto(t, "wait_log")
  /\ UNCHANGED <<cpuVars, tstate, locks, mutex, flagVars, mutexIF, printing,
                 arg, reg, userVars>>

(* vfree of the stack and slab_allocator_free of the slot.                 *)
WaitFree(t) ==
  /\ At(t, "wait_free")
  /\ allocated' = allocated \ {arg[t]}
  /\ parent' = [parent EXCEPT ![arg[t]] = NULL]
  /\ Goto(t, "user")
  /\ UNCHANGED <<cpuVars, tstate, locks, mutex, flagVars, mutexIF, printing,
                 arg, reg, held>>

(* The end of mutex_lock and of mutex_unlock: set_rflags(rflags).          *)
LeaveMutex(t) ==
  /\ intr' = [intr EXCEPT ![t] = mutexIF[t]]
  /\ mutexIF' = [mutexIF EXCEPT ![t] = FALSE]
  /\ Goto(t, "user")

\* Mutant: mutex_lock does not wait.
MutexAvailableAlways(t) == TRUE

MutexAvailable(t) == mutex.locked = 0 \/ mutex.owner = t

\* Mutant: mutex_lock counts down.
LockedByDown(t) == [locked |-> mutex.locked - 1, owner |-> t]

LockedBy(t) == [locked |-> mutex.locked + 1, owner |-> t]

(* mutex_lock: the loop condition, before the first turn and after each.   *)
MutexTry(t) ==
  /\ At(t, "mlock_try")
  /\ IF ~MutexAvailable(t)
     THEN Goto(t, "mlock_log") /\ UNCHANGED <<mutex, held, intr, mutexIF>>
     ELSE IF links.next[MutexHead] = NULL
     THEN /\ mutex' = [locked |-> mutex.locked + 1, owner |-> mutex.owner]
          /\ Goto(t, "mlock_first_log")
          /\ UNCHANGED <<held, intr, mutexIF>>
     ELSE /\ mutex' = LockedBy(t)
          /\ held' = [held EXCEPT ![t] = @ + 1]
          /\ LeaveMutex(t)
  /\ UNCHANGED <<cpuVars, tstate, locks, spinning, spinIF, printing, arg,
                 reg, allocated, parent>>

(* The waiter queues itself and yields.  A queue that was never set up is  *)
(* all zeroes: list_add_tail stores through NULL, a page fault.            *)
MutexEnqueue(t) ==
  /\ At(t, "mlock_enqueue")
  /\ IF links.prev[MutexHead] = NULL
     THEN halted' = "fault" /\ UNCHANGED <<tstate, current, links>>
     ELSE /\ tstate' = [tstate EXCEPT ![t] = "WAITING"]
          /\ Switch(tstate', ListAddTail(links, t, MutexHead))
  /\ Goto(t, "mlock_try")
  /\ UNCHANGED <<locks, mutex, flagVars, mutexIF, printing, arg, reg,
                 userVars>>

(* The first mutex_lock ever: the queue is set up, then the owner.         *)
MutexInit(t) ==
  /\ At(t, "mlock_init")
  /\ links' = ListInit(links, MutexHead)
  /\ mutex' = [locked |-> mutex.locked, owner |-> t]
  /\ held' = [held EXCEPT ![t] = @ + 1]
  /\ LeaveMutex(t)
  /\ UNCHANGED <<current, halted, tstate, locks, spinning, spinIF, printing,
                 arg, reg, allocated, parent>>

\* Mutant: the notified thread is dequeued and not made runnable.
MutexNotifyLost(t) ==
  /\ At(t, "munlock_notify")
  /\ links' = ListDel(links, arg[t])
  /\ LeaveMutex(t)
  /\ UNCHANGED <<current, halted, tstate, locks, mutex, spinning, spinIF,
                 printing, arg, reg, userVars>>

(* mutex_unlock after its log: the thread picked before it is woken.       *)
MutexNotify(t) ==
  /\ At(t, "munlock_notify")
  /\ tstate' = [tstate EXCEPT ![arg[t]] = "RUNNING"]
  /\ links' = ListAddTail(ListDel(links, arg[t]), arg[t], RunHead)
  /\ LeaveMutex(t)
  /\ UNCHANGED <<current, halted, locks, mutex, spinning, spinIF, printing,
                 arg, reg, userVars>>

(* die() and fault_handler end in a loop of hlt with interrupts disabled.  *)
Stopped == halted # "no" \/ pc[current] = "exit_returned"
Hlt     == Stopped /\ UNCHANGED vars

-----------------------------------------------------------------------------
Call(t) ==
  \/ CallYield(t) \/ CallPrintf(t) \/ CallSleep(t) \/ CallExit(t)
  \/ CallMutexLock(t) \/ CallMutexUnlock(t)
  \/ \E u \in Threads : CallCreate(t, u) \/ CallWake(t, u) \/ CallWait(t, u)

Kernel(t) ==
  \/ Spin(t) \/ LockMgmt(t) \/ UnlockMgmt(t) \/ LogBegin(t) \/ LogEnd(t)
  \/ CreateSet(t) \/ Insert(t) \/ InsertNext(t) \/ InsertPrev(t)
  \/ WakeTest(t) \/ WakeDel(t) \/ WakeDelNext(t) \/ WakeDelPrev(t)
  \/ SleepSet(t) \/ SleepYield(t) \/ ExitSet(t) \/ ExitYield(t)
  \/ WaitSpin(t) \/ WaitDone(t) \/ WaitFree(t)
  \/ MutexTry(t) \/ MutexEnqueue(t) \/ MutexInit(t) \/ MutexNotify(t)

Next == Tick \/ Hlt \/ \E t \in Threads : Call(t) \/ Kernel(t)

Spec == Init /\ [][Next]_vars

-----------------------------------------------------------------------------
(* Properties.                                                             *)

Links   == [next : [Nodes -> Nodes \cup {NULL}],
            prev : [Nodes -> Nodes \cup {NULL}]]
Reasons == {"no", "die", "fault", "wild"}

TypeOK ==
  /\ current \in Threads
  /\ links \in Links
  /\ tstate \in [Threads -> States]
  /\ locks \in [Locks -> [locked : Nat, owner : Threads \cup {NULL}]]
  /\ mutex \in [locked : Nat, owner : Threads \cup {NULL}]
  /\ intr \in [Threads -> BOOLEAN]
  /\ spinning \subseteq Threads
  /\ spinIF \in [Threads -> BOOLEAN]
  /\ mutexIF \in [Threads -> BOOLEAN]
  /\ pc \in [Threads -> Labels]
  /\ printing \subseteq Threads
  /\ arg \in [Threads -> Threads]
  /\ reg \in [Threads -> (Nodes \cup {NULL}) \X (Nodes \cup {NULL})]
  /\ allocated \subseteq Threads
  /\ parent \in [Threads -> Threads \cup {NULL}]
  /\ held \in [Threads -> Nat]
  /\ halted \in Reasons

Bound   == Cardinality(Nodes) + 1
Queue(h) == Contents(links, h, Bound)
On(h)    == LET q == Queue(h) IN {q[k] : k \in DOMAIN q}

(* threads_mgmt_lock and printf_lock exclude: a thread between spin_lock   *)
(* and spin_unlock is the recorded owner, so no two threads are ever there *)
(* together, wherever the timer fires.                                     *)
SpinExclusion ==
  \A t \in Threads :
    /\ pc[t] \in MgmtLabels =>
         locks["threads_mgmt_lock"].locked > 0
         /\ locks["threads_mgmt_lock"].owner = t
    /\ t \in printing =>
         locks["printf_lock"].locked > 0 /\ locks["printf_lock"].owner = t

(* The converse: a lock with an owner has a thread in its section that     *)
(* will release it, and a free one is really free.                         *)
NoOrphanLock ==
  /\ \A t \in Threads :
       /\ locks["threads_mgmt_lock"].owner = t => pc[t] \in MgmtLabels
       /\ locks["printf_lock"].owner = t => t \in printing
  /\ \A l \in Locks :
       locks[l].locked = (IF locks[l].owner = NULL THEN 0 ELSE 1)

(* Interrupts are off for a thread exactly inside mutex_lock, mutex_unlock *)
(* and the waiting loop of spin_lock: no function returns to its caller    *)
(* with the flag changed, which would end preemption.                      *)
FlagRestored ==
  \A t \in Threads :
    intr[t] = (t \notin spinning /\ pc[t] \notin MutexLabels)

(* No list operation of create_thread or wake is half done.                *)
ListsAtRest ==
  \A t \in Threads : pc[t] \notin {"insert2", "wake_del2"}

Ready(h) == links.next[h] # NULL

(* The rings of running_threads, sleeping_threads and the mutex queue are  *)
(* closed in both directions between list operations.                      *)
ListsWellFormed ==
  ListsAtRest =>
    \A h \in Heads : Ready(h) => WellFormed(links, h, Bound)

(* Threads that wake or create_thread is moving to running_threads.        *)
Moving == {arg[t] : t \in {s \in Threads :
             pc[s] \in {"insert", "insert1", "insert2", "wake_log",
                       "wake_del", "wake_del1", "wake_del2"}}}

HomeOf(s) == CASE s = "RUNNING"  -> {RunHead}
               [] s = "SLEEPING" -> {SleepHead}
               [] s = "WAITING"  -> {MutexHead}
               [] OTHER          -> {}

(* No thread is lost and none is on two lists: a suspended thread is on    *)
(* exactly the list that belongs to its state, the current thread and      *)
(* freed slots are on none.                                                *)
Placement ==
  ListsAtRest =>
    LET on == [h \in {g \in Heads : Ready(g)} |-> On(h)]
    IN  /\ \A t \in Threads \ (Moving \cup {current}) :
             {h \in DOMAIN on : t \in on[h]} =
               IF t \in allocated THEN HomeOf(tstate[t]) ELSE {}
        /\ \A h \in DOMAIN on : current \notin on[h]

(* A thread that cannot be scheduled holds no spin lock: otherwise every   *)
(* other thread that needs the lock yields in spin_lock for ever.          *)
NoBlockedHolder ==
  \A t \in Threads \ {current}, l \in Locks :
    locks[l].owner = t => tstate[t] = "RUNNING"

(* thread_exit: die("Returned from yield() in thread_exit()") is never     *)
(* reached, and the stack that wait() freed is not the running one.        *)
ExitedNeverRuns ==
  pc[current] # "exit_returned" /\ current \in allocated

(* A thread between the return of mutex_lock and its mutex_unlock owns the *)
(* mutex, locked at least as often as the thread has locked it: at most    *)
(* one thread is there, although mutex_lock may yield before it takes the  *)
(* mutex and, the first time, before it records the owner.                 *)
MutexExclusion ==
  \A t \in Threads :
    held[t] > 0 => mutex.owner = t /\ mutex.locked >= held[t]

(* The assertions of spin_unlock and mutex_unlock never fail.              *)
NeverDies == halted # "die"

(* No lost wake-up: if the mutex is free while threads are queued, then    *)
(* some thread is on its way to it or is about to notify the first waiter. *)
NoLostWakeup ==
  /\ mutex.locked = 0
  /\ Ready(MutexHead)
  /\ ~ListEmpty(links, MutexHead)
  => \E t \in Threads :
       \/ pc[t] \in {"munlock_log", "munlock_notify"}
       \/ pc[t] = "mlock_try" /\ tstate[t] = "RUNNING"

(* The machine has not stopped in an assertion or a fault.                 *)
NeverStops == halted = "no"

(* The pointer lists implement the queues of Scheduler: threads get the   *)
(* processor and the mutex in the order they asked, none is lost.          *)
Sched == INSTANCE Scheduler
  WITH cpu <- current, ready <- Queue(RunHead), asleep <- Queue(SleepHead),
       waiting <- IF Ready(MutexHead) THEN Queue(MutexHead) ELSE <<>>

Implements == Sched!Spec
=============================================================================
