# Formal models of os-course-term4

The repository is a small x86-64 kernel for one processor: it boots, sets up
interrupts, physical memory and page tables, and runs preemptive threads with
spin locks, sleep/wake, join and mutexes; `main.c` is its test program. This
directory models it from the first instruction of the boot code to the end of
the test program: the boot and its page tables, the way of an interrupt to its
handler and back, the threads and the lists they stand on, the test program as
their client, formatted output down to the serial port, the set-up of memory and
the two memory allocators. TLC checks small instances; TLAPS proves the safety
properties of lists, threads, test program and allocators, and the four
refinements, for every instance.

## Inventory of the system

| Component | Source | State | Operations | Interacts through |
|---|---|---|---|---|
| Intrusive lists | `list.c` | `next`/`prev` of every `list_head` | init, add, add_tail, del, splice, empty, first, size | embedded in `struct thread`, `mutex_t` |
| Threads, scheduler | `threading.c`, `threading_asm.S` | `current_thread`, `running_threads`, `sleeping_threads`, per thread state and stack, `threads_mgmt_lock` | create_thread, yield, sleep, wake, wait, thread_exit | lists, allocators, log |
| Spin locks | `threading.c` 136-156 | `locked`, `owner`, saved flags | spin_lock, spin_unlock | yield in the waiting loop |
| Mutexes | `threading.c` 158-194 | `locked`, `owner`, `queue` | mutex_lock, mutex_unlock | lists, `running_threads`, log |
| Timer | `main.c` 10-13, `pit.c`, `pic.c` | interrupt flag | timer(): acknowledge, yield | any statement with interrupts enabled |
| Test program | `main.c` | thread handles, stop flags | main and six thread functions | all of the above |
| Console | `printf.c`, `printf_impl.c`, `serial.c` | `printf_lock`, `serial_lock`, the transmitter | printf, snprintf, puts, putchar | called by everything, also in the middle of the mutex functions |
| Buddy allocator | `buddy.c` | free lists per level, level of each block handed out | init, alloc, free, block start | memory map of `init_memory` |
| Slab allocator | `slab.c` | list of partial slabs, count of full ones, chain of free objects per slab | init, alloc, free, deinit | buddy |
| Memory wrappers | `memory.c` | two spin locks, the memory map | init_memory, valloc, vfree, ... | buddy, spin locks |
| Paging | `paging.c` | page tables | map_pages, init_paging | buddy |
| Interrupt entry | `interrupt.c`, `int_handler.S`, `pic.c` | IDT, handler table, masks, requests in service, words on the stacks | set handlers, dispatch, mask, acknowledge | timer, fault handler, yield |
| Boot, text screen | `bootstrap.S`, `videomem.S` | six pages of tables, video memory, row and column | checks of the machine, tables, long mode; puts, clrscr | hands over to `main` |

What is hard in this code is preemption. A timer interrupt switches threads at
any statement that runs with interrupts enabled. `spin_lock` disables
interrupts only for its own loop and gives them back when it returns, so the
sections it protects are preemptible, while the scheduler itself, called from
the timer, takes no lock. And `log()` takes a lock of its own: a call of it in
the middle of `mutex_lock` or `mutex_unlock` is a point where other threads
run although interrupts are disabled.

What makes each component correct:

* Lists: a ring is closed in both directions whatever stale pointers an entry
  brings with it; the calls act as on sequences.
* Scheduler: no thread is lost or in two places; a suspended thread is on the
  list of its state; a thread that cannot be scheduled holds no lock; the stack
  that `wait` frees is not in use; runnable threads run.
* Spin locks and mutexes: exclusion, no orphaned lock, flags given back, no
  lost wake-up.
* Test program: it comes to its end; joins are truthful; the sections of
  `thread_mutex` do not overlap.
* Buddy: every usable page is in exactly one block; free halves are merged; a
  request fails only when it must; an address leads back to its block.
* Memory set-up: the allocator gets exactly the memory that is left, and all of
  it is mapped.
* Paging: the tables that are loaded map each address as `memory.h` assumes.
* Interrupts: each arrives with its vector at its handler, from any exception
  with or without an error code; a thread goes on with its registers and flag;
  the controller is acknowledged before the processor goes to another thread.
* Console: lines stay whole; numbers and strings are what the directive means
  and never pass the end of a buffer; no circle of locks.
* Boot: the code survives its own switch to paging; it goes to `main` or says
  why not; the screen shows the last lines that were printed.
* Slab: objects lie apart, aligned, in their slabs; no object twice, none lost; slabs are on the list, counted or gone
  according to their number of objects.

## Modules

| Module | Models | Checked against |
|---|---|---|
| `Lists` | list memory and each function of `list.c`; also each single store, for callers that can be interrupted | |
| `ListLib` | any sequence of legal calls of `list.h` | `Deques` (sequences) |
| `Threading` | `threading.c`, `yield`, `timer` and the lock of `vprintf`; EXTENDS `Lists` | `Scheduler` (first-come first-served queues) |
| `MainProgram` | `main.c` as the client; EXTENDS `Threading` | |
| `Buddy` | `buddy.c` | `PageAlloc` (disjoint blocks of usable pages) |
| `Memory` | `init_memory` and the wrappers of `memory.c`; EXTENDS `Buddy` | |
| `Slab` | `slab.c`, `calculate_slab` included | `ObjectPool` |
| `Paging` | `paging.c`: `init_paging` and `map_pages` with its call stack | the translation `memory.h` assumes |
| `Format` | `printf_impl.c` as functions, and the end of the buffer in `vsnprintf` | numbers that are read back |
| `Console` | `printf.c`, `serial.c`, and the lock order of `memory.c`, `slab.c`, `threading.c`; EXTENDS `Format` | |
| `VideoMem` | `videomem.S` | an endless screen |
| `Bootstrap` | `bootstrap.S`; EXTENDS `VideoMem` | the mapping `kernel.ld` and `memory.h` assume |
| `Interrupts` | `interrupt.c`, `int_handler.S`, `pic.c`, `yield` and the first frame of a thread, `timer`, `fault_handler` | |
| `Boot` | `main.c` 93-126; EXTENDS `Bootstrap`, `Interrupts`, `Paging` | |

| Module | Proves |
|---|---|
| `RingProofs` | lemmas on rings, on lists that end, on walks along both, and on loops |
| `ListLibProofs` | theorems about `ListLib` |
| `ThreadingProofs` | theorems about `Threading`: first for every timer, then outside the windows |
| `MainProofs` | theorems about `MainProgram` |
| `BuddyProofs` | theorems about `Buddy` and `Memory` |
| `SlabProofs` | theorems about `Slab` |
| `ConsoleProofs` | theorems about `Console` |
| `BootProofs` | theorems about `Boot`, with `Interrupts`, `Bootstrap` and `Paging` in it |

`MCListLib`, `MCThreading`, `MCMainProgram`, `MCMemory`, `MCSlab`, `MCConsole`
and `MCBoot` hold the instances for TLC. Definitions named after another one with a suffix and
commented `Mutant:` are deliberately wrong variants of it, the plausible bugs
that each property is tested with; no specification uses them.

### Threading: state and actions

One variable per piece of kernel state: `current`, `links` (all `list_head`
objects), `tstate`, `locks`, `mutex`. The interrupt flag is `intr[t]`, the flag
of the processor while `t` runs and the flag saved by `yield` while it does
not; the `rflags` locals of the lock functions are `spinIF` and `mutexIF`.
`pc[t]` is the next kernel statement of `t`, `"user"` outside the kernel;
`printing` are the threads inside `vprintf`; `spinning` those in the loop of
`spin_lock`; `arg` and `reg` are the argument and the neighbours a list
operation has read. `allocated`, `parent` and `held` say what the client may
do, and `halted` why the machine has stopped.

Only `current` takes steps. A call of the interface starts with a `Call...`
action, and each statement between two points where the timer can fire is an
action. With interrupts disabled a list operation is one step; in
`create_thread` and `wake`, which run with interrupts enabled, each store that
others can see is its own step (`Insert`, `InsertNext`, `InsertPrev`,
`WakeDel...`). `Tick` is the timer: `Switch`, at any statement with the flag
set. `Spin` is one turn of the loop of `spin_lock`.

What is abstracted: stacks and registers (a thread continues at its `pc`), the
text that is printed, and the memory a thread is made of. In `create_thread`
and `wait` the calls of the allocators are one step, before the lock is taken
or after the last use: their own spin locks are of the kind proved here, and
the allocators are modelled separately. `die()` is a stop; the message that it
prints first is not modelled.

The client is any program that follows the rules of `main.c`: the creator of a
thread wakes it and waits for it, once; unlocks match locks; no thread exits
with the mutex held; the idle thread only yields. `MainProgram` replaces this
arbitrary client by `main.c` itself, with a step for each call together with
the tests and assignments around it.

### Boot and Interrupts: state and actions

`where` is the next part of `bootstrap.S`; when it is `"main"`, `line` is the
line of `main.c` that the main thread runs next and `rip` names the code of the
processor. Each statement of `main` that changes state of its own is an action
(`MainFlags`, `MainHandlers`, `MainPic` with one step for each word written to
a controller, `MainMemory` with one step for each step of `map_pages`,
`MainThreads`). An interrupt goes from the line of a device (`Raise`) through
the controller (`Pending`, `Accept`), the descriptor (`Target`), the stub of
the vector (`Stub`), `int_handler`, the handler and `Iretq`; the registers and
the words on the stacks are those of the code, in its order, so that a frame
that is a word too short is seen where it is used. `yield` pushes and pops on
the same stacks. The code of a thread is `"work"`, without steps of its own,
except that one page fault may happen. In this composition threads are only
created and switched: what they do to each other is in `Threading`.

### Console: state and actions

A function is the sequence of its steps (`lock`, `out`, `poll`, `enter`, ...),
built the way the functions call each other: `create_thread` is that of
`slab_allocator_alloc`, then `valloc`, then `threads_mgmt_lock` around a
`vprintf`. `todo` holds the steps that each thread still has to make, and the
timer may come between any two unless the thread is in the loop of `spin_lock`.
Text is computed by `Format` when a call begins, as no other thread can change
its arguments. The bodies of the allocators are `enter` and `leave`: `Buddy`
and `Slab` model them as one step each, and `SectionsApart` is the reason why
they may.

### Buddy: state and actions

`a` is `struct buddy_allocator`; a call is one action, as its caller holds a
lock (`SectionsApart`). The loops over operations, pages, pairs and levels and
the recursion of `try_merge_rec` are recursive functions, one argument per turn
(`turn[k]`), over operators that are the bodies (`mark_one`, `try_merge_one`,
`MergeUp`), in the order of the code.

### The timer assumption: Windows

The constant `TickFree` is a set of statements before which the timer is
assumed not to fire. With `TickFree = {}` (`Anywhere`) the model is the kernel
as it is, and there the kernel is not correct: see Findings. The other runs set
it to `Windows`, the statements at which a tick does damage that nothing
repairs:

* `sleep_unlock`, `exit_unlock`: a thread whose new state is already set still
  holds `threads_mgmt_lock`;
* `insert1`, `insert2`: between the stores of `list_add_tail` in
  `create_thread` and `wake`;
* `printing`: inside `vprintf`. A preempted printer holds `printf_lock`, and
  then the `log()` in the mutex functions yields in their middle.

So a passing run says: outside these windows, which are a few instructions or
one call of `log` long, the kernel does what it should, wherever else the timer
fires. That a window is needed can be seen by taking it out of `TickFree`:
`exit_window` and `mutex_first_lock` are such runs, and Findings names the
outcome for the others.
`main_program`, which has no mutex, opens `printing` and `insert1`
(`NoMutexWindows`); `threading_anywhere` assumes nothing. `Windows` is defined
in `Threading`. A theorem of `ThreadingProofs` holds for every `TickFree`, or
for every one that contains `Windows` where the table of theorems says so; those of
`MainProofs` hold for every `TickFree`. In `Console` the timer fires anywhere
that interrupts are enabled, and no other component meets it in its model.

## Runs

| Run | Bounds | What it shows |
|---|---|---|
| `threading_mutex` | 3 threads: main, idle, one slot that is reused; lock nesting 2 | no orphaned lock, lists, mutex, no lost wake-up, refinement of `Scheduler`, outside the windows |
| `threading_anywhere` | 3 threads, nesting 2, mutex never locked before, no timer assumption | what holds always: types, both exclusions, flags, assertions |
| `main_program` | parts 1 to 3 of `main()`, 4 threads in slots that are used again; `thread_2` prints once (100 in the code), chain of depth 1 (20), 1 wake-up (10); the timer also in `vprintf` | joins are truthful, runnable threads run, main finishes or the last wake-up met the sleeper on its way to sleep |
| `main_mutex` | part 4, 2 threads, 2 turns each (5 and 10), mutex never locked before | every turn comes, main finishes |
| `listlib` | 3 entries, 2 heads | list calls act on sequences |
| `memory` | 8 pages of 3 units, 4 levels (19), the first page is the low memory, 4 operations (64), the boot data of `MCMemory` | what `init_memory` refuses; that the allocator then holds exactly what is left; the whole allocator from there, refinement of `PageAlloc` |
| `slab` | 3 slabs of 2 or 3 objects; sizes and alignments of `MCSlab`, in words, so that header and nodes are as in the code; at least 2 objects to a slab (10) | layout, chains, list of slabs, refinement of `ObjectPool` |
| `console` | 3 threads with one or two calls; integers of 2, 3, 4 and 5 bits (8, 16, 32 and 64), every value of a `long` with every directive, modifier, flag and kind of width; buffers of 0 to 9 bytes | lines stay whole, the allocators exclude, calls return, strings are right |
| `boot` | screen of 3 rows and 4 columns, tables of 8 entries in `bootstrap.S` (512) and 3 in `paging.c`, pages of 3 units, memory that ends at 29 places; all 16 kinds of machine; 48 vectors (256), stub addresses of four digits to the base 16; 4 threads; PIT and one masked device; at most one page fault | screen, both sets of tables, delivery of interrupts, registers, how each start ends |
| `sleeper_lost_wake` | part 3 only, the machine outside the windows | Finding 1 |
| `exit_window` | part 1 only, the timer may also fire in `exit_unlock` | Finding 2 |
| `mutex_first_lock` | part 4, 3 threads, the timer may also fire in `vprintf` | Finding 3 |

Why the bounds are enough. Two threads and the idle thread give every kind of
conflict on a spin lock and on the mutex; the order of a queue with two waiters
is that of the lists, which `ListLib` has with three entries. A slot that is freed and created again is enough
for what reuse can bring back. Entries of a list interact with two neighbours:
three entries on two lists cover first, middle and last. Four levels of the
buddy tree have a level with neighbours above and below on both sides; in units
of three per page a limit can lie at, one before and one after a page boundary.
Two or three objects per slab distinguish empty, partial, nearly full and full;
three slabs give the partial list a first, a middle and a last. Sizes and alignments
are below, between and above the size of a page. With three entries and memory
that ends in its second entry of the first table, every level of the page table
has entries before, in and after the mapped range; the ends are those within
the first large pages and around the next limit of each size of table. Messages
are shorter than a row of the screen, as long, and longer, and one machine
prints more rows than there are. Three threads under the timer (main and two)
are switched by each other's ticks, by the idle thread and into a first frame.
Integers of a few bits have all kinds of values: the most negative one, those
that a shorter type cuts, and one and several digits in each base. Three threads
that print have every pair of `puts` and `printf` on the port at a time, and
three that allocate have each pair of locks in each nesting of the code.

Two larger instances pass and are not kept as runs for their size:
`threading_mutex` with a second slot (5.3 million states), and three workers on
the mutex with the timer only outside the kernel (`TickFree <- InKernel`,
`Workers = 3`, `Iterations = 1`: `NoLostWakeup` and `Implements`).

`CHECK_DEADLOCK` is on everywhere. A stopped machine (`hlt` in `die`) is an
explicit stuttering step of `Threading`, `Memory`, `Slab` and `Boot`.

### Fairness

`MSpec` assumes, of the machine and not of the scheduler:

* each thread that gets the processor again and again executes its statements
  (strong fairness of its kernel steps): the timer period is about a
  millisecond, thousands of statements;
* a thread that finds its lock free again and again at some time gets past it
  (strong fairness of `Proceeds`). `spin_lock` itself promises nothing here:
  with a timer in lockstep with the owner of a lock, a spinning thread starves;
* the timer keeps firing, and again and again finds some thread in its own code
  (`TimerInWork`): each thread of `main.c` spends nearly all its time in
  `work()`.

`Boot` assumes weak fairness of the boot code, of the processor inside an
interrupt, of the acceptance of a pending interrupt and of the PIT, whose line
is raised again and again; and strong fairness of the code that a tick can
interrupt (`main`, the entry of a thread), as the next tick is a millisecond
away. `Console` assumes that a thread which gets the processor again and again
makes its steps, a lock that is free again and again included (as `MSpec`), and
that the transmitter gets empty; the timer is not assumed to fire. The
allocators have no liveness property.

Which thread runs next is not assumed but follows from the queue. The
properties under fairness are `MainFinishes`, `MainOutcome` and
`EveryThreadRuns`, `CallsReturn` of `Console` and `BootOutcome` of `Boot`.

## Findings

Three are shown by a run that expects a violation; the trace is the history.

1. `sleeper_lost_wake`: `main.c` 147-149. The last `wake` finds the sleeper
   between its test of `sleeper_stop` and `sleep()` and does nothing; `wait`
   never returns. No window is needed.
2. `exit_window`: `threading.c` 98-99 (and 107-108). A tick before
   `spin_unlock` leaves `threads_mgmt_lock` with a thread that never runs again.
3. `mutex_first_lock`: `threading.c` 169-172. The first lock publishes `locked`,
   logs, and only then initialises the queue; a contender stores through NULL.

Two more windows have no run of their own. Each shows as a violation of
`MainFinishes` when it is taken out of `Windows`:

* `insert2`, `threading.c` 73 (and 118): a tick between two stores of
  `list_add_tail` works on a half linked ring, and a thread falls off
  `running_threads` (instance of `exit_window` with `insert2` opened).
* `printing`, `threading.c` 163: the log between the test of the mutex and the
  entry into its queue yields while another thread prints; the unlock falls in
  between, finds the queue empty and notifies nobody (instance of `main_mutex`
  with `TickFree <- ButPrinting`, `QueueReady = TRUE` and `Iterations = 1`).

Known behaviour without a run that expects a violation, as no comment says
otherwise: if the last segment of the memory map does not end on a page,
`map_pages` goes below 4 KB until `base_step` is 0, and line 30 divides by it.
No handler is set for vector 0: `int_handler` prints a line, returns to the
division, and this repeats for ever (`BootOutcome` states this).

## Theorems

A run shows a property on an instance, a theorem for all values of the
constants that the named assumptions of its module admit. Every theorem is of
the form: the specification implies that the property always holds, or that it
implements an abstract one. Each rests on an inductive invariant, named below.

| Property of a run | Theorem | Also assumed |
|---|---|---|
| `Rings`, `ImplementsDeques` | `RingsClosed`, `ListsAreDeques` | |
| `TypeOK`, `SpinExclusion`, `MutexExclusion`, `NeverDies`, `FlagRestored` | `TypeCorrect`, `SpinLocksExclude`, `MutexExcludes`, `AssertionsHold`, `FlagsRestored` | |
| `ListsWellFormed`, `Placement`, `Implements` | `ListsStayWellFormed`, `ThreadsArePlaced`, `ListsScheduleInOrder` | `Windows \subseteq TickFree` |
| `NoOrphanLock`, `NoBlockedHolder`, `ExitedNeverRuns`, `NoLostWakeup` | `LocksHaveHolders`, `NoHolderIsBlocked`, `ExitedThreadsStay`, `WakeupsAreNotLost` | `Windows \subseteq TickFree` |
| `Joined` | `WaitsAreTrue` | |
| `Partition`, `FreeLists`, `Serves`, `BlockStarts`, `NoAssertion`, `ImplementsPageAlloc`, `BootMap` | `PartitionHolds`, `FreeListsHolds`, `ServesHolds`, `BlockStartsHolds`, `NoAssertionHolds`, `MemoryImplements`, `BootMapHolds` | |
| `Lines`, `SectionsApart`, and of `Strings` the part `Buffers` | `LinesWhole`, `AllocatorsApart`, `BuffersFit` | |
| `Delivered`, `Context`, `BootTables`, `BootScreen`, `Mapped` | `InterruptsDelivered`, `ContextsRestored`, `KernelMapped`, `ScreenShown`, `MemoryMapped` | |
| `ObjectsFit`, `Chains`, `Partials`, `NoAssertion`, `ImplementsPool` | `ObjectsAreApart`, `ChainsAreRight`, `PartialsAreRight`, `AssertionsHold`, `PoolIsImplemented` | |

`LayoutIsRight`, `TheMachineRuns`, `MainIsClient`, `MainKeepsKernel`,
`UnlocksAsserted` and `NoDeadlock` state what no run lists as a property of its
own.

### Rings, lines and loops (`RingProofs`)

`Ring(ls, h, s)` says that the entries of the list with head `h` are `s`, by
the pointers of each entry to its two neighbours. It does not mention how a
list is walked; `RingIsRead` shows that a walk as `list_size` makes it meets
`s` and nothing else, in either direction. There is one lemma for each
operation of `list.c`, at any place of the ring, and a frame lemma for lists
that an operation does not touch. `LineIs` is the same for a list that ends in
NULL, the kind that `buddy.c` and `slab.c` keep.

A walk is a recursive function, and what it returns needs induction. The
library's induction theorems take an operator, which the provers cannot
instantiate; `SetInduction` is the principle for a set of numbers instead,
derived from the least element of a finite set. With it, `Recursion` and
`Turns` show that a recursive function whose turns keep an
invariant exists and keeps it: each loop of `buddy.c` is then one lemma about
one turn.

### Lists (`ListLibProofs`)

Assumed: `Separate` and `Finite`, that the entries and the heads are different
objects, finitely many. The invariant (`RingsAre`): each head has a ring, and
no entry is in two. From it follow `Rings`, and the refinement of `Deques` with
one case per call; `list_splice` is the one where two rings become one.

### Threads, whatever the timer does (`ThreadingProofs`)

Assumed: `ConstantsOK`, that there are finitely many threads and that main,
idle, the heads and NULL are different objects.

* `TypeCorrect`: one lemma per list store, `Switch` and lock operation, then
  one case per action.
* `SpinLocksExclude`: `SpinExclusion` is inductive together with `TypeOK`.
  Steps that touch neither lock nor section follow from `SpinFrame`; the heart
  is that `Available` for one thread means that no other is in the section.
* `MutexExcludes`: `MutexExclusion` is not inductive, because the first
  `mutex_lock` raises `locked` and logs before it records itself as the owner.
  `MutexInv` adds that between the two no other thread is in or on its way in,
  and that a free mutex has no owner.
* `AssertionsHold`: `NeverDies`, from the two invariants above: an unlock is
  only ever made by the owner.
* `FlagsRestored`: `FlagRestored` needs what the functions have saved:
  `FlagInv` ties `spinIF` and `mutexIF` to where the thread stands.

### Threads outside the windows (`ThreadingProofs`)

The invariant `Good` is that of the part above together with `WInv`, whose
parts need each other and are proved together:

* `ListInv`: the three lists. A list that is half linked is described by the
  ring that the outstanding stores will make (`RunRing`, `SleepRing`), and each
  thread is on exactly the list that its state and the operation in progress
  say (`Placed`).
* `Undisturbed`: a thread in a window or on its way through the mutex functions
  has the processor, and so has a thread that prints. This is the part that rests on the assumption about the timer
  and is false without it.
* `NoOrphanLock`: a lock that is taken has a thread in its section, so that a
  thread that finds its lock free is alone.
* `Owned`: a thread wakes and waits for its own children only, which keeps two
  threads from working on the same slot; and the idle thread is always ready.
* `StateInv`: the state field against the place a thread stands at. Only the
  thread that runs is between setting its state and yielding.
* `WaitersInv`: the queue of the mutex is set up whenever it is taken and the
  first lock is over; the thread that `mutex_unlock` has read is the first of
  the queue; and while threads queue for a free mutex somebody is on the way.

Each conjunct of `Good` has one lemma per kind of step: turns (all that
yields), lock steps, plain steps, list stores, steps that set a state, steps of
the mutex. From the invariant:

* `ListsStayWellFormed`, `ThreadsArePlaced`, `LocksHaveHolders`,
  `NoHolderIsBlocked`, `WakeupsAreNotLost`, and the action property
  `ExitedThreadsStay`.
* `TheMachineRuns`: no assertion fails, no queue is stored through while it is
  NULL, and `yield` always finds a thread: the machine never halts.
* `ListsScheduleInOrder`: the refinement of `Scheduler`, with the queues that
  are read from the lists. A yield is `Rotate`, `Sleep` or `Exit` by the state
  the thread has set; `MutexEnqueue` is `Block`; `MutexNotify` is `Notify`. Of
  the operations made of several stores it is one store that counts, the one
  that changes the ring as it is walked forwards: `InsertNext` is `Add` and
  `WakeDelNext` is `Rouse`. All other steps stutter.

### Test program (`MainProofs`)

* `MainIsClient`: each step of `main.c` with the kernel is a step of
  `Threading` or leaves the kernel alone. So the rules that `Threading` sets
  its clients are those that `main.c` follows.
* `MainKeepsKernel`: therefore the exclusion of locks, the flags and the
  assertions hold in the whole program.
* `WaitsAreTrue`: `Joined`. The invariant says who may stand where: only the
  boot thread in `main()`, which nobody waits for and whose slot is never given
  back (`MainStays`, `Labelled`); that the handles of `main()` are stored once
  the threads exist (`Stored`); and that whoever is in `thread_1` or `thread_2`
  is the thread of that handle until `main()` has waited for it
  (`FirstIsKnown`, `SecondIsKnown`), and has not terminated (`RunnersLive`).
  The slots are used again by later threads, which is why the last is needed: a
  new thread keeps the `TERMINATED` of its slot until `create_thread` sets the
  state. No assumption on the timer.

### Buddy allocator and memory map (`BuddyProofs`)

Assumed: `BuddyConstants` and `MemoryConstants`, that levels, page size and low
memory are positive, and that the kernel's own segment is not empty.

`MemInv` says of an allocator that has been set up that it is `Sound`:

* on every level a line through exactly the free blocks of the level, and no
  pointers in the others (`ListsOK`);
* a page remembers a level only as the first page of a block handed out
  (`AllocOK`), and such a block is not free;
* the free blocks and those handed out tile the usable pages (`Tiling`);
* no block has both halves free (`Pairs`);
* it has not died of an assertion.

The block numbers are those of a heap: a page lies in one block of each level
(`Anc`), and of two that share a page one is above the other. Where the
argument is not a matter of one step:

* `buddy_free`: a freed block can make one pair at a time; `try_merge_rec`
  removes it and may make one in the parent, up to a level without one. The
  same argument for `buddy_init`, whose loop over all pairs of a level leaves
  no pair on the levels it has been over.
* `buddy_alloc`: each split keeps a tiling in which the block in hand is
  neither free nor given away.
* `ServesHolds`: a request fails only when no aligned run of that size is all
  free. Were there one, no free block would contain it, so those in it are
  smaller; beside a smallest one the pages of the other half of its parent are
  free too, in a block that is no smaller and no larger, which makes a pair.
* `BlockStartsHolds`: the search from the page upwards finds the block handed
  out that contains it first, for any other block that starts on its way would
  share the page with it.
* `BootMapHolds`: the operations collected by `init_memory` are followed one
  after the other (`Upto`): what is free after them is what is available and
  not reserved by a later one. By the order in which `init_memory` collects
  them these are the pages of `BootMap`, and all lie below `phys_mem_end`
  (`MapEndIs`).
* `MemoryImplements`: refinement of `PageAlloc`, whose owned sets are the pages
  of the blocks handed out: `buddy_alloc` that finds a block is `Alloc`,
  `buddy_free` is `Free`, everything else stutters.

### Slab allocator (`SlabProofs`)

Assumed: `SlabConstants`, that sizes are positive and NULL is no block, and
`PowersOfTwo`, that of the page size and an alignment one divides the other, as
`slab.c` 40 asserts powers of two.

* `LayoutIsRight`: the assertion at `slab.c` 66. The comment above it proves it
  in words, counting objects from the end of the slab; the lemma
  `LayoutFormula` is that argument: the space left in front of the objects is a
  multiple of the alignment, so that rounding the header up stays within it.
* `ObjectsAreApart`: `ObjectsFit`. The inductive invariant `IInv` adds to the
  layout (`Sized`, `LaidOut`) that each object that is out is a place of the
  row (`Places`), which needs that the chain of every slab stays within it
  (`Shapes`).
* `ChainsAreRight`, `PartialsAreRight`, `AssertionsHold`: `Kept` says that the
  chain of each slab is a line through exactly its objects that are not out
  (`ChainOf`), that the slabs with a free object are the line of `partials` and
  the others are counted (`ListOf`, `CountOf`), that an object lies in a slab
  and no slab is without one (`Owned`, `Needed`). A slab that gets full leaves
  the list from any place of it; one that was full comes to its front.
* `PoolIsImplemented`: refinement of `ObjectPool`, whose count is the number of
  objects that are out: the sum of `allocated` over the slabs is the
  cardinality of `live`.

### Console (`ConsoleProofs`)

Assumed: `FormatConstants`, and `ConsoleConstants`, that each call is of one of
the five functions that are modelled, that what it prints is a sequence of characters, and that
NULL is neither a thread nor a character. Threads, calls and texts are
arbitrary.

A state says of a thread only which steps it still has to make, so that what
has to be invariant is about sequences of steps. A `Point` says how often a
thread holds each lock, which allocators it is inside of, what each of its
calls has still to print, and whether it has yet to wait for the transmitter;
`Points` are those where an allocator is used under its lock and a text that is
partly printed is guarded by the lock of its function. `Step` says what each
kind of step does to a point, and `Runs` that a sequence of steps leads from
one point to another. Each function has one lemma: `putchar` leads from a point
to the one with a character less to print, `puts`, `vprintf`, the wrappers and
`create_thread` and `wait` are composed as the code composes them, and all
calls of a thread lead to the point where nothing is held and nothing left.

The invariant `ConsoleInv`: the steps that a thread has still to make lead from
some point to that end, and this point agrees with the locks it owns
(`Holds`), with the allocators it is in, with its characters on the line and
in the transmitter (`Prints`, `Sends`); and of the line, that between two
characters of one call there are only characters it `Admits` (`Whole`), as is
promised to each call that is not over (`Open`). Who prints next holds
`serial_lock`, and by `Owner` no other thread does. From the invariant:

* `AllocatorsApart`: who is in an allocator owns the lock of it.
* `LinesWhole`: at the end of its calls, all that a thread had to print has
  been sent, and `Whole` is the first part of `Lines`.
* `UnlocksAsserted`: the step `unlock` leads from a point that holds the lock.
* `NoDeadlock`: all functions take the locks in the order of `Rank`. The holder
  of a lock that somebody waits for has steps to make, and waits, if at all,
  for a lock of higher rank; the one that waits for the highest has a holder
  that does not wait. `CallsReturn` needs this, and fairness besides.

`BuffersFit` follows the loop of `printf_impl.c` twice, once with the buffer of
`vsnprintf` and once without an end. `Fills` relates the two after each turn:
both are in the same state and there is still room, or the first has left the
loop with exactly the first `size - 1` characters of what the second has
printed. `AddcharFills` is one character, `AddcharsFills` all that a directive
prints, `TurnFills` a turn, `LoopFills` the loop; `NextIs` says that a directive
ends inside the format. That the format and its arguments fit together
(`Suits`: what a directive prints of its argument is a text) is assumed of each
call, as C does; TLC evaluates it for all calls of the run. `Returned` says of
each result which call it belongs to.

### Boot and interrupts (`BootProofs`)

Assumed: `InterruptConstants` (the entry stubs lie at different addresses that
fit into the four parts of a descriptor, exceptions have the vectors below 32
and the controllers are programmed to others), `BootConstants`,
`VideoConstants`, `BootstrapConstants` (a table has an even number of
entries, at least 6; the messages have no carriage return, as those of
`bootstrap.S`), and `PagingConstants` (memory is not empty; the step of
`map_pages` below a page, `PAGE \div ENTRIES_PER_TABLE`, which is 8, has no rest,
and the one below that is 0). Threads, devices, vectors, addresses and stack words are arbitrary.

The invariant `BootInv` says of every state what is on every stack:

* `Queue`, `Stacked`: the threads that wait in the ready queue are different
  ones; what each has on its stack is what `yield` finds there (`Suspended`):
  its own frame in the switch, on top of a whole interrupt (`Framed`), of its
  first call (`thread_entry`), or of the loop of the idle thread. A thread that
  is not created has no stack.
* `Running`: where the current thread is in an interrupt, which words are
  already pushed (`Entered`, `Framed`), and whose registers they are (`Saved`).
  In its own code it has its registers and at most a return address (`AtCode`).
* `Enabled`, `Program`, `Controller`: how far `main` has come decides what the
  flag, the gates, the handlers and the words of the master controller are, so
  that an interrupt is accepted only when its handler is set.

`Delivered` and `Context` follow; neither is inductive, as both say something
of a moment (the call of `int_handler`, the return to the code of a thread) and
nothing of the words on the stack that lead there. `TargetIs` shows that a
descriptor, whose address is cut in four, leads to the address it was built
from; `FrameReturns` that the pops of the common handler take back what its
pushes left, each register its own, for both kinds of stubs.

`TablesInv` counts the turns of the loop that fills the four tables of large
pages (`Filled`: the first `eax` entries are there, and the tables above them
are linked) and knows what is switched on at each part of the code.
`PagesFound` is the walk of the processor through such tables: three divisions
of the page number by the size of a table. `KernelMapped` is for tables of any
size; TLC has tables of 8 entries only.

`ScreenShown` compares the screen with an endless one. `CursorIs` and
`CursorMoves` say where that one has its cursor after each character, and that
it only goes forward; `RowShared`, that two lines share a row only when they are
`ROWS` apart. `CharacterShows` is one turn of the loop of `videomem_puts`: the
place of the character was empty, and a new line takes the row of the oldest
one and leaves no rest of it. `PutsShows` is the loop, with `Recursion` and
`Turns` for both recursive functions, the loop itself and the cursor.
`ScreenInv` is stronger than `BootScreen` by the place of the cursor, and by
what is to be cleared first.

`PagesInvariant` is about `init_paging` between any two entries that
`map_pages` looks at. Its parts are in `Kept`:

* `Tree`: no table is shared by two parts of linear memory. Some assignment of
  a level and a number to the tables, which the code does not have, says which
  part a table stands for: the one linked from entry `i` of the table with
  number `n` has number `n * ENTRIES_PER_TABLE + i`.
* `Calls`: each active call works on the table of its level, between bounds
  clipped to that table (`Clips`), and the next call was made for the entry it
  stands at (`Leads`); the innermost may be one that has just been entered.
* `Correct`: an address whose walk through the tables (`Route`) ends at an
  entry is mapped as it is meant, or else it is not among those done so far:
  those of the first range, and of the second up to where the innermost call
  stands (`DoneBy`).

What is done is read off the innermost call alone; that a call which returns
leaves no gap for its caller is `Leads`. When memory does not end at a page,
`map_pages` is called for part of a page and goes to a fifth and a sixth level, where the
step is 0: the invariant follows it that far, as nothing is loaded after that.
`Walked` and `WalkEnds` show that the walk of the processor is such a route.
`DividedTwice` and the lemmas before it say how an address is split into its
four indices. Without `Tree`, `Correct` is not inductive: an entry written for
one address could be the entry of another.

### Only model-checked

* The properties under fairness (`MainFinishes`, `MainOutcome`,
  `EveryThreadRuns`, `CallsReturn`, `BootOutcome`): liveness and ENABLED are
  outside the prover's reach. `BootOutcome` also says how a start ends.
* `Numbers`, the other part of `Strings`: it reads back what the recursive
  functions of `Format` compute from the digits of a number. Its bounds are
  powers of the base, and the provers know nothing of powers, not even that one
  of natural numbers is a natural number; `FormatConstants` says this of the
  few that `BuffersFit` needs.

## Not modelled

* Constant port writes: `init_serial` and the period in `init_pit`; the cursor
  in `videomem_clrscr`. Segment descriptors are taken as flat.
* `pic_mask`, which has no caller, and the requests of the slave controller,
  whose lines all stay masked; spurious interrupts.
* Flags of page table entries: an entry is absent, a table or memory.
* In `Format`, directives cut off by the end of the format (the loop then reads
  behind it; no format of the kernel is like that), and `%s` of NULL. Widths
  stay below the range of `int`.
* In `Console`, the debug output of the allocators, which is compiled out.
* The slab self-test at the end of `init_memory`: it is one of the sequences of
  calls that `Slab` has.
* Integer widths outside `Format`: sizes and addresses stay far below 2^64 in
  all that is modelled, and the numbers of objects and operations below 2^31.
* In `buddy.c`, `start` is 0, as its only caller has it, and the debug printer
  is left out; `BUDDIES_CNT` is twice what is used, the unused half is omitted.
* `exit_unclean`: the clients call `thread_exit`. `strlen`, `memset`: pure.

## Plan

Done: all components have a model, with the exceptions above; four abstract
specifications (`Scheduler`, `PageAlloc`, `ObjectPool`, `Deques`), each proved
to be implemented; every safety property of the lists, the threads, the test
program, the allocators, the locks of the console, the buffers of `snprintf`,
and of the interrupts is a theorem, and so are the screen of the boot code, the
mapping it leaves to the kernel, and the one that the kernel makes for itself.

Proof to add: safety of the abstract specifications. `Scheduler` has no thread
in two places, and in `PageAlloc` owned blocks are disjoint and usable.
