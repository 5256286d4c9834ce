--------------------------------- MODULE Boot ---------------------------------
(***************************************************************************)
(* The kernel from the boot loader to its running threads: bootstrap.S,    *)
(* then main() with the interrupts, init_paging and the first threads.     *)
(* `line' is the line of main.c that the main thread runs next.            *)
(***************************************************************************)
EXTENDS Bootstrap, Interrupts, Paging

CONSTANTS Thread1, Thread2    \* the two threads of lines 125 and 126

ASSUME BootConstants ==
  /\ {Thread1, Thread2} \subseteq Threads \ {Main, Idle} /\ Thread1 # Thread2
  /\ {0, 13, 14, PIT_INTERRUPT} \subseteq Vectors
  /\ PitLine \in Devices

VARIABLES
  line,
  writes,    \* how many writes of init_pic are done
  faulted    \* a thread has made a page fault

mainVars == <<line, writes, faulted>>
vars == <<bootVars, intVars, pagingVars, mainVars>>

Init == BInit /\ IInit /\ PInit /\ line = 94 /\ writes = 0 /\ faulted = FALSE

(* The main thread goes from line l to line m.                             *)
MainAt(l, m) == where = "main" /\ rip = "main" /\ line = l /\ line' = m

MainFlags ==
  /\ \/ MainAt(94, 99) /\ intr' = FALSE
     \/ MainAt(110, 113) /\ intr' = TRUE
  /\ UNCHANGED <<threadVars, rip, idt, handlers, picVars, taken, pagingVars, writes>>

MainHandlers ==
  /\ \/ MainAt(99, 102) /\ init_idt /\ UNCHANGED handlers
     \/ MainAt(102, 103) /\ set_int_handler(13, "fault_handler") /\ UNCHANGED idt
     \/ MainAt(103, 106) /\ set_int_handler(14, "fault_handler") /\ UNCHANGED idt
     \/ MainAt(120, 122) /\ set_int_handler(PIT_INTERRUPT, "timer") /\ UNCHANGED idt
  /\ UNCHANGED <<threadVars, rip, intr, picVars, taken, pagingVars, writes>>

MainPic ==
  /\ \/ /\ writes < Len(init_pic) /\ writes' = writes + 1
        /\ MainAt(106, IF writes' = Len(init_pic) THEN 110 ELSE 106)
        /\ out8(init_pic[writes'])
     \/ MainAt(122, 125) /\ pic_unmask(PIT_INTERRUPT) /\ UNCHANGED writes
  /\ UNCHANGED <<threadVars, rip, intr, idt, handlers, taken, pagingVars>>

(* Of init_memory() the page table; a failed assertion stops the machine.  *)
MainMemory ==
  /\ \/ MainAt(113, 113) /\ init_paging
        /\ rip' = IF died' \in {"no", "divide"} THEN rip ELSE "hlt"
     \/ MainAt(113, 116) /\ return_paging /\ UNCHANGED rip
  /\ UNCHANGED <<threadVars, intr, idt, handlers, picVars, taken, writes>>

(* The division by zero is an exception before the instruction is done,    *)
(* and a return from it comes back to the instruction.                     *)
DivideError ==
  /\ MainAt(113, 113) /\ died = "divide" /\ Interrupted(0)
  /\ UNCHANGED <<current, ready, regs, idt, handlers, picVars, pagingVars, writes>>

MainThreads ==
  /\ \/ MainAt(116, 120) /\ create_thread(Idle, "idle_thread") /\ rip' = rip
     \/ MainAt(125, 126) /\ create_thread(Thread1, "busy") /\ rip' = rip
     \/ MainAt(126, 127) /\ create_thread(Thread2, "busy") /\ rip' = "work"
  /\ UNCHANGED <<current, regs, intr, idt, handlers, picVars, taken, pagingVars, writes>>

main == MainFlags \/ MainHandlers \/ MainPic \/ MainMemory \/ DivideError \/ MainThreads

MainStep == main /\ UNCHANGED <<bootVars, faulted>>

(* A thread touches an address that is not mapped (once).                  *)
PageFault ==
  /\ rip = "work" /\ ~faulted
  /\ Interrupted(14) /\ faulted' = TRUE
  /\ UNCHANGED <<current, ready, regs, idt, handlers, picVars,
                 bootVars, pagingVars, line, writes>>

Interrupt(A) == where = "main" /\ A /\ UNCHANGED <<bootVars, pagingVars, mainVars>>

Bootstrapping == BNext /\ UNCHANGED <<intVars, pagingVars, mainVars>>
Processor     == Interrupt(Cpu)
Accepted      == Interrupt(Accept)
Tick          == Interrupt(Raise(PitLine))
OtherDevice   == \E k \in Devices \ {PitLine} : Interrupt(Raise(k))

(* fail and die() stop the processor with its interrupts disabled.         *)
Halted == (where = "halt" \/ rip = "hlt") /\ UNCHANGED vars

Next ==
  \/ Bootstrapping \/ MainStep \/ PageFault \/ Processor \/ Accepted
  \/ Tick \/ OtherDevice \/ Halted

(* The code that a tick can interrupt gets on all the same: the next tick  *)
(* is a thousandth of a second away.                                       *)
Interruptible == MainStep \/ Interrupt(thread_entry) \/ Interrupt(Begin)

Spec ==
  /\ Init /\ [][Next]_vars
  /\ WF_vars(Bootstrapping) /\ WF_vars(Processor) /\ SF_vars(Interruptible)
  /\ WF_vars(Accepted) /\ WF_vars(Tick)
-----------------------------------------------------------------------------
(* At the call of int_handler the struct on the stack tells the vector     *)
(* that was taken and the code that was interrupted, whether or not the    *)
(* processor pushed an error code; and an interrupt of a device finds its  *)
(* handler, although they are enabled long before the handler is set.      *)
Delivered ==
  rip = "int_handler" =>
    /\ Info("interrupt_id") = taken.vector /\ Info("cs") = "cs"
    /\ Info("rip") \in {"main", "work", "idle_thread", "thread_entry", "busy"}
    /\ taken.vector >= LPIC_MASTER_ICW => taken.vector \in DOMAIN handlers

(* What an interrupt and a call of yield leave on the stack.               *)
InterruptWords == Len(interrupt_info) + 2
YieldWords     == Len(YieldPushes) + 2

(* The code of a thread goes on after any number of interrupts and         *)
(* switches with its own registers, on an empty stack but for the return   *)
(* address, with the interrupts enabled; it is called with its own         *)
(* argument.  A stack never holds more than one interrupt and one yield.   *)
Context ==
  /\ rip \in {"main", "work"} => regs = Own(current)
  /\ rip = "busy" => regs["rdi"] = Arg(current)
  /\ rip = "work" => intr /\ Len(stacks[current]) <= 1
  /\ \A t \in Threads : Len(stacks[t]) <= 1 + InterruptWords + YieldWords

Supported == \A feature \in DOMAIN machine : machine[feature]

(* An exception without a handler, which is printed.                       *)
Unexpected(v) == rip = "int_handler" /\ taken.vector = v /\ v \notin DOMAIN handlers

(* How every start ends: on a machine without long mode with a message; on *)
(* memory that does not end with a page with the exception of the division *)
(* by zero, over and over (no assertion of paging.c fails); or with two    *)
(* threads and the main thread that all go on for ever, timer after timer, *)
(* unless one of them makes a page fault, which stops the machine.         *)
BootOutcome ==
  /\ ~Supported => <>[](where = "halt")
  /\ Supported /\ ~Aligned => []<>Unexpected(0)
  /\ Supported /\ Aligned =>
       \/ <>faulted /\ <>[](rip = "hlt")
       \/ \A t \in {Main, Thread1, Thread2} : []<>(rip = "work" /\ current = t)
=============================================================================
