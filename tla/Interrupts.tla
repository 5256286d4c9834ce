----------------------------- MODULE Interrupts -----------------------------
(***************************************************************************)
(* Interrupts from the controller to the handler and back (pic.c,          *)
(* interrupt.c, int_handler.S), with the switch of stacks in between       *)
(* (yield in threading_asm.S and the first frame of create_thread).  The   *)
(* registers and the words on the stacks are modelled; `rip' is the name   *)
(* of the code that runs next.                                             *)
(***************************************************************************)
EXTENDS Integers, SequencesExt

CONSTANTS
  Threads, Main, Idle,
  Vectors,            \* the first vectors of 0..INTS_COUNT - 1
  int_handlers_asm,   \* the addresses of the entry stubs
  HALF,               \* 2^16, half of a word of a descriptor
  LPIC_MASTER_ICW, LPIC_SLAVE_ICW,
  Devices             \* lines of the master that something may raise

PIT_INTERRUPT == LPIC_MASTER_ICW + 0
PitLine       == 0
Lines         == 0..7

ASSUME InterruptConstants ==
  /\ Main \in Threads /\ Idle \in Threads /\ Main # Idle
  /\ HALF \in Nat \ {0}
  /\ int_handlers_asm \in [Vectors -> 1..(HALF * HALF * HALF * HALF - 1)]
  /\ IsInjective(int_handlers_asm)
  /\ {LPIC_MASTER_ICW, LPIC_SLAVE_ICW} \subseteq Nat
  /\ LPIC_MASTER_ICW >= 32    \* the vectors below are exceptions
  /\ LPIC_MASTER_ICW + 8 <= LPIC_SLAVE_ICW
  /\ Devices \subseteq Lines

VARIABLES
  current, ready,   \* current_thread, running_threads
  stacks,           \* the words on the stack of each thread, the top last
  regs,             \* the registers of the processor but rsp
  rip,
  intr,             \* the interrupt flag
  idt,              \* the descriptors that lidt has loaded, by vector
  handlers,         \* the handlers that are not NULL, by vector
  pic,              \* the controllers: [next, base, mask]
  irr, isr,         \* lines of the master that are raised, and in service
  taken             \* the last interrupt or exception: [vector, entry]

threadVars == <<current, ready, stacks, regs>>
picVars    == <<pic, irr, isr>>
intVars    == <<threadVars, rip, intr, idt, handlers, picVars, taken>>

Registers == {"rax", "rbx", "rcx", "rdx", "rdi", "rsi", "rbp", "r8", "r9",
              "r10", "r11", "r12", "r13", "r14", "r15"}
Scratch   == {"rax", "rcx", "rdx", "rdi", "rsi", "r8", "r9", "r10", "r11"}

(* What the code of a thread has in its registers.                         *)
Own(t)  == [r \in Registers |-> <<t, r>>]
Arg(t)  == <<t, "arg">>

(* A stack from which the registers `names' are popped, the first one from *)
(* the top.                                                                *)
FromTop(s, k)    == s[Len(s) + 1 - k]
Popped(s, names) ==
  [r \in Registers |-> IF Contains(names, r)
                       THEN FromTop(s, CHOOSE k \in DOMAIN names : names[k] = r)
                       ELSE regs[r]]
Dropped(s, k) == SubSeq(s, 1, Len(s) - k)

-----------------------------------------------------------------------------
(* interrupt.c: the descriptors.                                           *)

InterruptGate == 14    \* clears the interrupt flag, a trap gate (15) does not

\* Mutant: the gates leave the interrupts enabled.
descriptorTrap(offset) ==
  [low |-> offset % HALF, mid |-> (offset \div HALF) % HALF,
   high |-> offset \div (HALF * HALF), present |-> TRUE, type |-> 15]

descriptor(offset) ==
  [low |-> offset % HALF, mid |-> (offset \div HALF) % HALF,
   high |-> offset \div (HALF * HALF), present |-> TRUE, type |-> InterruptGate]

init_idt == idt' = [v \in Vectors |-> descriptor(int_handlers_asm[v])]

set_int_handler(id, handler) ==
  handlers' = [v \in DOMAIN handlers \cup {id} |->
                 IF v = id THEN handler ELSE handlers[v]]

(* The processor puts the descriptor together again.                       *)
Target(gate) == gate.low + HALF * (gate.mid + HALF * gate.high)

(* Vectors for which the processor pushes an error code.                   *)
ErrorCodes == {8, 10, 11, 12, 13, 14, 17}

(* The processor accepts vector v.                                         *)
Interrupted(v) ==
  /\ taken' = [vector |-> v, entry |-> Target(idt[v])]
  /\ stacks' = [stacks EXCEPT ![current] =
       @ \o <<"ss", Len(@), intr, "cs", rip>>
         \o (IF v \in ErrorCodes THEN <<"error">> ELSE <<>>)]
  /\ rip' = "entry"
  /\ intr' = (intr /\ idt[v].type # InterruptGate)

-----------------------------------------------------------------------------
(* pic.c.  A write is [chip, reg, value]; masks are sets of lines.         *)

Write(chip, reg, value) == [chip |-> chip, reg |-> reg, value |-> value]

InitChip(chip, icw) ==
  <<Write(chip, "command", "ICW1"), Write(chip, "data", icw),
    Write(chip, "data", "cascade"), Write(chip, "data", "ICW4")>>

\* Mutant: the lines are not masked.
init_picUnmasked ==
  InitChip("master", LPIC_MASTER_ICW) \o InitChip("slave", LPIC_SLAVE_ICW)

init_pic ==
  InitChip("master", LPIC_MASTER_ICW) \o InitChip("slave", LPIC_SLAVE_ICW)
  \o <<Write("master", "data", Lines), Write("slave", "data", Lines)>>

ChipOf(id) ==
  CASE id \in LPIC_MASTER_ICW..(LPIC_MASTER_ICW + 7) -> "master"
    [] id \in LPIC_SLAVE_ICW..(LPIC_SLAVE_ICW + 7)   -> "slave"
    [] OTHER                                         -> "none"
LineOf(id) == id - (IF ChipOf(id) = "master" THEN LPIC_MASTER_ICW ELSE LPIC_SLAVE_ICW)

(* The controllers.  ICW1 starts the four words and resets the chip; later *)
(* data are its mask; 0x20 ends the service of the first line.             *)
Written(p, w) ==
  CASE w.reg = "command" /\ w.value = "ICW1" -> [p EXCEPT !.next = 2, !.mask = {}]
    [] w.reg = "data" /\ p.next = 0 -> [p EXCEPT !.mask = w.value]
    [] w.reg = "data" /\ p.next = 2 -> [p EXCEPT !.next = 3, !.base = w.value]
    [] w.reg = "data" /\ p.next > 2 -> [p EXCEPT !.next = (@ + 1) % 5]
    [] OTHER -> p

Lowest(ls) == {k \in ls : \A j \in ls : k <= j}

out8(w) ==
  /\ pic' = [pic EXCEPT ![w.chip] = Written(@, w)]
  /\ LET command == IF w.chip = "master" /\ w.reg = "command" THEN w.value ELSE ""
     IN  /\ irr' = IF command = "ICW1" THEN {} ELSE irr
         /\ isr' = CASE command = "ICW1" -> {}
                     [] command = "EOI"  -> isr \ Lowest(isr)
                     [] OTHER            -> isr

pic_unmask(id) ==
  LET chip == ChipOf(id)
  IN  IF chip = "none" THEN UNCHANGED picVars
      ELSE out8(Write(chip, "data", pic[chip].mask \ {LineOf(id)}))

(* The acknowledgement of a line of the slave goes to both chips; of them  *)
(* the state of the slave is not modelled.                                 *)
send_eoi(id) ==
  IF ChipOf(id) = "none" THEN UNCHANGED picVars
  ELSE out8(Write("master", "command", "EOI"))

(* Lines that the master offers to the processor.                          *)
Pending ==
  IF pic["master"].next # 0 THEN {}
  ELSE {k \in irr \ pic["master"].mask : \A s \in isr : k < s}

Raise(k) ==
  /\ k \in Devices \ irr
  /\ irr' = irr \cup {k}
  /\ UNCHANGED <<threadVars, rip, intr, idt, handlers, pic, isr, taken>>

Accept ==
  /\ intr
  /\ \E k \in Lowest(Pending) :
       /\ Interrupted(pic["master"].base + k)
       /\ irr' = irr \ {k} /\ isr' = isr \cup {k}
  /\ UNCHANGED <<current, ready, regs, idt, handlers, pic>>

-----------------------------------------------------------------------------
(* int_handler.S.                                                          *)

CommonPushes == <<"rax", "rbx", "rcx", "rdx", "rdi", "rsi", "rbp", "r8", "r9",
                  "r10", "r11", "r12", "r13", "r14", "r15">>
CommonPops   == <<"r15", "r14", "r13", "r12", "r11", "r10", "r9", "r8", "rbp",
                  "rsi", "rdi", "rdx", "rcx", "rbx", "rax">>

StubPushes(id) == IF id \in ErrorCodes THEN <<id>> ELSE <<0, id>>

(* The stub and int_handler_common up to the call of int_handler.          *)
Stub ==
  \E id \in Vectors :
    /\ rip = "entry" /\ taken.entry = int_handlers_asm[id]
    /\ LET s == stacks[current] \o StubPushes(id)
       IN  stacks' = [stacks EXCEPT ![current] = s \o <<Len(s)>>
             \o [k \in DOMAIN CommonPushes |-> regs[CommonPushes[k]]]]
    /\ rip' = "int_handler"
    /\ UNCHANGED <<current, ready, regs, intr, idt, handlers, picVars, taken>>

(* struct interrupt_info, on the top of the stack.                         *)
interrupt_info ==
  <<"r15", "r14", "r13", "r12", "r11", "r10", "r9", "r8", "rbp", "rsi", "rdi",
    "rdx", "rcx", "rbx", "rax", "rsp", "interrupt_id", "error_code", "rip",
    "cs", "rflags">>
Info(field) ==
  FromTop(stacks[current],
          CHOOSE k \in DOMAIN interrupt_info : interrupt_info[k] = field)

(* int_handler calls the handler, or prints that there is none.  The code  *)
(* of C uses the scratch registers.                                        *)
int_handler ==
  /\ rip = "int_handler"
  /\ rip' = IF Info("interrupt_id") \in DOMAIN handlers
            THEN handlers[Info("interrupt_id")] ELSE "pop"
  /\ regs' = [r \in Registers |-> IF r \in Scratch THEN <<"C", r>> ELSE regs[r]]
  /\ UNCHANGED <<current, ready, stacks, intr, idt, handlers, picVars, taken>>

(* The pops, the two words in front of the frame, and iretq.               *)
Iretq ==
  /\ rip = "pop"
  /\ LET s     == stacks[current]
         frame == Dropped(SubSeq(s, 1, FromTop(s, Len(CommonPops) + 1)), 2)
     IN  /\ regs' = Popped(s, CommonPops)
         /\ rip' = FromTop(frame, 1)
         /\ intr' = FromTop(frame, 3)
         /\ stacks' = [stacks EXCEPT ![current] = SubSeq(s, 1, FromTop(frame, 4))]
  /\ UNCHANGED <<current, ready, idt, handlers, picVars, taken>>

-----------------------------------------------------------------------------
(* threading_asm.S and threading.c.                                        *)

YieldPushes == <<"rbx", "rbp", "r12", "r13", "r14", "r15">>
YieldPops   == <<"r15", "r14", "r13", "r12", "rbp", "rbx">>

(* The first words of a new stack, as yield will pop them.                 *)
FirstFrame(t, entry) == <<"thread_entry", TRUE, Arg(t), entry, 0, 0, 0, 0>>

create_thread(t, entry) ==
  /\ stacks' = [stacks EXCEPT ![t] = FirstFrame(t, entry)]
  /\ ready' = Append(ready, t)

(* yield, called from the code that goes on at `back'; the next thread     *)
(* goes on where its own stack says.                                       *)
yield(back) ==
  LET saved == [stacks EXCEPT ![current] = @ \o <<back, intr>>
                  \o [k \in DOMAIN YieldPushes |-> regs[YieldPushes[k]]]]
      queue == Append(ready, current)
      s     == saved[Head(queue)]
      n     == Len(YieldPops)
  IN  /\ current' = Head(queue)
      /\ ready' = Tail(queue)
      /\ regs' = Popped(s, YieldPops)
      /\ intr' = FromTop(s, n + 1)
      /\ rip' = FromTop(s, n + 2)
      /\ stacks' = [saved EXCEPT ![Head(queue)] = Dropped(@, n + 2)]

thread_entry ==
  /\ rip = "thread_entry"
  /\ regs' = [regs EXCEPT !["rdi"] = regs["rbx"]]
  /\ stacks' = [stacks EXCEPT ![current] = Append(@, "exit_unclean")]
  /\ rip' = regs["rbp"]
  /\ UNCHANGED <<current, ready, intr, idt, handlers, picVars, taken>>

idle_thread ==
  /\ rip = "idle_thread"
  /\ yield("idle_thread")
  /\ UNCHANGED <<idt, handlers, picVars, taken>>

-----------------------------------------------------------------------------
(* main.c: the two handlers.                                               *)

\* Mutant: the acknowledgement comes after the switch.
timerLate ==
  /\ \/ rip = "timer" /\ yield("timer2") /\ UNCHANGED picVars
     \/ rip = "timer2" /\ send_eoi(Info("interrupt_id")) /\ rip' = "pop"
        /\ UNCHANGED <<threadVars, intr>>
  /\ UNCHANGED <<idt, handlers, taken>>

timer ==
  /\ \/ rip = "timer" /\ send_eoi(Info("interrupt_id")) /\ rip' = "timer_yield"
        /\ UNCHANGED <<threadVars, intr>>
     \/ rip = "timer_yield" /\ yield("pop") /\ UNCHANGED picVars
  /\ UNCHANGED <<idt, handlers, taken>>

(* It prints the registers and stops the machine.                          *)
fault_handler ==
  /\ rip = "fault_handler"
  /\ intr' = FALSE /\ rip' = "hlt"
  /\ UNCHANGED <<threadVars, idt, handlers, picVars, taken>>

(* The threads of the test program begin.                                  *)
Begin ==
  /\ rip = "busy"
  /\ regs' = Own(current) /\ rip' = "work"
  /\ UNCHANGED <<current, ready, stacks, intr, idt, handlers, picVars, taken>>

Cpu == Stub \/ int_handler \/ Iretq \/ thread_entry \/ idle_thread \/ timer
       \/ fault_handler \/ Begin

IInit ==
  /\ current = Main /\ ready = <<>>
  /\ stacks = [t \in Threads |-> <<>>]
  /\ regs = Own(Main)
  /\ rip = "main" /\ intr = FALSE
  /\ idt = <<>> /\ handlers = <<>>
  /\ pic = [chip \in {"master", "slave"} |->
              [next |-> 0, base |-> IF chip = "master" THEN 8 ELSE 112, mask |-> {}]]
  /\ irr = {} /\ isr = {}
  /\ taken = [vector |-> 0, entry |-> 0]
=============================================================================
