------------------------------ MODULE Console ------------------------------
(***************************************************************************)
(* The code between the threads and the shared resources of the kernel:    *)
(* printf and puts in front of the serial port, the wrappers of memory.c   *)
(* and slab.c in front of the allocators, and who calls them in which      *)
(* order.  Each function is the sequence of its steps; threads execute     *)
(* theirs in turn, preempted anywhere, and spin locks are reentrant.       *)
(***************************************************************************)
EXTENDS Format

CONSTANTS
  Threads,
  NULL,
  Jobs      \* what the threads call: some functions from Threads to sequences

Locks == {"printf_lock", "serial_lock", "threads_mgmt_lock",
          "slab_lock",          \* lock of the slab allocator threads_alloc
          "valloc_lock", "phys_alloc_lock"}

VARIABLES
  job,        \* the calls of each thread
  todo,       \* the steps it still has to make
  queue,      \* the running thread, then the others in their order
  locks,      \* [locked, owner]
  spinning,   \* threads in the loop of spin_lock, with interrupts disabled
  uart,       \* the transmitter: the character it sends, or NULL
  line,       \* what has been sent
  using,      \* threads inside the allocators
  returned    \* the calls of snprintf that returned, with their results

vars == <<job, todo, queue, locks, spinning, uart, line, using, returned>>

-----------------------------------------------------------------------------
(* The functions.  id is the call that a character belongs to.             *)

Locked(l, body) == <<<<"lock", l>>>> \o body \o <<<<"unlock", l>>>>

\* Mutant: the transmitter is not waited for.
putcharUnchecked(id, c) == Locked("serial_lock", <<<<"out", id, c>>>>)

putchar(id, c) == Locked("serial_lock", <<<<"out", id, c>>, <<"poll">>>>)

putchars(id, text) == FlattenSeq([k \in DOMAIN text |-> putchar(id, text[k])])

Newline    == "newline"
puts(id, s) == Locked("serial_lock", putchars(id, Append(s, Newline)))

Text(f, args)        == Formatted(f, args, Unlimited).text
vprintf(id, f, args) == Locked("printf_lock", putchars(id, Text(f, args)))

\* Mutant: the wrapper of the buddy allocator takes no lock.
buddy_callUnlocked == <<<<"enter", "buddy">>, <<"leave", "buddy">>>>

(* alloc_big_phys_aligned, free_big_phys_aligned and                       *)
(* get_big_phys_aligned_block_start.                                       *)
buddy_call ==
  Locked("phys_alloc_lock", <<<<"enter", "buddy">>, <<"leave", "buddy">>>>)

valloc == Locked("valloc_lock", buddy_call)

\* Mutant: vfree takes the two locks in the other order.
vfreeReversed ==
  Locked("phys_alloc_lock", Locked("valloc_lock",
    <<<<"enter", "buddy">>, <<"leave", "buddy">>>>))

vfree == Locked("valloc_lock", buddy_call)

(* A slab is made for the first object and given back with the last one.   *)
slab_allocator_alloc(first) ==
  Locked("slab_lock", <<<<"enter", "slab">>>>
                      \o (IF first THEN buddy_call ELSE <<>>)
                      \o <<<<"leave", "slab">>>>)

slab_allocator_free(last) ==
  Locked("slab_lock", <<<<"enter", "slab">>>> \o buddy_call
                      \o (IF last THEN buddy_call ELSE <<>>)
                      \o <<<<"leave", "slab">>>>)

create_thread(id, first, log) ==
  slab_allocator_alloc(first) \o valloc
  \o Locked("threads_mgmt_lock", vprintf(id, log, <<>>))

(* The end of wait(), after its loop.                                      *)
wait(id, last, log) ==
  vprintf(id, log, <<>>) \o vfree \o slab_allocator_free(last)

(* It works on memory of its caller only, so that its result is all that   *)
(* others see of it.                                                       *)
snprintf(id, call) ==
  <<<<"return", <<id, vsnprintf(call.size, call.format, call.args)>>>>>>

Steps(id, call) ==
  CASE call.fn = "puts"          -> puts(id, call.format)
    [] call.fn = "printf"        -> vprintf(id, call.format, call.args)
    [] call.fn = "snprintf"      -> snprintf(id, call)
    [] call.fn = "create_thread" -> create_thread(id, call.whole, call.format)
    [] call.fn = "wait"          -> wait(id, call.whole, call.format)

(* What a call puts on the line, in full.                                  *)
TextOf(call) ==
  CASE call.fn = "puts"     -> Append(call.format, Newline)
    [] call.fn = "printf"   -> Text(call.format, call.args)
    [] call.fn = "snprintf" -> <<>>
    [] OTHER                -> Text(call.format, <<>>)

(* A format gets the arguments that it asks for, so that what is printed   *)
(* is a text; NULL is no character.  A size is a size_t.                   *)
Callable(call) ==
  /\ call.fn \in {"puts", "printf", "snprintf", "create_thread", "wait"}
  /\ TextOf(call) \in Seq(ToSet(TextOf(call)))
  /\ NULL \notin (Threads \X Nat) \X ToSet(TextOf(call))
  /\ call.fn = "snprintf" => /\ call.size \in Nat /\ call.format \in Seq(ToSet(call.format))
                             /\ Suits(call.format, call.args)

ASSUME ConsoleConstants ==
  /\ NULL \notin Threads
  /\ \A j \in Jobs : \A t \in Threads :
       j[t] \in Seq(ToSet(j[t])) /\ \A k \in DOMAIN j[t] : Callable(j[t][k])

Init ==
  /\ job \in Jobs
  /\ todo = [t \in Threads |-> FlattenSeq(
               [k \in DOMAIN job[t] |-> Steps(<<t, k>>, job[t][k])])]
  /\ queue = SetToSeq(Threads)
  /\ locks = [l \in Locks |-> [locked |-> 0, owner |-> NULL]]
  /\ spinning = {}
  /\ uart = NULL
  /\ line = <<>>
  /\ using = [r \in {"buddy", "slab"} |-> {}]
  /\ returned = [t \in Threads |-> <<>>]

-----------------------------------------------------------------------------
(* The steps.                                                              *)

Does(t, step) == Head(queue) = t /\ todo[t] # <<>> /\ Head(todo[t])[1] = step
Operand(t)  == Head(todo[t])[2]
Done(t)     == todo' = [todo EXCEPT ![t] = Tail(@)]
Rotate      == queue' = Append(Tail(queue), Head(queue))

Available(t) == LET k == locks[Operand(t)] IN k.locked = 0 \/ k.owner = t

Lock(t) ==
  /\ Does(t, "lock") /\ Available(t)
  /\ locks' = [locks EXCEPT ![Operand(t)] =
                 [locked |-> @.locked + 1, owner |-> t]]
  /\ spinning' = spinning \ {t}
  /\ Done(t)
  /\ UNCHANGED <<job, queue, uart, line, using, returned>>

Spin(t) ==
  /\ Does(t, "lock") /\ ~Available(t)
  /\ spinning' = spinning \cup {t}
  /\ Rotate
  /\ UNCHANGED <<job, todo, locks, uart, line, using, returned>>

(* The assertions of spin_unlock are its guard.                            *)
Unlock(t) ==
  /\ Does(t, "unlock")
  /\ LET k == locks[Operand(t)]
     IN  /\ k.locked > 0 /\ k.owner = t
         /\ locks' = [locks EXCEPT ![Operand(t)] =
                        [locked |-> k.locked - 1,
                         owner  |-> IF k.locked = 1 THEN NULL ELSE t]]
  /\ Done(t)
  /\ UNCHANGED <<job, queue, spinning, uart, line, using, returned>>

(* The data port: a character that is still being sent is lost.            *)
Out(t) ==
  /\ Does(t, "out")
  /\ uart' = <<Operand(t), Head(todo[t])[3]>>
  /\ Done(t)
  /\ UNCHANGED <<job, queue, locks, spinning, line, using, returned>>

(* The status port says that the transmitter is empty.                     *)
Poll(t) ==
  /\ Does(t, "poll") /\ uart = NULL
  /\ Done(t)
  /\ UNCHANGED <<job, queue, locks, spinning, uart, line, using, returned>>

Transmit ==
  /\ uart # NULL
  /\ line' = Append(line, uart)
  /\ uart' = NULL
  /\ UNCHANGED <<job, todo, queue, locks, spinning, using, returned>>

EnterAllocator(t) ==
  /\ Does(t, "enter")
  /\ using' = [using EXCEPT ![Operand(t)] = @ \cup {t}]
  /\ Done(t)
  /\ UNCHANGED <<job, queue, locks, spinning, uart, line, returned>>

LeaveAllocator(t) ==
  /\ Does(t, "leave")
  /\ using' = [using EXCEPT ![Operand(t)] = @ \ {t}]
  /\ Done(t)
  /\ UNCHANGED <<job, queue, locks, spinning, uart, line, returned>>

Return(t) ==
  /\ Does(t, "return")
  /\ returned' = [returned EXCEPT ![t] = Append(@, Operand(t))]
  /\ Done(t)
  /\ UNCHANGED <<job, queue, locks, spinning, uart, line, using>>

(* A thread without further calls yields.                                  *)
Yield(t) ==
  /\ Head(queue) = t /\ todo[t] = <<>>
  /\ Rotate
  /\ UNCHANGED <<job, todo, locks, spinning, uart, line, using, returned>>

Tick ==
  /\ Head(queue) \notin spinning
  /\ Rotate
  /\ UNCHANGED <<job, todo, locks, spinning, uart, line, using, returned>>

Advance(t) ==
  \/ Lock(t) \/ Unlock(t) \/ Out(t) \/ Poll(t) \/ EnterAllocator(t)
  \/ LeaveAllocator(t) \/ Return(t)

Next == Tick \/ Transmit \/ \E t \in Threads : Advance(t) \/ Spin(t) \/ Yield(t)

(* A thread that gets the processor again and again executes its steps,    *)
(* the transmitter empties itself, loops that yield do so.                 *)
Fairness ==
  /\ WF_vars(Transmit)
  /\ \A t \in Threads : SF_vars(Advance(t)) /\ WF_vars(Spin(t) \/ Yield(t))

Spec == Init /\ [][Next]_vars /\ Fairness

-----------------------------------------------------------------------------
(* Properties.                                                             *)

CallOf(k)  == line[k][1]
FnOf(id)   == job[id[1]][id[2]].fn
Calls      == UNION {{<<t, k>> : k \in DOMAIN job[t]} : t \in Threads}

Output(id) == TextOf(job[id[1]][id[2]])

(* The characters of a call among those that were sent.                    *)
CharsOf(id, sent) ==
  LET chars[k \in 0..Len(sent)] ==
        IF k = 0 THEN <<>>
        ELSE IF sent[k][1] = id THEN Append(chars[k-1], sent[k][2]) ELSE chars[k-1]
  IN  chars[Len(sent)]

Sent(id) == CharsOf(id, line)

(* Lines stay whole: characters of a puts are never interrupted, those of  *)
(* a printf only by a whole puts, and no character of a call that has      *)
(* returned is missing.                                                    *)
Lines ==
  /\ \A x, y, z \in DOMAIN line :
       x < y /\ y < z /\ CallOf(x) = CallOf(z) =>
         \/ CallOf(y) = CallOf(x)
         \/ FnOf(CallOf(y)) = "puts" /\ FnOf(CallOf(x)) # "puts"
  /\ \A id \in Calls : todo[id[1]] = <<>> => Sent(id) = Output(id)

(* The bodies of the buddy allocator never overlap, nor those of the slab  *)
(* allocator, whoever calls them.  Buddy and Slab rest on this: there each *)
(* call is one step.                                                       *)
SectionsApart == \A r \in DOMAIN using : Cardinality(using[r]) <= 1

(* Every call returns: no order of locks ends in a circle of threads that  *)
(* wait for each other.                                                    *)
CallsReturn == <>(\A t \in Threads : todo[t] = <<>>)

Results == UNION {ToSet(returned[t]) : t \in Threads}

(* Whatever the format and the size, the buffer holds the part of the text *)
(* that fits, and nothing is written behind it.                            *)
Buffers ==
  \A r \in Results : LET call == job[r[1][1]][r[1][2]]
                     IN  Fits(r[2], call.size, Text(call.format, call.args))

(* Whatever the directive, the length modifier, the width and the value,   *)
(* the number reads back from the text.                                    *)
Numbers ==
  \A r \in Results :
    LET call == job[r[1][1]][r[1][2]]
        d    == Directive(call.format, 2, call.args, 1)
    IN  call.lone => Shows(Text(call.format, call.args), Meaning(d, call.args[d.arg]),
                           base(d), left_pad(d), width(d))

(* What snprintf promises.                                                 *)
Strings == Buffers /\ Numbers
=============================================================================
