----------------------------- MODULE MCConsole -----------------------------
(* Instances of Console: three threads that print, three that allocate,    *)
(* and one that formats everything there is on small integers.             *)
EXTENDS Console, TLC

CONSTANTS a, b, c

Printf(f, args) == [fn |-> "printf", format |-> f, args |-> args]
Puts(s)         == [fn |-> "puts", format |-> s]
Thread(fn, whole, log) == [fn |-> fn, whole |-> whole, format |-> log]
Snprintf(size, f, args, lone) ==
  [fn |-> "snprintf", size |-> size, format |-> f, args |-> args, lone |-> lone]

Printers == a :> <<Printf(<<"%", "d">>, <<13>>), Puts(<<"s">>)>>
         @@ b :> <<Puts(<<"t">>), Printf(<<"u">>, <<>>)>>
         @@ c :> <<Printf(<<"v", "w">>, <<>>)>>

Allocators == a :> <<Thread("create_thread", TRUE, <<"v">>)>>
           @@ b :> <<Thread("wait", TRUE, <<"w">>)>>
           @@ c :> <<Thread("create_thread", FALSE, <<"x">>)>>

Alone(call) == a :> <<call>> @@ b :> <<>> @@ c :> <<>>

(* Every number directive with every value of a long; the width may come   *)
(* from the argument in front, and be negative.                            *)
Flags     == {<<>>, <<"0">>}
Widths    == {<<>>, <<"2">>, <<"1", "0">>}
Longs     == 0..(2^LONG_BITS - 1)
Modifiers == {<<>>, <<"h">>, <<"h", "h">>, <<"l">>, <<"l", "l">>, <<"z">>}
Specs     == {"d", "u", "o", "x", "X", "p"}

NumberCalls ==
  {Snprintf(13, <<"%">> \o f \o w \o h \o <<s>>, <<v>>, TRUE) :
     f \in Flags, w \in Widths, h \in Modifiers, s \in Specs, v \in Longs}
  \cup
  {Snprintf(13, <<"%">> \o f \o <<"*">> \o h \o <<s>>, <<w, v>>, TRUE) :
     f \in Flags, w \in {4, -4}, h \in Modifiers, s \in Specs, v \in Longs}

(* Texts around every size of the buffer.                                  *)
Cut ==
  {Snprintf(n, f, <<"q", <<"y", "z">>, 2^LONG_BITS - 1>>, FALSE) : n \in 0..9,
     f \in {<<>>, <<"q">>, <<"%", "3", "c", "%", "s", "%", "i">>,
            <<"%", "c", "%", "0", "4", "s", "%", "l", "n", "%", "3", "%">>}}

SomeJobs == {Printers, Allocators} \cup {Alone(k) : k \in NumberCalls \cup Cut}
=============================================================================
