------------------------------- MODULE Format -------------------------------
(***************************************************************************)
(* Formatted output: the loop of printf_impl.c, as printf.c includes it    *)
(* into vprintf and into vsnprintf.  A string is a sequence of characters  *)
(* without its terminator.  An argument is the number in one slot of       *)
(* va_list, a character or a string.  Every directive is complete, as in   *)
(* all formats of the kernel.                                              *)
(***************************************************************************)
EXTENDS Integers, SequencesExt

CONSTANTS
  CHAR_BITS, SHORT_BITS, INT_BITS,   \* 8, 16, 32
  LONG_BITS,                         \* 64: long, long long, size_t, pointers
  POINTER_WIDTH                      \* 16: digits of %p

(* That powers of 2 are numbers is said for the proofs, which cannot know. *)
ASSUME FormatConstants ==
  /\ {CHAR_BITS, SHORT_BITS, INT_BITS, LONG_BITS} \subseteq Nat \ {0}
  /\ CHAR_BITS <= SHORT_BITS /\ SHORT_BITS <= INT_BITS /\ INT_BITS <= LONG_BITS
  /\ \A b \in {CHAR_BITS, SHORT_BITS, INT_BITS, LONG_BITS} :
       2^b \in Nat \ {0} /\ 2^(b - 1) \in Nat
  /\ POINTER_WIDTH \in Nat

LowerDigits == <<"0", "1", "2", "3", "4", "5", "6", "7", "8", "9",
                 "a", "b", "c", "d", "e", "f">>
UpperDigits == SubSeq(LowerDigits, 1, 10) \o <<"A", "B", "C", "D", "E", "F">>
Decimals    == {"0", "1", "2", "3", "4", "5", "6", "7", "8", "9"}
Terminator  == ""

At(f, k) == IF k <= Len(f) THEN f[k] ELSE Terminator

(* The first place from k on whose character is not in set.                *)
After(f, k, set) ==
  CHOOSE j \in k..(Len(f) + 1) :
    At(f, j) \notin set /\ \A e \in k..(j - 1) : f[e] \in set

NumberIn(f) ==
  FoldLeft(LAMBDA w, d : 10 * w + (CHOOSE k \in 0..9 : LowerDigits[k + 1] = d),
           0, f)

Signed(x, bits) ==
  LET y == x % 2^bits IN IF y >= 2^(bits - 1) THEN y - 2^bits ELSE y

(* The directive after the % in front of k; the next argument is args[arg].*)
Directive(f, k, args, arg) ==
  LET w    == IF At(f, k) = "0" THEN k + 1 ELSE k
      star == At(f, w) = "*"
      h    == IF star THEN w + 1 ELSE After(f, w, Decimals)
      l    == After(f, h, {"h"})
      z    == After(f, l, {"l"})
      spec == After(f, z, {"z"})
  IN  [left_pad_specified |-> w > k,
       width_specified |-> h > w,
       width |-> IF star THEN Signed(args[arg], INT_BITS)
                         ELSE NumberIn(SubSeq(f, w, h - 1)),
       h |-> l - h, l |-> z - l, z |-> spec - z,
       spec |-> At(f, spec), next |-> spec + 1,
       arg |-> IF star THEN arg + 1 ELSE arg]

(* The padding of the field, with the defaults of %p.                      *)
left_pad(d) == IF d.left_pad_specified \/ d.spec = "p" THEN "0" ELSE " "
width(d) ==
  IF d.spec = "p" /\ ~d.width_specified THEN POINTER_WIDTH ELSE d.width

Pads(k, d)      == IF k > 0 THEN [j \in 1..k |-> left_pad(d)] ELSE <<>>
Padded(d, text) == Pads(width(d) - Len(text), d) \o text

(* The type that the length modifiers choose.                              *)
Bits(d) ==
  CASE d.spec = "p"          -> LONG_BITS
    [] d.h >= 2              -> CHAR_BITS
    [] d.h = 1               -> SHORT_BITS
    [] d.l + d.z >= 1        -> LONG_BITS
    [] OTHER                 -> INT_BITS

IsSigned(d) == d.spec \in {"d", "i"}

(* The 64-bit data, its sign, and what is printed after the sign.          *)
data(d, x) ==
  (IF IsSigned(d) THEN Signed(x, Bits(d)) ELSE x % 2^Bits(d)) % 2^LONG_BITS

negative(d, x)  == IsSigned(d) /\ data(d, x) >= 2^(LONG_BITS - 1)
magnitude(d, x) ==
  IF negative(d, x) THEN (-data(d, x)) % 2^LONG_BITS ELSE data(d, x)

base(d) == CASE d.spec = "o"               -> 8
             [] d.spec \in {"x", "X", "p"} -> 16
             [] OTHER                      -> 10

buf(d, x) ==
  LET symbols == IF d.spec = "X" THEN UpperDigits ELSE LowerDigits
      digits[y \in Nat] ==
        IF y < base(d) THEN <<symbols[y + 1]>>
        ELSE Append(digits[y \div base(d)], symbols[(y % base(d)) + 1])
  IN  digits[magnitude(d, x)]

(* The sign stands in front of zeros and behind spaces.                    *)
Number(d, x) ==
  LET sign == IF negative(d, x) THEN <<"-">> ELSE <<>>
      pads == Pads(width(d) - Len(sign) - Len(buf(d, x)), d)
  IN  IF left_pad(d) = "0" THEN sign \o pads \o buf(d, x)
                           ELSE pads \o sign \o buf(d, x)

-----------------------------------------------------------------------------
(* The loop.  `room' is outbufsize, or Unlimited in vprintf; `full' stands *)
(* for the goto that leaves the loop.                                      *)
Unlimited == -1

\* Mutant: the place of the terminator is used for a character.
FullLate(printed, room) == room # Unlimited /\ printed >= room

Full(printed, room) == room # Unlimited /\ printed + 1 >= room

addchar(s, c, room) ==
  IF s.full THEN s
  ELSE [s EXCEPT !.text = Append(@, c), !.full = Full(Len(s.text) + 1, room)]

addchars(s, chars, room) == FoldLeft(LAMBDA u, c : addchar(u, c, room), s, chars)

(* What a directive prints of its argument.                                *)
Printed(d, x) ==
  CASE d.spec = "c" -> Padded(d, <<x>>)
    [] d.spec = "s" -> Padded(d, x)
    [] d.spec = "%" -> Padded(d, <<"%">>)
    [] d.spec \in {"d", "i", "u", "o", "x", "X", "p"} -> Number(d, x)
    [] OTHER        -> <<>>

TakesArgument(d) == d.spec \in {"c", "s", "n", "d", "i", "u", "o", "x", "X", "p"}

(* One turn of the loop: a character or a directive.                       *)
Turn(f, args, room, s) ==
  IF f[s.i] # "%" THEN addchar([s EXCEPT !.i = @ + 1], f[s.i], room)
  ELSE LET d == Directive(f, s.i + 1, args, s.arg)
           moved == [s EXCEPT !.i = d.next,
                              !.arg = IF TakesArgument(d) THEN d.arg + 1 ELSE d.arg]
       IN  IF d.spec = "n"
           THEN [moved EXCEPT !.stored = Append(@, Signed(Len(s.text), Bits(d)))]
           ELSE addchars(moved, Printed(d, args[d.arg]), room)

Start == [i |-> 1, arg |-> 1, text |-> <<>>, stored |-> <<>>, full |-> FALSE]

AtEnd(f, s) == s.full \/ s.i > Len(f)

(* The state after each turn; a turn reads a character of f or more.       *)
Loop(f, args, room) ==
  LET after[k \in 0..Len(f)] ==
        IF k = 0 THEN Start
        ELSE LET s == after[k - 1]
             IN  IF AtEnd(f, s) THEN s ELSE Turn(f, args, room, s)
  IN  after

Formatted(f, args, room) == Loop(f, args, room)[Len(f)]

(* The arguments suit the format: what a directive prints of its argument  *)
(* is a text.                                                              *)
Suits(f, args) ==
  \A k \in 0..Len(f) :
    LET s == Loop(f, args, Unlimited)[k]
    IN  ~AtEnd(f, s) /\ f[s.i] = "%" =>
          LET d    == Directive(f, s.i + 1, args, s.arg)
              text == Printed(d, args[d.arg])
          IN  d.spec # "n" => text \in Seq(ToSet(text))

(* What vsnprintf returns, the bytes it writes from outbuf[0] on and the   *)
(* numbers that %n stores.                                                 *)
vsnprintf(outbufsize, f, args) ==
  CASE outbufsize < 1 -> [result |-> 0, outbuf |-> <<>>, stored |-> <<>>]
    [] outbufsize = 1 -> [result |-> 0, outbuf |-> <<Terminator>>, stored |-> <<>>]
    [] OTHER ->
         LET s == Formatted(f, args, outbufsize)
         IN  [result |-> Len(s.text), outbuf |-> Append(s.text, Terminator),
              stored |-> s.stored]

-----------------------------------------------------------------------------
(* What is promised, without the loop.                                     *)

(* The number a C program means by an argument of the directive.           *)
Meaning(d, x) == IF IsSigned(d) THEN Signed(x, Bits(d)) ELSE x % 2^Bits(d)

ValueOf(digits, b) ==
  FoldLeft(LAMBDA v, c : b * v + (CHOOSE k \in 0..15 :
             LowerDigits[k + 1] = c \/ UpperDigits[k + 1] = c), 0, digits)

(* text shows the number v in the base b: spaces, a sign, then digits that *)
(* read back as v, as many as are needed or as fill the field with zeros.  *)
Shows(text, v, b, pad, w) ==
  LET size   == IF v < 0 THEN -v ELSE v
      sign   == IF v < 0 THEN 1 ELSE 0
      blanks == Cardinality({k \in DOMAIN text : text[k] = " "})
      digits == SubSeq(text, blanks + sign + 1, Len(text))
  IN  \E needed \in 1..Len(text) :
        /\ b^needed > size /\ (needed = 1 \/ b^(needed - 1) <= size)
        /\ Len(text) = IF w > needed + sign THEN w ELSE needed + sign
        /\ ValueOf(digits, b) = size
        /\ v < 0 => text[blanks + 1] = "-"
        /\ IF pad = " " THEN Len(digits) = needed ELSE blanks = 0

(* The buffer holds the longest part of the text that fits, terminated,    *)
(* and nothing behind it is written; no stored length is beyond it.        *)
Fits(r, outbufsize, text) ==
  IF outbufsize = 0 THEN r.result = 0 /\ r.outbuf = <<>>
  ELSE /\ \A k \in DOMAIN r.stored : r.stored[k] < outbufsize
       /\ r.result = IF Len(text) < outbufsize THEN Len(text) ELSE outbufsize - 1
       /\ r.outbuf = Append(SubSeq(text, 1, r.result), Terminator)
=============================================================================
