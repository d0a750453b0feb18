------------------------------- MODULE Format -------------------------------
(***************************************************************************)
(* The two formatters: printf (kernel/printf.c), which sends characters to *)
(* the console, and klog's kvsnprintf_local (kernel/klog.c), which writes  *)
(* them into a buffer.  They were written twice and know the same          *)
(* conversions, but for klog's l and ll.                                   *)
(*                                                                         *)
(* A format is a sequence of characters, an argument a word of LongBits    *)
(* bits; a %s finds Str(w) at the address w.  There is no state.           *)
(***************************************************************************)
EXTENDS Integers, SequencesExt

CONSTANTS
  IntBits, LongBits,  \* 32 and 64 in the code
  Str(_)              \* the string at an address; 0 is the null pointer

ASSUME FormatAssumption ==
  /\ IntBits \in Nat \ {0} /\ LongBits \in Nat /\ LongBits >= IntBits /\ LongBits % 4 = 0

digits == <<"0", "1", "2", "3", "4", "5", "6", "7", "8", "9", "a", "b", "c", "d", "e", "f">>

\* va_arg as int or long, and as an unsigned number
Signed(w, bits) ==
  LET low == w % 2^bits IN IF low >= 2^(bits - 1) THEN low - 2^bits ELSE low
Unsigned(w, bits) == w % 2^bits

\* the loop that both have: the last digit comes first
Backwards(x, base) ==
  LET D[n \in Nat] ==
        <<digits[(n % base) + 1]>> \o IF n \div base = 0 THEN <<>> ELSE D[n \div base]
  IN  D[x]

\* the character of a %c; 0 ends a string
CharOf(w) == IF w % 2^IntBits = 0 THEN "NUL" ELSE "@"
StrOf(w) == IF w = 0 THEN <<"(", "n", "u", "l", "l", ")">> ELSE Str(w)

Takes(c) == c \in {"d", "u", "x", "p", "s", "c"}
-----------------------------------------------------------------------------
(* printf.c                                                                *)

Printint(xx, base, sign) ==
  IF sign /\ xx < 0 THEN Reverse(Append(Backwards(0 - xx, base), "-"))
  ELSE Reverse(Backwards(xx, base))

\* x is moved to the left and its first four bits are printed
Printptr(x) ==
  <<"0", "x">> \o [n \in 1..(LongBits \div 4) |->
                    digits[((x * 16^(n - 1)) % 2^LongBits) \div 2^(LongBits - 4) + 1]]

PrintfArg(c, w) ==
  CASE c = "d" -> Printint(Signed(w, IntBits), 10, TRUE)
    [] c = "u" -> Printint(Unsigned(w, IntBits), 10, FALSE)
    [] c = "x" -> Printint(Unsigned(w, IntBits), 16, FALSE)
    [] c = "p" -> Printptr(w)
    [] c = "s" -> StrOf(w)
    [] c = "c" -> <<CharOf(w)>>
    [] c = "%" -> <<"%">>
    [] OTHER -> <<"%", c>>

\* what printf sends; args[a] is its next argument
Printf(f, args) ==
  LET P[p \in 1..(Len(f) + 2), a \in DOMAIN args] ==
        IF p > Len(f) THEN <<>>
        ELSE IF f[p] # "%" THEN <<f[p]>> \o P[p + 1, a]
        ELSE IF p = Len(f) THEN <<>>
        ELSE PrintfArg(f[p + 1], args[a])
               \o P[p + 2, IF Takes(f[p + 1]) THEN a + 1 ELSE a]
  IN  P[1, 1]
-----------------------------------------------------------------------------
(* klog.c                                                                  *)

\* a character that finds no room in front of the closing 0 is left out
ObPutc(cap, ob, c) == IF cap <= 0 \/ Len(ob) + 1 >= cap THEN ob ELSE Append(ob, c)

ObPutUint(x, base) == Reverse(Backwards(x, base))

\* -x of the smallest number is that number again, and the right unsigned one
ObPutInt(x) ==
  IF x < 0 THEN <<"-">> \o ObPutUint((0 - x) % 2^LongBits, 10) ELSE ObPutUint(x, 10)

KlogArg(c, w, long) ==
  LET bits == IF long THEN LongBits ELSE IntBits
  IN  CASE c = "d" -> ObPutInt(Signed(w, bits))
        [] c = "u" -> ObPutUint(Unsigned(w, bits), 10)
        [] c = "x" -> ObPutUint(Unsigned(w, bits), 16)
        [] c = "p" ->
             <<"0", "x">> \o [i \in 1..(LongBits \div 4) |->
                               digits[((w \div 16^(LongBits \div 4 - i)) % 16) + 1]]
        [] c = "s" -> StrOf(w)
        [] c = "c" -> <<CharOf(w)>>
        [] c = "%" -> <<"%">>
        [] OTHER -> <<"%", c>>

\* how many l, at most two, stand at p
Longs(f, p) ==
  LET l(q) == q <= Len(f) /\ f[q] = "l"
  IN  IF ~l(p) THEN 0 ELSE IF ~l(p + 1) THEN 1 ELSE 2

\* what kvsnprintf_local leaves in a buffer of cap bytes
Kvsnprintf(cap, f, args) ==
  LET K[p \in 1..(Len(f) + 4), a \in DOMAIN args] ==
        LET c == p + 1 + Longs(f, p + 1)
        IN  IF p > Len(f) THEN <<>>
            ELSE IF f[p] # "%" THEN <<f[p]>> \o K[p + 1, a]
            ELSE IF c > Len(f) THEN <<>>
            ELSE KlogArg(f[c], args[a], c > p + 1)
                   \o K[c + 1, IF Takes(f[c]) THEN a + 1 ELSE a]
  IN  FoldLeft(LAMBDA ob, ch : ObPutc(cap, ob, ch), <<>>, K[1, 1])
-----------------------------------------------------------------------------
\* The text in the log is the text on the console as far as a buffer of cap bytes
\* goes: the two formatters agree on a format without l.
KlogIsPrintf(fmt, args, cap) ==
  (\A n \in DOMAIN fmt : fmt[n] # "l") =>
    LET out == Printf(fmt, args)
        room == IF cap = 0 THEN 0 ELSE cap - 1
    IN  Kvsnprintf(cap, fmt, args)
          = SubSeq(out, 1, IF Len(out) < room THEN Len(out) ELSE room)

\* Whatever the format, the text and its closing 0 fit into the buffer.
StaysInBuffer(fmt, args, cap) == cap > 0 => Len(Kvsnprintf(cap, fmt, args)) < cap

\* The number that a sequence of digits stands for
ValueOf(s, base) ==
  LET digit(c) == (CHOOSE n \in DOMAIN digits : digits[n] = c) - 1
      number(t) == FoldLeft(LAMBDA v, c : v * base + digit(c), 0, t)
  IN  IF s[1] = "-" THEN 0 - number(Tail(s)) ELSE number(s)

\* A printed number read back is the argument: zero, the most negative number of
\* both widths and the largest unsigned one too.
NumbersReadBack(w) ==
  LET P(c) == Printf(<<"%", c>>, <<w, w>>)
      K(ls, c) == Kvsnprintf(99, <<"%">> \o ls \o <<c>>, <<w, w>>)
  IN  /\ ValueOf(P("d"), 10) = Signed(w, IntBits)
      /\ ValueOf(P("u"), 10) = Unsigned(w, IntBits)
      /\ \A ls \in {<<"l">>, <<"l", "l">>} :
           /\ ValueOf(K(ls, "d"), 10) = Signed(w, LongBits)
           /\ ValueOf(K(ls, "x"), 16) = w
=============================================================================
