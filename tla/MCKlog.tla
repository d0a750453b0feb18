------------------------------- MODULE MCKlog -------------------------------
(* A ring of 3 records that is written round more than twice; levels below, *)
(* in and above the range of the enum, and of a byte (260 is stored as 4).   *)
EXTENDS Klog, Format

MCLevel    == {-1, 2, 260}
MCMaxLines == -1..3

(* The formatters have no state: their properties are evaluated for every      *)
(* format of up to three characters, for those that need four, for words at    *)
(* the ends of int (5 bits) and long (8 bits) and for buffers of all kinds.    *)
MCStr(w) == IF w % 2 = 0 THEN <<>> ELSE <<"s", "t">>
Char  == {"%", "l", "d", "u", "x", "p", "s", "c", "a"}
Takers == {"d", "u", "x", "p", "s", "c"}
Formats ==
  UNION {[1..n -> Char] : n \in 0..3}
    \cup {<<"%", "l", "l", c>> : c \in Char} \cup {<<"%", c, "%", d>> : c, d \in Takers}
Words == {0, 10, 16, 31, 128, 255}
Caps  == {0, 1, 2, 4, 99}

\* arguments that take turns, so that a conversion which reads the wrong one shows
Args == {<<v, w, v, w, v>> : v, w \in Words}

\* console and log show the same text
ASSUME \A f \in Formats, args \in Args, cap \in Caps : KlogIsPrintf(f, args, cap)

\* kvsnprintf_local does not leave its buffer
ASSUME \A f \in Formats, args \in Args, cap \in Caps : StaysInBuffer(f, args, cap)

\* what is printed of a number is that number
ASSUME \A w \in Words : NumbersReadBack(w)
=============================================================================
