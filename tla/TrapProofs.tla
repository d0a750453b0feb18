----------------------------- MODULE TrapProofs -----------------------------
(***************************************************************************)
(* The invariants of Trap for every length of the texts, every word size   *)
(* and every number of ticks, and the proof that main sees of an interrupt *)
(* only what Ticking says.                                                 *)
(***************************************************************************)
EXTENDS Trap, SequenceTheorems, FiniteSetTheorems, TLAPS

\* A text is a finite number of bytes.
LEMMA BytesAreNat ==
  ASSUME NEW text \in Seq(STRING)
  PROVE  Bytes(text) \in Nat
<1>1. IsFiniteSet(1..Len(text)) /\ IsFiniteSet(1..3)
  <2>1. Len(text) \in Int /\ 1 \in Int /\ 3 \in Int
    BY LenProperties
  <2> QED  BY <2>1, FS_Interval
<1>2. IsFiniteSet((1..Len(text)) \X (1..3))
  BY <1>1, FS_Product
<1>3. IsFiniteSet({b \in (1..Len(text)) \X (1..3) : b[2] <= Sends(text[b[1]])})
  BY <1>2, FS_Subset
<1> QED  BY <1>3, FS_CardinalityType DEF Bytes

LEMMA ConstantFacts ==
  /\ Word \in Nat /\ Word > 0 /\ TestTicks \in 0..(Word - 1) /\ PauseTicks \in 0..(Word - 1)
  /\ Every \in Nat /\ Every > 0 /\ Fifo \in Nat /\ Fifo > 1
  /\ Bytes(Text) \in Nat /\ Bytes(TickLine) \in Nat
BY TrapAssumption, ConsoleAssumption, BytesAreNat
-----------------------------------------------------------------------------
(* The program of main.                                                    *)

\* Puts ends here.
P == 11 + 2 * Bytes(Text)

\* Main, instruction by instruction.
I(op, n) == [op |-> op, n |-> n]
At(p) ==
  CASE p \in {1, 5, 8, P + 1, P + 3, P + 5, P + 11, P + 15, P + 17} -> I("rd", 0)
    [] p \in {2, P + 4, P + 12, P + 18} -> I("off", 0)
    [] p \in {6, 9, P + 2, P + 6, P + 16} -> I("on", 0)
    [] p \in {3, P + 13} -> I("xchg", 0)
    [] p \in {4, P + 14} -> I("clear", 0)
    [] p = 7 -> I("stvec", 0)
    [] p \in {10, P + 7, P + 9} -> I("start", 0)
    [] p = 11 -> I("wait", TestTicks)
    [] p = P + 8 -> I("wait", PauseTicks)
    [] p = P + 10 -> I("wait", 0)
    [] p \in 12..P -> I(IF (p - 11) % 2 = 1 THEN "poll" ELSE "put", 0)

Instruction ==
  [op : {"rd", "off", "on", "xchg", "clear", "stvec", "start", "wait", "poll", "put"}, n : Nat]

\* s is the first n instructions of it.
Begins(s, n) == s \in Seq(Instruction) /\ Len(s) = n /\ \A p \in 1..n : s[p] = At(p)

LEMMA PFacts == P \in Nat /\ P >= 11
BY ConstantFacts DEF P

LEMMA Concat ==
  ASSUME NEW S, NEW s \in Seq(S), NEW t \in Seq(S)
  PROVE  /\ s \o t \in Seq(S)
         /\ Len(s \o t) = Len(s) + Len(t)
         /\ \A i \in 1..(Len(s) + Len(t)) :
              (s \o t)[i] = IF i <= Len(s) THEN s[i] ELSE t[i - Len(s)]
BY ConcatProperties

\* m instructions behind the first n.
LEMMA BeginsMore ==
  ASSUME NEW n \in Nat, NEW m \in Nat, NEW s, NEW t, Begins(s, n),
         t \in Seq(Instruction), Len(t) = m, \A i \in 1..m : t[i] = At(n + i)
  PROVE  Begins(s \o t, n + m)
<1> DEFINE u == s \o t
<1>1. s \in Seq(Instruction) /\ Len(s) = n /\ \A p \in 1..n : s[p] = At(p)
  BY DEF Begins
<1>2. /\ u \in Seq(Instruction)
      /\ Len(u) = Len(s) + Len(t)
      /\ \A i \in 1..(Len(s) + Len(t)) : u[i] = IF i <= Len(s) THEN s[i] ELSE t[i - Len(s)]
  BY <1>1, Concat, Zenon
<1>3. u \in Seq(Instruction) /\ Len(u) = n + m
  BY <1>1, <1>2
<1>4. \A i \in 1..(n + m) : u[i] = IF i <= n THEN s[i] ELSE t[i - n]
  BY <1>1, <1>2, Zenon
<1> HIDE DEF u
<1>5. ASSUME NEW i \in 1..(n + m) PROVE u[i] = At(i)
  <2>1. CASE i <= n
    BY <2>1, <1>1, <1>4
  <2>2. CASE ~ (i <= n)
    <3>1. i - n \in 1..m /\ n + (i - n) = i
      BY <2>2
    <3> QED  BY <2>2, <3>1, <1>4
  <2> QED  BY <2>1, <2>2
<1> QED  BY <1>3, <1>5 DEF Begins, u

LEMMA Tuples ==
  ASSUME NEW a, NEW b
  PROVE  /\ <<a>> \o <<b>> = <<a, b>>
         /\ \A c : <<a, b>> \o <<c>> = <<a, b, c>> /\ <<c>> \o <<a, b>> = <<c, a, b>>
         /\ \A c, d, e, f : <<a, b, c>> \o <<d, e, f>> = <<a, b, c, d, e, f>>
<1>1. <<a>> \o <<b>> = <<a, b>>
  <2> DEFINE S == {a, b}
  <2>1. /\ <<a>> \in Seq(S) /\ <<b>> \in Seq(S) /\ <<a, b>> \in Seq(S)
        /\ Len(<<a>>) = 1 /\ Len(<<b>>) = 1 /\ Len(<<a, b>>) = 2
    OBVIOUS
  <2>2. <<a>> \o <<b>> \in Seq(S) /\ Len(<<a>> \o <<b>>) = 2
    BY <2>1, ConcatProperties
  <2>3. \A i \in 1..2 : (<<a>> \o <<b>>)[i] = <<a, b>>[i]
    BY <2>1
  <2> QED  BY <2>1, <2>2, <2>3, SeqEqual
<1>2. ASSUME NEW c PROVE <<a, b>> \o <<c>> = <<a, b, c>>
  <2> DEFINE S == {a, b, c}
  <2>1. /\ <<a, b>> \in Seq(S) /\ <<c>> \in Seq(S) /\ <<a, b, c>> \in Seq(S)
        /\ Len(<<a, b>>) = 2 /\ Len(<<c>>) = 1 /\ Len(<<a, b, c>>) = 3
    OBVIOUS
  <2>2. <<a, b>> \o <<c>> \in Seq(S) /\ Len(<<a, b>> \o <<c>>) = 3
    BY <2>1, ConcatProperties
  <2>3. \A i \in 1..3 : (<<a, b>> \o <<c>>)[i] = <<a, b, c>>[i]
    BY <2>1
  <2> QED  BY <2>1, <2>2, <2>3, SeqEqual
<1>3. ASSUME NEW c PROVE <<c>> \o <<a, b>> = <<c, a, b>>
  <2> DEFINE S == {a, b, c}
  <2>1. /\ <<a, b>> \in Seq(S) /\ <<c>> \in Seq(S) /\ <<c, a, b>> \in Seq(S)
        /\ Len(<<a, b>>) = 2 /\ Len(<<c>>) = 1 /\ Len(<<c, a, b>>) = 3
    OBVIOUS
  <2>2. <<c>> \o <<a, b>> \in Seq(S) /\ Len(<<c>> \o <<a, b>>) = 3
    BY <2>1, ConcatProperties
  <2>3. \A i \in 1..3 : (<<c>> \o <<a, b>>)[i] = <<c, a, b>>[i]
    BY <2>1
  <2> QED  BY <2>1, <2>2, <2>3, SeqEqual
<1>4. ASSUME NEW c, NEW d, NEW e, NEW f
      PROVE  <<a, b, c>> \o <<d, e, f>> = <<a, b, c, d, e, f>>
  <2> DEFINE S == {a, b, c, d, e, f}
  <2>1. /\ <<a, b, c>> \in Seq(S) /\ <<d, e, f>> \in Seq(S) /\ <<a, b, c, d, e, f>> \in Seq(S)
        /\ Len(<<a, b, c>>) = 3 /\ Len(<<d, e, f>>) = 3 /\ Len(<<a, b, c, d, e, f>>) = 6
    OBVIOUS
  <2>2. <<a, b, c>> \o <<d, e, f>> \in Seq(S) /\ Len(<<a, b, c>> \o <<d, e, f>>) = 6
    BY <2>1, ConcatProperties
  <2>3. \A i \in 1..6 : (<<a, b, c>> \o <<d, e, f>>)[i] = <<a, b, c, d, e, f>>[i]
    BY <2>1
  <2> QED  BY <2>1, <2>2, <2>3, SeqEqual
<1> QED  BY <1>1, <1>2, <1>3, <1>4

LEMMA Parts ==
  /\ \A op : Ins(op) = <<I(op, 0)>>
  /\ IntrOn = <<I("rd", 0), I("on", 0)>> /\ IntrOff = <<I("rd", 0), I("off", 0)>>
  /\ \A n : WaitTicks(n) = <<I("start", 0), I("wait", n)>>
  /\ Critical = <<I("rd", 0), I("off", 0), I("xchg", 0), I("clear", 0), I("rd", 0), I("on", 0)>>
<1>1. \A op : Ins(op) = <<I(op, 0)>>
  BY DEF Ins, I
<1>2. IntrOn = <<I("rd", 0), I("on", 0)>> /\ IntrOff = <<I("rd", 0), I("off", 0)>>
  BY <1>1, Tuples DEF IntrOn, IntrOff
<1>3. \A n : WaitTicks(n) = <<I("start", 0), I("wait", n)>>
  BY <1>1, Tuples DEF WaitTicks, I
<1>4. /\ Acquire = <<I("rd", 0), I("off", 0), I("xchg", 0)>>
      /\ Release = <<I("clear", 0), I("rd", 0), I("on", 0)>>
  BY <1>1, <1>2, Tuples DEF Acquire, Release
<1>5. Critical = <<I("rd", 0), I("off", 0), I("xchg", 0), I("clear", 0), I("rd", 0), I("on", 0)>>
  <2>1. \A a, b, c, d, e, f : <<a, b, c>> \o <<d, e, f>> = <<a, b, c, d, e, f>>
    BY Tuples
  <2> DEFINE rd == I("rd", 0)
             off == I("off", 0)
             xchg == I("xchg", 0)
             clear == I("clear", 0)
             on == I("on", 0)
  <2>2. Acquire = <<rd, off, xchg>> /\ Release = <<clear, rd, on>>
    BY <1>4
  <2> HIDE DEF rd, off, xchg, clear, on
  <2>3. <<rd, off, xchg>> \o <<clear, rd, on>> = <<rd, off, xchg, clear, rd, on>>
    BY <2>1
  <2>4. Critical = <<rd, off, xchg, clear, rd, on>>
    BY <2>2, <2>3 DEF Critical
  <2> QED  BY <2>4 DEF rd, off, xchg, clear, on
<1> QED  BY <1>1, <1>2, <1>3, <1>5

LEMMA Instructions ==
  /\ \A op \in {"rd", "off", "on", "xchg", "clear", "stvec", "start", "poll", "put"} :
       I(op, 0) \in Instruction
  /\ \A n \in Nat : I("wait", n) \in Instruction
BY DEF I, Instruction

LEMMA BeginsOne ==
  ASSUME NEW n \in Nat, NEW s, Begins(s, n), NEW a \in Instruction, a = At(n + 1)
  PROVE  Begins(s \o <<a>>, n + 1)
<1>1. <<a>> \in Seq(Instruction) /\ Len(<<a>>) = 1 /\ \A i \in 1..1 : <<a>>[i] = At(n + i)
  <2>1. \A i \in 1..1 : i = 1
    OBVIOUS
  <2> QED  BY <2>1
<1> QED  BY <1>1, BeginsMore

LEMMA BeginsTwo ==
  ASSUME NEW n \in Nat, NEW s, Begins(s, n), NEW a \in Instruction, a = At(n + 1),
         NEW b \in Instruction, b = At(n + 2)
  PROVE  Begins(s \o <<a, b>>, n + 2)
<1>1. <<a, b>> \in Seq(Instruction) /\ Len(<<a, b>>) = 2
  OBVIOUS
<1>2. \A i \in 1..2 : <<a, b>>[i] = At(n + i)
  <2>1. \A i \in 1..2 : i = 1 \/ i = 2
    OBVIOUS
  <2> QED  BY <2>1
<1> QED  BY <1>1, <1>2, BeginsMore

\* A critical section behind the first n instructions.
LEMMA BeginsCritical ==
  ASSUME NEW n \in Nat, NEW s, Begins(s, n),
         At(n + 1) = I("rd", 0), At(n + 2) = I("off", 0), At(n + 3) = I("xchg", 0),
         At(n + 4) = I("clear", 0), At(n + 5) = I("rd", 0), At(n + 6) = I("on", 0)
  PROVE  Begins(s \o Critical, n + 6)
<1>1. Critical \in Seq(Instruction) /\ Len(Critical) = 6
  BY Parts, Instructions
<1>2. \A i \in 1..6 : Critical[i] = At(n + i)
  <2>1. \A i \in 1..6 : i = 1 \/ i = 2 \/ i = 3 \/ i = 4 \/ i = 5 \/ i = 6
    OBVIOUS
  <2> QED  BY <2>1, Parts
<1> QED  BY <1>1, <1>2, BeginsMore

\* Puts.
LEMMA BeginsPuts ==
  ASSUME NEW s, Begins(s, 11)
  PROVE  Begins(s \o Puts(Text), P)
<1> DEFINE m == 2 * Bytes(Text)
           t == Puts(Text)
<1>1. m \in Nat /\ P = 11 + m
  BY ConstantFacts DEF P
<1>2. t = [k \in 1..m |-> I(IF k % 2 = 1 THEN "poll" ELSE "put", 0)]
  BY DEF Puts, I
<1> HIDE DEF m, t
<1>3. t \in Seq(Instruction) /\ Len(t) = m
  BY <1>1, <1>2, Instructions
<1>4. ASSUME NEW i \in 1..m PROVE t[i] = At(11 + i)
  <2> DEFINE p == 11 + i
  <2>1. p \in 12..P /\ p - 11 = i
    BY <1>1
  <2> HIDE DEF p
  <2>2. At(p) = I(IF (p - 11) % 2 = 1 THEN "poll" ELSE "put", 0)
    BY <2>1, PFacts DEF At
  <2>3. At(p) = t[i]
    BY <1>2, <2>1, <2>2
  <2> QED  BY <2>3 DEF p
<1> QED  BY <1>1, <1>3, <1>4, BeginsMore DEF t

\* Main is what At says.
LEMMA MainIs == Begins(Main, P + 18)
<1>0. P \in Nat /\ P >= 11
  BY PFacts
<1>1. Begins(Critical, 6)
  <2>1. Begins(<<>>, 0)
    BY DEF Begins
  <2>2. /\ At(0 + 1) = I("rd", 0) /\ At(0 + 2) = I("off", 0) /\ At(0 + 3) = I("xchg", 0)
        /\ At(0 + 4) = I("clear", 0) /\ At(0 + 5) = I("rd", 0) /\ At(0 + 6) = I("on", 0)
    BY <1>0 DEF At
  <2>3. Begins(<<>> \o Critical, 0 + 6)
    BY <2>1, <2>2, BeginsCritical
  <2>4. <<>> \o Critical = Critical /\ 0 + 6 = 6
    BY Parts
  <2> QED  BY <2>3, <2>4
<1> DEFINE s7 == Critical \o Ins("stvec")
           s9 == s7 \o IntrOn
           s11 == s9 \o WaitTicks(TestTicks)
           s12 == s11 \o Puts(Text)
           s13 == s12 \o IntrOn
           s14 == s13 \o IntrOff
           s15 == s14 \o IntrOn
           s16 == s15 \o WaitTicks(PauseTicks)
           s17 == s16 \o WaitTicks(0)
           s18 == s17 \o Critical
<1>2. /\ \A op \in {"rd", "off", "on", "xchg", "clear", "stvec", "start"} : I(op, 0) \in Instruction
      /\ I("wait", TestTicks) \in Instruction /\ I("wait", PauseTicks) \in Instruction
      /\ I("wait", 0) \in Instruction
  BY Instructions, ConstantFacts
<1>3. Begins(s7, 7)
  <2>1. At(6 + 1) = I("stvec", 0)
    BY <1>0 DEF At
  <2> QED  BY <1>1, <1>2, <2>1, BeginsOne, Parts
<1> HIDE DEF s7
<1>4. Begins(s9, 9)
  <2>1. At(7 + 1) = I("rd", 0) /\ At(7 + 2) = I("on", 0)
    BY <1>0 DEF At
  <2> QED  BY <1>2, <1>3, <2>1, BeginsTwo, Parts
<1> HIDE DEF s9
<1>5. Begins(s11, 11)
  <2>1. At(9 + 1) = I("start", 0) /\ At(9 + 2) = I("wait", TestTicks)
    BY <1>0 DEF At
  <2> QED  BY <1>2, <1>4, <2>1, BeginsTwo, Parts
<1> HIDE DEF s11
<1>6. Begins(s12, P)
  BY <1>5, BeginsPuts
<1> HIDE DEF s12
<1>7. Begins(s13, P + 2)
  <2>1. At(P + 1) = I("rd", 0) /\ At(P + 2) = I("on", 0)
    BY <1>0 DEF At
  <2> QED  BY <1>0, <1>2, <1>6, <2>1, BeginsTwo, Parts
<1> HIDE DEF s13
<1>8. Begins(s14, P + 4)
  <2>1. At(P + 3) = I("rd", 0) /\ At(P + 4) = I("off", 0)
    BY <1>0 DEF At
  <2>2. P + 2 \in Nat /\ (P + 2) + 1 = P + 3 /\ (P + 2) + 2 = P + 4
    BY <1>0
  <2> QED  BY <1>2, <1>7, <2>1, <2>2, BeginsTwo, Parts
<1> HIDE DEF s14
<1>9. Begins(s15, P + 6)
  <2>1. At(P + 5) = I("rd", 0) /\ At(P + 6) = I("on", 0)
    BY <1>0 DEF At
  <2>2. P + 4 \in Nat /\ (P + 4) + 1 = P + 5 /\ (P + 4) + 2 = P + 6
    BY <1>0
  <2> QED  BY <1>2, <1>8, <2>1, <2>2, BeginsTwo, Parts
<1> HIDE DEF s15
<1>10. Begins(s16, P + 8)
  <2>1. At(P + 7) = I("start", 0) /\ At(P + 8) = I("wait", PauseTicks)
    BY <1>0 DEF At
  <2>2. P + 6 \in Nat /\ (P + 6) + 1 = P + 7 /\ (P + 6) + 2 = P + 8
    BY <1>0
  <2> QED  BY <1>2, <1>9, <2>1, <2>2, BeginsTwo, Parts
<1> HIDE DEF s16
<1>11. Begins(s17, P + 10)
  <2>1. At(P + 9) = I("start", 0) /\ At(P + 10) = I("wait", 0)
    BY <1>0 DEF At
  <2>2. P + 8 \in Nat /\ (P + 8) + 1 = P + 9 /\ (P + 8) + 2 = P + 10
    BY <1>0
  <2> QED  BY <1>2, <1>10, <2>1, <2>2, BeginsTwo, Parts
<1> HIDE DEF s17
<1>12. Begins(s18, P + 16)
  <2>1. /\ At(P + 11) = I("rd", 0) /\ At(P + 12) = I("off", 0) /\ At(P + 13) = I("xchg", 0)
        /\ At(P + 14) = I("clear", 0) /\ At(P + 15) = I("rd", 0) /\ At(P + 16) = I("on", 0)
    BY <1>0 DEF At
  <2>2. /\ P + 10 \in Nat /\ (P + 10) + 1 = P + 11 /\ (P + 10) + 2 = P + 12
        /\ (P + 10) + 3 = P + 13 /\ (P + 10) + 4 = P + 14 /\ (P + 10) + 5 = P + 15
        /\ (P + 10) + 6 = P + 16
    BY <1>0
  <2> QED  BY <1>11, <2>1, <2>2, BeginsCritical
<1> HIDE DEF s18
<1>13. Begins(s18 \o IntrOff, P + 18)
  <2>1. At(P + 17) = I("rd", 0) /\ At(P + 18) = I("off", 0)
    BY <1>0 DEF At
  <2>2. P + 16 \in Nat /\ (P + 16) + 1 = P + 17 /\ (P + 16) + 2 = P + 18
    BY <1>0
  <2> QED  BY <1>2, <1>12, <2>1, <2>2, BeginsTwo, Parts
<1> QED  BY <1>13 DEF s7, s9, s11, s12, s13, s14, s15, s16, s17, s18, Main
-----------------------------------------------------------------------------
(* The invariants.                                                         *)

\* Interrupts are on when main has come to p.
On(p) == p \in 7..(P + 4) \/ p \in (P + 7)..(P + 12) \/ p \in (P + 17)..(P + 18)

\* sstatus in a handler
TrapSst == [SIE |-> FALSE, SPIE |-> TRUE, SPP |-> TRUE]

InHandler == mode \in {"clockintr", "poll", "put", "leave", "sret"}

\* sstatus, the lock and stvec depend on nothing but where main has come to.
Place ==
  /\ mode = "code" => sst.SIE = On(pc)
  /\ locked <=> pc \in {4, P + 14}
  /\ stvec <=> pc >= 8
  /\ mode = "lost" => ~ stvec

\* A trap comes from main, and while it lasts sstatus and sepc are its own.
Trapped ==
  /\ mode # "panic"
  /\ mode # "code" => On(pc) /\ sst = TrapSst /\ sepc = [mode |-> "code", pc |-> pc]
  /\ ~ InHandler => frames = <<>>
  /\ InHandler => \E r \in Register : frames = <<[reg |-> r, sepc |-> sepc, sst |-> TrapSst]>>

\* Nothing else clears the pending interrupt.
Pending == mode \in {"vec", "clockintr"} => due

\* What is in the UART's queue between a poll and the write that follows it.
Queue ==
  /\ mode = "put" => queue = 0
  /\ pc <= Len(Main) /\ Main[pc].op = "put" => queue <= 1

\* A wait does not end while an interrupt is pending.
NotOver == due => ~ WaitOver

IInv == TypeOK /\ Place /\ Trapped /\ Pending /\ Queue /\ NotOver /\ TicksExact
-----------------------------------------------------------------------------
(* What the instructions of main have to do with the invariants.           *)

LEMMA ProgramIs ==
  /\ Len(Main) = P + 18 /\ P \in Nat /\ P >= 11
  /\ Main \in Seq(Instruction)
  /\ \A p \in 1..Len(Main) : Main[p] = At(p)
BY MainIs, PFacts DEF Begins

LEMMA Fields ==
  \A op, n : I(op, n).op = op /\ I(op, n).n = n
BY DEF I

LEMMA AtIs ==
  /\ \A p \in {1, 5, 8, P + 1, P + 3, P + 5, P + 11, P + 15, P + 17} : At(p) = I("rd", 0)
  /\ \A p \in {2, P + 4, P + 12, P + 18} : At(p) = I("off", 0)
  /\ \A p \in {6, 9, P + 2, P + 6, P + 16} : At(p) = I("on", 0)
  /\ \A p \in {3, P + 13} : At(p) = I("xchg", 0)
  /\ \A p \in {4, P + 14} : At(p) = I("clear", 0)
  /\ At(7) = I("stvec", 0)
  /\ \A p \in {10, P + 7, P + 9} : At(p) = I("start", 0)
  /\ At(11) = I("wait", TestTicks)
  /\ At(P + 8) = I("wait", PauseTicks)
  /\ At(P + 10) = I("wait", 0)
<1>0. P \in Nat /\ P >= 11
  BY PFacts
<1>1. /\ At(1) = I("rd", 0) /\ At(5) = I("rd", 0) /\ At(8) = I("rd", 0)
      /\ At(P + 1) = I("rd", 0) /\ At(P + 3) = I("rd", 0) /\ At(P + 5) = I("rd", 0)
      /\ At(P + 11) = I("rd", 0) /\ At(P + 15) = I("rd", 0) /\ At(P + 17) = I("rd", 0)
  BY <1>0 DEF At
<1>2. /\ At(2) = I("off", 0) /\ At(P + 4) = I("off", 0) /\ At(P + 12) = I("off", 0)
      /\ At(P + 18) = I("off", 0)
  BY <1>0 DEF At
<1>3. /\ At(6) = I("on", 0) /\ At(9) = I("on", 0) /\ At(P + 2) = I("on", 0)
      /\ At(P + 6) = I("on", 0) /\ At(P + 16) = I("on", 0)
  BY <1>0 DEF At
<1>4. /\ At(3) = I("xchg", 0) /\ At(P + 13) = I("xchg", 0)
      /\ At(4) = I("clear", 0) /\ At(P + 14) = I("clear", 0) /\ At(7) = I("stvec", 0)
  BY <1>0 DEF At
<1>5. /\ At(10) = I("start", 0) /\ At(P + 7) = I("start", 0) /\ At(P + 9) = I("start", 0)
  BY <1>0 DEF At
<1>6. At(11) = I("wait", TestTicks) /\ At(P + 8) = I("wait", PauseTicks) /\ At(P + 10) = I("wait", 0)
  BY <1>0 DEF At
<1> QED  BY <1>1, <1>2, <1>3, <1>4, <1>5, <1>6

\* Where the instructions are.
LEMMA Places ==
  ASSUME NEW p \in 1..Len(Main)
  PROVE  /\ Main[p].op = "rd" => p \in {1, 5, 8, P + 1, P + 3, P + 5, P + 11, P + 15, P + 17}
         /\ Main[p].op = "off" <=> p \in {2, P + 4, P + 12, P + 18}
         /\ Main[p].op = "on" <=> p \in {6, 9, P + 2, P + 6, P + 16}
         /\ Main[p].op = "xchg" <=> p \in {3, P + 13}
         /\ Main[p].op = "clear" <=> p \in {4, P + 14}
         /\ Main[p].op = "stvec" <=> p = 7
         /\ Main[p].op = "start" <=> p \in {10, P + 7, P + 9}
         /\ Main[p].op = "wait" <=> p \in {11, P + 8, P + 10}
         /\ Main[p].op = "poll" <=> p \in 12..P /\ (p - 11) % 2 = 1
         /\ Main[p].op = "put" <=> p \in 12..P /\ (p - 11) % 2 # 1
         /\ Main[p].n \in 0..(Word - 1)
<1>1. p \in 1..(P + 18) /\ P \in Nat /\ P >= 11 /\ Main[p] = At(p)
  BY ProgramIs
<1>2. CASE p \in 12..P
  <2>1. At(p) = I(IF (p - 11) % 2 = 1 THEN "poll" ELSE "put", 0)
    BY <1>1, <1>2 DEF At
  <2> QED  BY <1>1, <1>2, <2>1, ConstantFacts DEF I
<1>3. CASE p \in 1..11
  <2>0. \/ p \in {1, 5, 8}
        \/ p = 2
        \/ p \in {6, 9}
        \/ p = 3
        \/ p = 4
        \/ p = 7
        \/ p = 10
        \/ p = 11
    BY <1>3
  <2>1. CASE p \in {1, 5, 8}
    <3>1. At(p) = I("rd", 0)
      BY <2>1, AtIs
    <3>2. Main[p].op = "rd" /\ Main[p].n = 0
      BY <1>1, <3>1 DEF I
    <3>3. CASE p = 1
      BY <1>1, <3>2, <3>3, ConstantFacts
    <3>4. CASE p = 5
      BY <1>1, <3>2, <3>4, ConstantFacts
    <3>5. CASE p = 8
      BY <1>1, <3>2, <3>5, ConstantFacts
    <3> QED  BY <2>1, <3>3, <3>4, <3>5
  <2>2. CASE p = 2
    <3>1. At(p) = I("off", 0)
      BY <2>2, AtIs
    <3>2. Main[p].op = "off" /\ Main[p].n = 0
      BY <1>1, <3>1 DEF I
    <3> QED  BY <1>1, <2>2, <3>2, ConstantFacts
  <2>3. CASE p \in {6, 9}
    <3>1. At(p) = I("on", 0)
      BY <2>3, AtIs
    <3>2. Main[p].op = "on" /\ Main[p].n = 0
      BY <1>1, <3>1 DEF I
    <3> QED  BY <1>1, <2>3, <3>2, ConstantFacts
  <2>4. CASE p = 3
    <3>1. At(p) = I("xchg", 0)
      BY <2>4, AtIs
    <3>2. Main[p].op = "xchg" /\ Main[p].n = 0
      BY <1>1, <3>1 DEF I
    <3> QED  BY <1>1, <2>4, <3>2, ConstantFacts
  <2>5. CASE p = 4
    <3>1. At(p) = I("clear", 0)
      BY <2>5, AtIs
    <3>2. Main[p].op = "clear" /\ Main[p].n = 0
      BY <1>1, <3>1 DEF I
    <3> QED  BY <1>1, <2>5, <3>2, ConstantFacts
  <2>6. CASE p = 7
    <3>1. At(p) = I("stvec", 0)
      BY <2>6, AtIs
    <3>2. Main[p].op = "stvec" /\ Main[p].n = 0
      BY <1>1, <3>1 DEF I
    <3> QED  BY <1>1, <2>6, <3>2, ConstantFacts
  <2>7. CASE p = 10
    <3>1. At(p) = I("start", 0)
      BY <2>7, AtIs
    <3>2. Main[p].op = "start" /\ Main[p].n = 0
      BY <1>1, <3>1 DEF I
    <3> QED  BY <1>1, <2>7, <3>2, ConstantFacts
  <2>8. CASE p = 11
    <3>1. At(p) = I("wait", TestTicks)
      BY <2>8, AtIs
    <3>2. Main[p].op = "wait" /\ Main[p].n = TestTicks
      BY <1>1, <3>1 DEF I
    <3> QED  BY <1>1, <2>8, <3>2, ConstantFacts
  <2> QED  BY <2>0, <2>1, <2>2, <2>3, <2>4, <2>5, <2>6, <2>7, <2>8
<1>4. CASE p \in (P + 1)..(P + 18)
  <2>0. \/ p \in {P + 1, P + 3, P + 5, P + 11, P + 15, P + 17}
        \/ p \in {P + 4, P + 12, P + 18}
        \/ p \in {P + 2, P + 6, P + 16}
        \/ p = P + 13
        \/ p = P + 14
        \/ p \in {P + 7, P + 9}
        \/ p = P + 8
        \/ p = P + 10
    BY <1>1, <1>4
  <2>1. CASE p \in {P + 1, P + 3, P + 5, P + 11, P + 15, P + 17}
    <3>1. At(p) = I("rd", 0)
      BY <2>1, AtIs
    <3>2. Main[p].op = "rd" /\ Main[p].n = 0
      BY <1>1, <3>1 DEF I
    <3> QED  BY <1>1, <2>1, <3>2, ConstantFacts
  <2>2. CASE p \in {P + 4, P + 12, P + 18}
    <3>1. At(p) = I("off", 0)
      BY <2>2, AtIs
    <3>2. Main[p].op = "off" /\ Main[p].n = 0
      BY <1>1, <3>1 DEF I
    <3> QED  BY <1>1, <2>2, <3>2, ConstantFacts
  <2>3. CASE p \in {P + 2, P + 6, P + 16}
    <3>1. At(p) = I("on", 0)
      BY <2>3, AtIs
    <3>2. Main[p].op = "on" /\ Main[p].n = 0
      BY <1>1, <3>1 DEF I
    <3> QED  BY <1>1, <2>3, <3>2, ConstantFacts
  <2>4. CASE p = P + 13
    <3>1. At(p) = I("xchg", 0)
      BY <2>4, AtIs
    <3>2. Main[p].op = "xchg" /\ Main[p].n = 0
      BY <1>1, <3>1 DEF I
    <3> QED  BY <1>1, <2>4, <3>2, ConstantFacts
  <2>5. CASE p = P + 14
    <3>1. At(p) = I("clear", 0)
      BY <2>5, AtIs
    <3>2. Main[p].op = "clear" /\ Main[p].n = 0
      BY <1>1, <3>1 DEF I
    <3> QED  BY <1>1, <2>5, <3>2, ConstantFacts
  <2>6. CASE p \in {P + 7, P + 9}
    <3>1. At(p) = I("start", 0)
      BY <2>6, AtIs
    <3>2. Main[p].op = "start" /\ Main[p].n = 0
      BY <1>1, <3>1 DEF I
    <3> QED  BY <1>1, <2>6, <3>2, ConstantFacts
  <2>7. CASE p = P + 8
    <3>1. At(p) = I("wait", PauseTicks)
      BY <2>7, AtIs
    <3>2. Main[p].op = "wait" /\ Main[p].n = PauseTicks
      BY <1>1, <3>1 DEF I
    <3> QED  BY <1>1, <2>7, <3>2, ConstantFacts
  <2>8. CASE p = P + 10
    <3>1. At(p) = I("wait", 0)
      BY <2>8, AtIs
    <3>2. Main[p].op = "wait" /\ Main[p].n = 0
      BY <1>1, <3>1 DEF I
    <3> QED  BY <1>1, <2>8, <3>2, ConstantFacts
  <2> QED  BY <2>0, <2>1, <2>2, <2>3, <2>4, <2>5, <2>6, <2>7, <2>8
<1> QED  BY <1>1, <1>2, <1>3, <1>4

\* What an instruction has to do with the next.
LEMMA Steps ==
  ASSUME NEW p \in 1..Len(Main)
  PROVE  /\ p + 1 \in 1..(Len(Main) + 1)
         /\ Main[p].op = "off" => ~ On(p + 1)
         /\ Main[p].op = "on" => On(p + 1)
         /\ Main[p].op \notin {"off", "on"} => (On(p + 1) <=> On(p))
         /\ Main[p].op = "xchg" <=> p + 1 \in {4, P + 14}
         /\ Main[p].op = "clear" <=> p \in {4, P + 14}
         /\ Main[p].op # "stvec" => (p + 1 >= 8 <=> p >= 8)
         /\ Main[p].op = "stvec" => p + 1 >= 8
         /\ p + 1 <= Len(Main) /\ Main[p + 1].op = "put" => Main[p].op = "poll"
         /\ p + 1 <= Len(Main) /\ Main[p + 1].op = "wait" => Main[p].op = "start" /\ On(p)
         /\ Main[p].op = "start" => p + 1 <= Len(Main) /\ Main[p + 1].op = "wait"
<1>1. p \in 1..(P + 18) /\ P \in Nat /\ P >= 11 /\ Len(Main) = P + 18
  BY ProgramIs
<1>2. /\ p + 1 \in 1..(Len(Main) + 1)
      /\ Main[p].op = "off" => ~ On(p + 1)
      /\ Main[p].op = "on" => On(p + 1)
      /\ Main[p].op \notin {"off", "on"} => (On(p + 1) <=> On(p))
  BY <1>1, Places DEF On
<1>3. /\ Main[p].op = "xchg" <=> p + 1 \in {4, P + 14}
      /\ Main[p].op = "clear" <=> p \in {4, P + 14}
      /\ Main[p].op # "stvec" => (p + 1 >= 8 <=> p >= 8)
      /\ Main[p].op = "stvec" => p + 1 >= 8
  BY <1>1, Places
<1>4. ASSUME p + 1 <= Len(Main)
      PROVE  /\ Main[p + 1].op = "put" => Main[p].op = "poll"
             /\ Main[p + 1].op = "wait" => Main[p].op = "start" /\ On(p)
             /\ Main[p].op = "start" => Main[p + 1].op = "wait"
  <2>1. p + 1 \in 1..Len(Main)
    BY <1>1, <1>4
  <2>2. /\ Main[p + 1].op = "wait" <=> p + 1 \in {11, P + 8, P + 10}
        /\ Main[p + 1].op = "put" <=> p + 1 \in 12..P /\ ((p + 1) - 11) % 2 # 1
    BY <2>1, Places
  <2>3. /\ Main[p].op = "start" <=> p \in {10, P + 7, P + 9}
        /\ Main[p].op = "poll" <=> p \in 12..P /\ (p - 11) % 2 = 1
    BY Places
  <2>4. p + 1 \in 12..P /\ ((p + 1) - 11) % 2 # 1 => p \in 12..P /\ (p - 11) % 2 = 1
    BY <1>1
  <2> QED  BY <1>1, <2>2, <2>3, <2>4 DEF On
<1>5. Main[p].op = "start" => p + 1 <= Len(Main)
  BY <1>1, Places
<1> QED  BY <1>2, <1>3, <1>4, <1>5
-----------------------------------------------------------------------------
(* The inductive step, first for main.                                     *)

LEMMA InitHolds == Init => IInv
<1> SUFFICES ASSUME Init PROVE IInv
  OBVIOUS
<1>1. Len(Main) = P + 18 /\ P \in Nat /\ P >= 11
  BY ProgramIs
<1>2. TypeOK
  <2>1. /\ mode = "code" /\ pc = 1 /\ frames = <<>> /\ line = 0 /\ queue = 0
        /\ ticks = 0 /\ expiries = 0 /\ sepc.pc = 1
        /\ locked \in BOOLEAN /\ stvec \in BOOLEAN /\ due \in BOOLEAN
    BY DEF Init, UartInit
  <2>2. sst \in Sstatus /\ reg \in Register
    BY ConstantFacts DEF Init, Sstatus, Register
  <2>3. /\ pc \in 1..(Len(Main) + 1) /\ sepc.pc \in 1..(Len(Main) + 1)
        /\ ticks \in 0..(Word - 1) /\ expiries \in 0..(Word - 1)
        /\ queue \in 0..Fifo /\ line \in 0..Bytes(TickLine)
    BY <1>1, <2>1, ConstantFacts
  <2> QED  BY <2>1, <2>2, <2>3 DEF TypeOK
<1>3. Place
  <2>1. ~ On(1) /\ 1 \notin {4, P + 14} /\ ~ (1 >= 8)
    BY <1>1 DEF On
  <2>2. On(1) = FALSE
    BY <2>1 DEF On
  <2> QED  BY <2>1, <2>2 DEF Init, Place
<1>4. Trapped /\ Pending /\ NotOver
  BY DEF Init, Trapped, Pending, NotOver, InHandler
<1>5. Queue
  BY <1>1 DEF Init, Queue, UartInit
<1>6. TicksExact
  BY ConstantFacts DEF Init, TicksExact
<1> QED  BY <1>2, <1>3, <1>4, <1>5, <1>6 DEF IInv

\* What every instruction of main does.
LEMMA RunFacts ==
  ASSUME IInv, NEW op, Run(op)
  PROVE  /\ mode = "code" /\ mode' = "code" /\ frames = <<>> /\ frames' = <<>>
         /\ pc \in 1..Len(Main) /\ Main[pc].op = op /\ pc' = pc + 1
         /\ sst.SIE = On(pc)
         /\ Trapped' /\ Pending' /\ TicksExact' /\ NotOver'
         /\ op # "poll" => Queue'
<1>1. /\ mode = "code" /\ mode' = "code" /\ frames = <<>> /\ frames' = <<>>
      /\ Main[pc].op = op /\ pc' = pc + 1 /\ sst.SIE = On(pc)
  BY DEF IInv, Trapped, Place, InHandler, Run, trap
<1>2. pc \in 1..Len(Main)
  <2>1. Len(Main) \in Nat
    BY ProgramIs
  <2> QED  BY <2>1 DEF IInv, TypeOK, Run
<1>3. Trapped' /\ Pending'
  BY <1>1 DEF Trapped, Pending, InHandler
<1>4. TicksExact'
  BY DEF IInv, TicksExact, Run
<1>5. NotOver'
  <2> SUFFICES ASSUME due', Waiting' PROVE FALSE
    BY DEF NotOver, WaitOver
  <2>1. due /\ ~ On(pc)
    BY <1>1 DEF Run
  <2>2. pc + 1 <= Len(Main) /\ Main[pc + 1].op = "wait"
    BY <1>1 DEF Waiting
  <2> QED  BY <1>2, <2>1, <2>2, Steps
<1>6. op # "poll" => Queue'
  <2> SUFFICES ASSUME op # "poll" PROVE Queue'
    OBVIOUS
  <2>1. ~ (pc + 1 <= Len(Main) /\ Main[pc + 1].op = "put")
    BY <1>1, <1>2, Steps
  <2> QED  BY <1>1, <2>1 DEF Queue
<1> QED  BY <1>1, <1>2, <1>3, <1>4, <1>5, <1>6

\* An instruction that leaves interrupts, the lock and stvec alone.
LEMMA PlainStep ==
  ASSUME IInv, NEW op, op \notin {"off", "on", "xchg", "clear", "stvec"}, Run(op),
         UNCHANGED <<locked, stvec, sst>>, reg' \in Register, queue' \in 0..Fifo, Queue'
  PROVE  IInv'
<1>1. /\ mode = "code" /\ mode' = "code" /\ frames' = <<>>
      /\ pc \in 1..Len(Main) /\ Main[pc].op = op /\ pc' = pc + 1
      /\ Trapped' /\ Pending' /\ TicksExact' /\ NotOver'
  BY RunFacts
<1>2. P \in Nat /\ P >= 11 /\ Len(Main) = P + 18
  BY ProgramIs
<1>3. /\ pc + 1 \in 1..(Len(Main) + 1) /\ (On(pc + 1) <=> On(pc))
      /\ (pc + 1 >= 8 <=> pc >= 8) /\ pc \notin {4, P + 14} /\ pc + 1 \notin {4, P + 14}
  BY <1>1, Steps
<1>4. TypeOK'
  BY <1>1, <1>3 DEF IInv, TypeOK, Run, trap
<1>5. Place'
  <2>1. sst'.SIE = On(pc')
    <3>1. sst.SIE = On(pc) /\ On(pc') = On(pc)
      BY <1>1, <1>3 DEF IInv, Place, On
    <3> QED  BY <3>1
  <2>2. (locked' <=> pc' \in {4, P + 14}) /\ (stvec' <=> pc' >= 8)
    BY <1>1, <1>3 DEF IInv, Place
  <2> QED  BY <1>1, <2>1, <2>2 DEF Place
<1> QED  BY <1>1, <1>4, <1>5 DEF IInv

LEMMA CodeStep == ASSUME IInv, Code PROVE IInv'
<1>0. P \in Nat /\ P >= 11 /\ Len(Main) = P + 18
  BY ProgramIs
<1>1. /\ reg \in Register /\ sst \in Sstatus /\ queue \in 0..Fifo /\ ticks \in 0..(Word - 1)
      /\ locked \in BOOLEAN /\ stvec \in BOOLEAN
  BY DEF IInv, TypeOK
<1>2. CASE ReadSstatus
  <2>1. Run("rd") /\ reg' \in Register /\ UNCHANGED <<locked, stvec, sst, queue>>
    BY <1>1, <1>2 DEF ReadSstatus, Register
  <2>2. Queue'
    BY <2>1, RunFacts
  <2> QED  BY <1>1, <2>1, <2>2, PlainStep
<1>3. CASE StartWait
  <2>1. Run("start") /\ reg' \in Register /\ UNCHANGED <<locked, stvec, sst, queue>>
    BY <1>1, <1>3 DEF StartWait, Register
  <2>2. Queue'
    BY <2>1, RunFacts
  <2> QED  BY <1>1, <2>1, <2>2, PlainStep
<1>4. CASE EndWait
  <2>1. Run("wait") /\ reg' \in Register /\ UNCHANGED <<locked, stvec, sst, queue>>
    BY <1>1, <1>4 DEF EndWait
  <2>2. Queue'
    BY <2>1, RunFacts
  <2> QED  BY <1>1, <2>1, <2>2, PlainStep
<1>5. CASE Poll
  <2>1. Run("poll") /\ reg' \in Register /\ UNCHANGED <<locked, stvec, sst, queue>> /\ queue = 0
    BY <1>1, <1>5 DEF Poll, TxIdle
  <2>2. Queue'
    BY <2>1, RunFacts DEF Queue
  <2> QED  BY <1>1, <2>1, <2>2, PlainStep
<1>6. CASE Put
  <2>1. Run("put") /\ reg' \in Register /\ UNCHANGED <<locked, stvec, sst>>
    BY <1>1, <1>6 DEF Put
  <2>2. queue' \in 0..Fifo
    BY <1>1, <1>6, ConstantFacts DEF Put, WriteThr, TxQueue
  <2>3. Queue'
    BY <2>1, RunFacts
  <2> QED  BY <2>1, <2>2, <2>3, PlainStep
<1>7. CASE WriteSstatus
  <2>1. PICK op \in {"off", "on"} :
          Run(op) /\ sst' = [reg.sst EXCEPT !.SIE = (op = "on")]
    BY <1>7 DEF WriteSstatus
  <2>2. UNCHANGED <<locked, stvec, reg, queue>>
    BY <1>7 DEF WriteSstatus
  <2>3. /\ mode = "code" /\ mode' = "code" /\ frames' = <<>>
        /\ pc \in 1..Len(Main) /\ Main[pc].op = op /\ pc' = pc + 1
        /\ Trapped' /\ Pending' /\ TicksExact' /\ NotOver' /\ Queue'
    BY <2>1, RunFacts
  <2>4. /\ pc + 1 \in 1..(Len(Main) + 1) /\ (On(pc + 1) <=> op = "on")
        /\ (pc + 1 >= 8 <=> pc >= 8) /\ pc \notin {4, P + 14} /\ pc + 1 \notin {4, P + 14}
    BY <2>1, <2>3, Steps
  <2>5. sst' \in Sstatus /\ (sst'.SIE <=> op = "on")
    BY <1>1, <2>1 DEF Register, Sstatus
  <2>6. TypeOK'
    BY <2>1, <2>2, <2>3, <2>4, <2>5 DEF IInv, TypeOK, Run, trap
  <2>7. Place'
    <3>1. sst'.SIE = On(pc')
      BY <2>3, <2>4, <2>5 DEF On, Sstatus
    <3>2. (locked' <=> pc' \in {4, P + 14}) /\ (stvec' <=> pc' >= 8)
      BY <2>2, <2>3, <2>4 DEF IInv, Place
    <3> QED  BY <2>3, <3>1, <3>2 DEF Place
  <2> QED  BY <2>3, <2>6, <2>7 DEF IInv
<1>8. CASE AtomicXchg \/ Unlock \/ Trapinithart
  <2>1. PICK op \in {"xchg", "clear", "stvec"} :
          /\ Run(op)
          /\ locked' = IF op = "xchg" THEN TRUE ELSE IF op = "clear" THEN FALSE ELSE locked
          /\ stvec' = IF op = "stvec" THEN TRUE ELSE stvec
          /\ UNCHANGED <<reg, sst, queue>>
    BY <1>8 DEF AtomicXchg, Unlock, Trapinithart
  <2>2. /\ mode = "code" /\ mode' = "code" /\ frames' = <<>>
        /\ pc \in 1..Len(Main) /\ Main[pc].op = op /\ pc' = pc + 1 /\ sst.SIE = On(pc)
        /\ Trapped' /\ Pending' /\ TicksExact' /\ NotOver' /\ Queue'
    BY <2>1, RunFacts
  <2>3. /\ pc + 1 \in 1..(Len(Main) + 1) /\ (On(pc + 1) <=> On(pc))
        /\ (op = "xchg" <=> pc + 1 \in {4, P + 14}) /\ (op = "clear" <=> pc \in {4, P + 14})
        /\ (op # "stvec" => (pc + 1 >= 8 <=> pc >= 8)) /\ (op = "stvec" => pc + 1 >= 8)
    BY <2>1, <2>2, Steps
  <2>4. TypeOK'
    BY <1>1, <2>1, <2>2, <2>3 DEF IInv, TypeOK, Run, trap
  <2>5. Place'
    <3>1. sst'.SIE = On(pc')
      <4>1. On(pc') = On(pc)
        BY <2>2, <2>3 DEF On
      <4> QED  BY <2>1, <2>2, <4>1
    <3>2. locked' <=> pc' \in {4, P + 14}
      BY <2>1, <2>2, <2>3 DEF IInv, Place
    <3>3. stvec' <=> pc' >= 8
      BY <2>1, <2>2, <2>3 DEF IInv, Place
    <3> QED  BY <2>2, <3>1, <3>2, <3>3 DEF Place
  <2> QED  BY <2>2, <2>4, <2>5 DEF IInv
<1> QED  BY <1>2, <1>3, <1>4, <1>5, <1>6, <1>7, <1>8 DEF Code
-----------------------------------------------------------------------------
(* The inductive step for the handler, the timer and the UART.             *)

\* Counting ticks with a counter that wraps.
LEMMA Modulo ==
  ASSUME NEW x \in Nat
  PROVE  x % Word \in 0..(Word - 1) /\ (x < Word => x % Word = x)
BY ConstantFacts

\* The frame that kernelvec saves.
LEMMA OneFrame ==
  ASSUME NEW f
  PROVE  /\ Len(<<f>>) = 1 /\ Head(<<f>>) = f /\ Tail(<<f>>) = <<>>
         /\ <<f>> \o <<>> = <<f>> /\ DOMAIN <<f>> = {1} /\ <<f>>[1] = f
OBVIOUS

\* What is on the stack.
LEMMA FrameFacts ==
  ASSUME IInv
  PROVE  /\ ~ InHandler => frames = <<>> /\ Len(frames) = 0 /\ Interrupted = reg
         /\ InHandler => /\ Len(frames) = 1 /\ Tail(frames) = <<>>
                         /\ Head(frames).reg \in Register
                         /\ Head(frames).sepc = sepc /\ Head(frames).sst = TrapSst
                         /\ Interrupted = Head(frames).reg
<1>1. CASE InHandler
  <2>1. PICK r \in Register : frames = <<[reg |-> r, sepc |-> sepc, sst |-> TrapSst]>>
    BY <1>1 DEF IInv, Trapped
  <2>2. /\ Len(frames) = 1 /\ Tail(frames) = <<>>
        /\ Head(frames) = [reg |-> r, sepc |-> sepc, sst |-> TrapSst]
    BY <2>1, OneFrame
  <2> QED  BY <1>1, <2>2 DEF Interrupted
<1>2. CASE ~ InHandler
  BY <1>2 DEF IInv, Trapped, Interrupted
<1> QED  BY <1>1, <1>2

\* A step of the handler that leaves main's place, the stack and the queue alone.
LEMMA HandlerStep ==
  ASSUME IInv, InHandler, InHandler', pc \in Nat,
         UNCHANGED <<code, sepc, frames, sst, expiries>>,
         reg' \in Register, due' \in BOOLEAN, ticks' \in 0..(Word - 1), queue' \in 0..Fifo,
         line' \in 0..Bytes(TickLine), mode' \in {"poll", "put"} <=> line' > 0,
         mode' # "clockintr", TicksExact', NotOver', Queue'
  PROVE  IInv'
<1>1. TypeOK'
  <2>1. /\ mode' \in {"code", "vec", "clockintr", "poll", "put", "leave", "sret", "lost", "panic"}
        /\ mode # "code"
    BY DEF InHandler
  <2> QED  BY <2>1 DEF IInv, TypeOK, code
<1>2. Place'
  BY DEF IInv, Place, code, InHandler
<1>3. Trapped' /\ Pending'
  BY DEF IInv, Trapped, Pending, InHandler, code
<1> QED  BY <1>1, <1>2, <1>3 DEF IInv

LEMMA NotOverKept ==
  ASSUME IInv, UNCHANGED <<pc, ticks, due>>, Interrupted' = Interrupted
  PROVE  NotOver'
BY DEF IInv, NotOver, WaitOver, Waiting, Waited

LEMMA InterruptStep == ASSUME IInv, Interrupt PROVE IInv'
<1>1. /\ mode = "code" /\ due /\ On(pc) /\ sst' = TrapSst /\ mode' \in {"vec", "lost"}
      /\ sepc' = [mode |-> "code", pc |-> pc]
      /\ UNCHANGED <<pc, locked, stvec, reg, due, ticks, line, frames, expiries, queue>>
  <2>1. mode = "code"
    BY DEF IInv, TypeOK, Interrupt
  <2>2. On(pc)
    BY <2>1 DEF IInv, Place, Interrupt
  <2> QED  BY <2>1, <2>2 DEF Interrupt, TrapSst, code
<1>2. frames = <<>> /\ ~ InHandler /\ ~ InHandler'
  BY <1>1 DEF IInv, Trapped, InHandler
<1>3. TypeOK'
  BY <1>1 DEF IInv, TypeOK, TrapSst, Sstatus
<1>4. Place'
  BY <1>1 DEF IInv, Place, Interrupt
<1>5. Trapped' /\ Pending'
  BY <1>1, <1>2 DEF IInv, Trapped, Pending, InHandler, On
<1>6. Queue' /\ TicksExact'
  BY <1>1 DEF IInv, Queue, TicksExact
<1>7. NotOver'
  BY <1>1, NotOverKept DEF Interrupted
<1> QED  BY <1>3, <1>4, <1>5, <1>6, <1>7 DEF IInv

LEMMA KernelvecStep == ASSUME IInv, Kernelvec PROVE IInv'
<1>1. /\ mode = "vec" /\ ~ InHandler /\ frames = <<>> /\ sst = TrapSst /\ On(pc) /\ due
      /\ sepc = [mode |-> "code", pc |-> pc] /\ reg \in Register
  BY DEF IInv, Trapped, Kernelvec, InHandler, Pending, TypeOK
<1>2. /\ mode' = "clockintr" /\ frames' = <<[reg |-> reg, sepc |-> sepc, sst |-> TrapSst]>>
      /\ UNCHANGED <<pc, locked, stvec, reg, sst, sepc, due, ticks, line, expiries, queue>>
  <2>1. sst.SPP /\ ~ sst.SIE
    BY <1>1 DEF TrapSst
  <2> QED  BY <1>1, <2>1, OneFrame DEF Kernelvec, code
<1>3. TypeOK'
  <2>1. \A n \in DOMAIN frames' : frames'[n].reg \in Register /\ frames'[n].sst \in Sstatus
    <3>1. TrapSst \in Sstatus
      BY DEF TrapSst, Sstatus
    <3>2. DOMAIN frames' = {1} /\ frames'[1] = [reg |-> reg, sepc |-> sepc, sst |-> TrapSst]
      BY <1>2, OneFrame
    <3> QED  BY <1>1, <3>1, <3>2
  <2> QED  BY <1>1, <1>2, <2>1 DEF IInv, TypeOK
<1>4. Place' /\ Trapped' /\ Pending'
  <2>1. InHandler'
    BY <1>2 DEF InHandler
  <2>2. \E r \in Register : frames' = <<[reg |-> r, sepc |-> sepc', sst |-> TrapSst]>>
    BY <1>1, <1>2
  <2>3. Place' /\ Pending'
    BY <1>1, <1>2 DEF IInv, Place, Pending
  <2>4. On(pc') /\ sst' = TrapSst /\ sepc' = [mode |-> "code", pc |-> pc']
    BY <1>1, <1>2 DEF On
  <2> QED  BY <1>2, <2>1, <2>2, <2>3, <2>4 DEF Trapped
<1>5. Queue' /\ TicksExact'
  BY <1>1, <1>2 DEF IInv, Queue, TicksExact
<1>6. NotOver'
  <2>1. Interrupted = reg /\ Interrupted' = reg
    BY <1>1, <1>2, OneFrame DEF Interrupted
  <2> QED  BY <1>2, <2>1, NotOverKept
<1> QED  BY <1>3, <1>4, <1>5, <1>6 DEF IInv

LEMMA ClockintrStep == ASSUME IInv, Clockintr PROVE IInv'
<1>1. /\ ticks \in 0..(Word - 1) /\ reg \in Register /\ sst \in Sstatus /\ pc \in Nat /\ due
      /\ (ticks + 1) % Word = expiries /\ queue \in 0..Fifo /\ InHandler
  <2>1. pc \in Nat
    BY ProgramIs DEF IInv, TypeOK
  <2> QED  BY <2>1 DEF IInv, TypeOK, TicksExact, Pending, Clockintr, InHandler
<1>2. ticks' \in 0..(Word - 1) /\ ticks' = expiries
  BY <1>1, Modulo, ConstantFacts DEF Clockintr
<1>3. line' \in 0..Bytes(TickLine) /\ mode' = IF line' = 0 THEN "leave" ELSE "poll"
  BY <1>2, ConstantFacts DEF Clockintr, Line
<1>4. /\ reg' \in Register /\ due' = FALSE
      /\ UNCHANGED <<code, sst, sepc, frames, expiries, queue>>
  BY <1>1, <1>2 DEF Clockintr, Register
<1>5. TicksExact'
  <2>1. ticks' % Word = ticks'
    BY <1>2, Modulo, ConstantFacts
  <2> QED  BY <1>2, <1>4, <2>1 DEF TicksExact
<1>6. NotOver' /\ InHandler'
  BY <1>3, <1>4 DEF NotOver, InHandler
<1>7. Queue'
  BY <1>3, <1>4 DEF IInv, Queue, code
<1>8. (mode' \in {"poll", "put"} <=> line' > 0) /\ mode' # "clockintr"
  BY <1>3, ConstantFacts
<1> QED  BY <1>1, <1>2, <1>3, <1>4, <1>5, <1>6, <1>7, <1>8, HandlerStep

LEMMA PrintStep ==
  ASSUME IInv, ClockintrPoll \/ ClockintrPut \/ KerneltrapReturn
  PROVE  IInv'
<1>1. /\ ticks \in 0..(Word - 1) /\ reg \in Register /\ due \in BOOLEAN /\ pc \in Nat
      /\ queue \in 0..Fifo /\ line \in 0..Bytes(TickLine) /\ InHandler
      /\ mode \in {"poll", "put"} <=> line > 0
  <2>1. pc \in Nat
    BY ProgramIs DEF IInv, TypeOK
  <2> QED  BY <2>1 DEF IInv, TypeOK, InHandler, ClockintrPoll, ClockintrPut, KerneltrapReturn
<1>2. /\ InHandler' /\ mode' # "clockintr"
      /\ UNCHANGED <<code, sepc, frames, sst, expiries, ticks, due, reg>>
  <2>1. CASE ClockintrPoll
    BY <2>1 DEF ClockintrPoll, InHandler
  <2>2. CASE ClockintrPut
    BY <2>2 DEF ClockintrPut, InHandler
  <2>3. CASE KerneltrapReturn
    <3>1. Head(frames).sepc = sepc /\ Head(frames).sst = TrapSst /\ sst = TrapSst
      BY <1>1, FrameFacts DEF IInv, Trapped, InHandler
    <3> QED  BY <2>3, <3>1 DEF KerneltrapReturn, InHandler
  <2> QED  BY <2>1, <2>2, <2>3
<1>3. NotOver' /\ TicksExact'
  <2>1. Interrupted' = Interrupted /\ pc' = pc
    BY <1>2 DEF Interrupted, code
  <2>2. NotOver'
    BY <1>2, <2>1, NotOverKept
  <2>3. TicksExact'
    BY <1>2 DEF IInv, TicksExact
  <2> QED  BY <2>2, <2>3
<1>4. /\ queue' \in 0..Fifo /\ line' \in 0..Bytes(TickLine)
      /\ mode' \in {"poll", "put"} <=> line' > 0
      /\ Queue'
  <2>1. CASE ClockintrPoll
    BY <1>1, <2>1 DEF IInv, ClockintrPoll, TxIdle, Queue, code
  <2>2. CASE ClockintrPut
    <3>1. queue = 0 /\ queue' = 1 /\ 1 \in 0..Fifo
      BY <2>2, ConstantFacts DEF IInv, Queue, ClockintrPut, WriteThr, TxQueue
    <3>2. line' \in 0..Bytes(TickLine) /\ (mode' \in {"poll", "put"} <=> line' > 0) /\ mode' # "put"
      BY <1>1, <2>2, ConstantFacts DEF ClockintrPut
    <3> QED  BY <3>1, <3>2 DEF Queue
  <2>3. CASE KerneltrapReturn
    BY <1>1, <2>3 DEF IInv, KerneltrapReturn, Queue, code
  <2> QED  BY <2>1, <2>2, <2>3
<1> QED  BY <1>1, <1>2, <1>3, <1>4, HandlerStep

LEMMA SretStep == ASSUME IInv, Sret PROVE IInv'
<1>1. /\ mode = "sret" /\ InHandler /\ On(pc) /\ sst = TrapSst
      /\ sepc = [mode |-> "code", pc |-> pc]
  BY DEF IInv, Trapped, Sret, InHandler
<1>2. /\ Tail(frames) = <<>> /\ Head(frames).reg \in Register
      /\ Interrupted = Head(frames).reg
  BY <1>1, FrameFacts
<1>3. /\ mode' = "code" /\ pc' = pc /\ frames' = <<>> /\ reg' = Interrupted
      /\ sst' = [SIE |-> TRUE, SPIE |-> TRUE, SPP |-> FALSE]
      /\ UNCHANGED <<locked, stvec, sepc, due, ticks, line, expiries, queue>>
  BY <1>1, <1>2 DEF Sret, TrapSst
<1>4. TypeOK'
  BY <1>1, <1>2, <1>3 DEF IInv, TypeOK, Sstatus
<1>5. Place'
  <2>1. sst'.SIE = On(pc')
    <3>1. On(pc') = TRUE
      BY <1>1, <1>3 DEF On
    <3> QED  BY <1>3, <3>1
  <2> QED  BY <1>1, <1>3, <2>1 DEF IInv, Place
<1>6. Trapped' /\ Pending' /\ Queue' /\ TicksExact'
  BY <1>1, <1>3 DEF IInv, Trapped, Pending, Queue, TicksExact, InHandler
<1>7. NotOver'
  <2>1. Interrupted' = reg'
    BY <1>3 DEF Interrupted
  <2> QED  BY <1>3, <2>1, NotOverKept
<1> QED  BY <1>4, <1>5, <1>6, <1>7 DEF IInv

LEMMA TimerStep == ASSUME IInv, TimerExpires PROVE IInv'
<1>1. /\ ~ due /\ mode = "code" /\ ~ WaitOver /\ due' = TRUE
      /\ ticks \in 0..(Word - 1) /\ expiries = ticks % Word
      /\ UNCHANGED <<pc, locked, stvec, mode, sepc, frames, line, reg, sst, ticks, queue>>
  BY DEF IInv, TypeOK, TicksExact, TimerExpires, code, trap
<1>2. expiries' = (ticks + 1) % Word /\ expiries' \in 0..(Word - 1)
  BY <1>1, Modulo, ConstantFacts DEF TimerExpires
<1>3. TypeOK' /\ Place' /\ Trapped' /\ Pending' /\ Queue'
  <2>1. TypeOK'
    BY <1>1, <1>2 DEF IInv, TypeOK
  <2>2. Place' /\ Trapped'
    BY <1>1 DEF IInv, Place, Trapped, InHandler, On
  <2> QED  BY <1>1, <2>1, <2>2 DEF IInv, Pending, Queue
<1>4. TicksExact'
  BY <1>1, <1>2 DEF TicksExact
<1>5. NotOver'
  BY <1>1 DEF NotOver, WaitOver, Waiting, Waited, Interrupted
<1> QED  BY <1>3, <1>4, <1>5 DEF IInv

LEMMA TransmitStep == ASSUME IInv, Transmit \/ UNCHANGED vars PROVE IInv'
<1>1. /\ UNCHANGED <<pc, locked, stvec, mode, sepc, frames, line, reg, sst, due, ticks, expiries>>
      /\ queue' = queue \/ (queue > 0 /\ queue' = queue - 1)
  BY DEF Transmit, Transmits, code, trap, vars
<1>2. queue \in 0..Fifo
  BY DEF IInv, TypeOK
<1>3. TypeOK' /\ Place' /\ Trapped' /\ Pending'
  <2>1. TypeOK'
    BY <1>1, <1>2, ConstantFacts DEF IInv, TypeOK
  <2> QED  BY <1>1, <2>1 DEF IInv, Place, Trapped, InHandler, On, Pending
<1>4. Queue'
  BY <1>1, <1>2 DEF IInv, Queue
<1>5. TicksExact' /\ NotOver'
  BY <1>1 DEF IInv, TicksExact, NotOver, WaitOver, Waiting, Waited, Interrupted
<1> QED  BY <1>3, <1>4, <1>5 DEF IInv

LEMMA NextKeeps == IInv /\ [Next]_vars => IInv'
<1> SUFFICES ASSUME IInv, [Next]_vars PROVE IInv'
  OBVIOUS
<1>1. CASE Code
  BY <1>1, CodeStep
<1>2. CASE Handler
  <2>1. \/ Interrupt \/ Kernelvec \/ Clockintr \/ Sret
        \/ (ClockintrPoll \/ ClockintrPut \/ KerneltrapReturn)
    BY <1>2 DEF Handler
  <2>2. CASE Interrupt
    BY <2>2, InterruptStep
  <2>3. CASE Kernelvec
    BY <2>3, KernelvecStep
  <2>4. CASE Clockintr
    BY <2>4, ClockintrStep
  <2>5. CASE Sret
    BY <2>5, SretStep
  <2>6. CASE ClockintrPoll \/ ClockintrPut \/ KerneltrapReturn
    BY <2>6, PrintStep
  <2> QED  BY <2>1, <2>2, <2>3, <2>4, <2>5, <2>6
<1>3. CASE TimerExpires
  BY <1>3, TimerStep
<1>4. CASE Transmit \/ Idle \/ UNCHANGED vars
  BY <1>4, TransmitStep DEF Idle
<1> QED  BY <1>1, <1>2, <1>3, <1>4 DEF Next

LEMMA Inductive == Spec => []IInv
<1>1. Init => IInv
  BY InitHolds
<1>2. IInv /\ [Next]_vars => IInv'
  BY NextKeeps
<1> QED  BY <1>1, <1>2, PTL DEF Spec
-----------------------------------------------------------------------------
(* What follows from the invariant.                                        *)

\* Interrupts keep to their discipline: no handler runs while a spin lock is held,
\* and the handler is not interrupted itself.
THEOREM InterruptsDisciplined == Spec => []TrapsSound
<1>1. IInv => TrapsSound
  <2> SUFFICES ASSUME IInv PROVE TrapsSound
    OBVIOUS
  <2>1. LockShutsOutInterrupts
    <3> SUFFICES ASSUME locked, mode # "code" PROVE FALSE
      BY DEF LockShutsOutInterrupts
    <3>1. pc \in {4, P + 14} /\ On(pc)
      BY DEF IInv, Place, Trapped
    <3> QED  BY <3>1, ProgramIs DEF On
  <2>2. HandlerAlone
    BY FrameFacts DEF HandlerAlone, InHandler
  <2> QED  BY <2>1, <2>2 DEF TrapsSound, IInv
<1> QED  BY <1>1, Inductive, PTL

\* Every period is counted once, across the wrap of the counter.
THEOREM PeriodsCounted == Spec => []TicksExact
<1>1. IInv => TicksExact
  BY DEF IInv
<1> QED  BY <1>1, Inductive, PTL

\* No byte is written into a full queue, whichever of main and the handler writes it.
THEOREM BytesArrive == Spec => []NothingLost
<1>1. IInv => NothingLost
  BY ConstantFacts DEF IInv, TypeOK, Queue, NothingLost, TxQueue
<1> QED  BY <1>1, Inductive, PTL

\* However long the boot takes, an interrupt goes astray at one place only: behind the
\* release in fs_init, which turns interrupts on, and before trapinithart has set
\* stvec.  Neither start, with its interrupts off, nor the critical section before the
\* release, nor anything that comes after trapinithart is exposed.
THEOREM AstrayOnlyInBoot ==
  Spec => [](mode = "lost" => pc <= Len(Main) /\ Main[pc].op = "stvec")
<1> DEFINE Exposed == pc <= Len(Main) /\ Main[pc].op = "stvec"
<1>1. IInv => (mode = "lost" => Exposed)
  <2> SUFFICES ASSUME IInv, mode = "lost" PROVE Exposed
    OBVIOUS
  <2>1. On(pc) /\ ~ (pc >= 8) /\ pc \in 1..(Len(Main) + 1)
    BY DEF IInv, Place, Trapped, TypeOK
  <2>2. pc = 7 /\ pc \in 1..Len(Main)
    BY <2>1, ProgramIs DEF On
  <2>3. Main[7] = I("stvec", 0)
    BY <2>2, ProgramIs, AtIs
  <2> QED  BY <2>2, <2>3, Fields
<1> QED  BY <1>1, Inductive, PTL
-----------------------------------------------------------------------------
(* Main as Ticking sees it: without the reads of sstatus and the polls.    *)

LEMMA ShownFinite ==
  /\ IsFiniteSet(Shown) /\ Cardinality(Shown) \in Nat
  /\ \A p : IsFiniteSet({q \in Shown : q < p}) /\ Before(p) \in Nat
<1>1. IsFiniteSet(1..Len(Main))
  <2>1. 1 \in Int /\ Len(Main) \in Int
    BY ProgramIs
  <2> QED  BY <2>1, FS_Interval
<1>2. IsFiniteSet(Shown)
  BY <1>1, FS_Subset DEF Shown
<1>3. \A p : IsFiniteSet({q \in Shown : q < p})
  BY <1>2, FS_Subset
<1> QED  BY <1>2, <1>3, FS_CardinalityType DEF Before

LEMMA BeforeNext ==
  ASSUME NEW p \in 1..Len(Main)
  PROVE  Before(p + 1) = IF p \in Shown THEN Before(p) + 1 ELSE Before(p)
<1> DEFINE B(q) == {r \in Shown : r < q}
<1>1. Shown \subseteq Nat /\ p \in Nat
  BY ProgramIs DEF Shown
<1>2. CASE p \in Shown
  <2>0. \A r \in Shown : (r < p + 1 <=> r < p \/ r = p) /\ ~ (p < p)
    BY <1>1
  <2>1. B(p + 1) = B(p) \cup {p} /\ p \notin B(p)
    BY <1>2, <2>0
  <2>2. Cardinality(B(p) \cup {p}) = Cardinality(B(p)) + 1
    BY <2>1, ShownFinite, FS_AddElement
  <2> QED  BY <1>2, <2>1, <2>2 DEF Before
<1>3. CASE p \notin Shown
  <2>0. \A r \in Shown : r < p + 1 <=> r < p
    <3>1. \A r \in Shown : r \in Nat /\ r # p
      BY <1>1, <1>3
    <3> QED  BY <1>1, <3>1
  <2>1. B(p + 1) = B(p)
    BY <2>0
  <2> QED  BY <1>3, <2>1 DEF Before
<1> QED  BY <1>2, <1>3

\* The instructions of ShownProgram are those of Main that it shows, in their order.
LEMMA ShownAt ==
  ASSUME NEW p \in Shown
  PROVE  /\ Before(p) + 1 \in 1..Len(ShownProgram)
         /\ ShownProgram[Before(p) + 1] = Main[p]
<1> DEFINE B(q) == {r \in Shown : r < q}
<1>1. Shown \subseteq Nat /\ IsFiniteSet(Shown) /\ Cardinality(Shown) \in Nat
  BY ProgramIs, ShownFinite DEF Shown
<1>2. \A q \in Shown : Cardinality(B(q) \cup {q}) = Before(q) + 1 /\ Before(q) \in Nat
  <2> SUFFICES ASSUME NEW q \in Shown
               PROVE  Cardinality(B(q) \cup {q}) = Before(q) + 1 /\ Before(q) \in Nat
    OBVIOUS
  <2>1. q \notin B(q) /\ IsFiniteSet(B(q))
    BY <1>1, ShownFinite
  <2> QED  BY <2>1, ShownFinite, FS_AddElement DEF Before
<1>3. \A q, r \in Shown : q < r => Before(q) < Before(r)
  <2> SUFFICES ASSUME NEW q \in Shown, NEW r \in Shown, q < r PROVE Before(q) < Before(r)
    OBVIOUS
  <2>1. B(q) \cup {q} \subseteq B(r)
    <3>1. q \in Nat /\ r \in Nat /\ \A o \in Shown : o \in Nat
      BY <1>1
    <3>2. \A o \in Shown : o < q => o < r
      BY <3>1
    <3> QED  BY <3>2
  <2>2. Cardinality(B(q) \cup {q}) <= Cardinality(B(r))
    BY <2>1, ShownFinite, FS_Subset
  <2>3. Before(q) + 1 <= Before(r) /\ Before(q) \in Nat /\ Before(r) \in Nat
    BY <1>2, <2>2 DEF Before
  <2> QED  BY <2>3
<1>4. Before(p) + 1 \in 1..Cardinality(Shown)
  <2>1. B(p) \cup {p} \subseteq Shown
    OBVIOUS
  <2>2. Cardinality(B(p) \cup {p}) <= Cardinality(Shown)
    BY <1>1, <2>1, FS_Subset
  <2> QED  BY <1>1, <1>2, <2>2
<1>5. Len(ShownProgram) = Cardinality(Shown)
  BY <1>1 DEF ShownProgram
<1>6. \A q \in Shown : Before(q) + 1 = Before(p) + 1 => q = p
  <2> SUFFICES ASSUME NEW q \in Shown, Before(q) + 1 = Before(p) + 1, q # p PROVE FALSE
    OBVIOUS
  <2>1. Before(q) \in Nat /\ Before(p) \in Nat /\ p \in Nat /\ q \in Nat
    BY <1>1, <1>2
  <2>2. CASE q < p
    BY <1>3, <2>1, <2>2
  <2>3. CASE p < q
    BY <1>3, <2>1, <2>3
  <2> QED  BY <2>1, <2>2, <2>3
<1>7. (CHOOSE q \in Shown : Before(q) + 1 = Before(p) + 1) = p
  BY <1>6
<1> QED  BY <1>4, <1>5, <1>7 DEF ShownProgram
-----------------------------------------------------------------------------
(* Trap implements Ticking.                                                *)

\* The mapping of the refinement.
TheAt == Before(pc) + 1
TheIntr == IF mode = "code" THEN sst.SIE ELSE TRUE
Passed == (ticks + Word - Interrupted.start) % Word
TheLeft == IF Waiting /\ ~ WaitOver THEN Main[pc].n - Passed ELSE 0

LEMMA Wrap ==
  ASSUME NEW t \in 0..(Word - 1), NEW s \in 0..(Word - 1)
  PROVE  /\ (t + Word - s) % Word = IF t >= s THEN t - s ELSE t + Word - s
         /\ (t + 1) % Word = IF t + 1 = Word THEN 0 ELSE t + 1
<1>1. Word \in Nat /\ Word > 0
  BY ConstantFacts
<1>2. (t + 1) % Word = IF t + 1 = Word THEN 0 ELSE t + 1
  BY <1>1
<1>3. CASE t >= s
  <2> DEFINE d == t - s
  <2>1. d \in 0..(Word - 1) /\ t + Word - s = d + Word
    BY <1>1, <1>3
  <2> HIDE DEF d
  <2>2. (d + Word) % Word = d
    BY <1>1, <2>1
  <2> QED  BY <1>2, <1>3, <2>1, <2>2 DEF d
<1>4. CASE ~ (t >= s)
  BY <1>1, <1>2, <1>4
<1> QED  BY <1>3, <1>4

\* One tick more has passed since s, until the count would wrap.
LEMMA PassedTick ==
  ASSUME NEW t \in 0..(Word - 1), NEW s \in 0..(Word - 1),
         (t + Word - s) % Word < Word - 1
  PROVE  (((t + 1) % Word) + Word - s) % Word = ((t + Word - s) % Word) + 1
<1>1. Word \in Nat /\ Word > 0
  BY ConstantFacts
<1>2. (t + 1) % Word \in 0..(Word - 1)
  BY <1>1
<1>3. (((t + 1) % Word) + Word - s) % Word =
        IF (t + 1) % Word >= s THEN ((t + 1) % Word) - s ELSE ((t + 1) % Word) + Word - s
  BY <1>2, Wrap
<1>4. /\ (t + Word - s) % Word = IF t >= s THEN t - s ELSE t + Word - s
      /\ (t + 1) % Word = IF t + 1 = Word THEN 0 ELSE t + 1
  BY Wrap
<1> QED  BY <1>1, <1>3, <1>4

\* Registers hold ticks.
LEMMA PassedType ==
  ASSUME IInv
  PROVE  Passed \in 0..(Word - 1) /\ ticks \in 0..(Word - 1) /\ Interrupted.start \in 0..(Word - 1)
<1>1. Interrupted \in Register /\ ticks \in 0..(Word - 1)
  BY FrameFacts DEF IInv, TypeOK
<1>2. Interrupted.start \in 0..(Word - 1)
  BY <1>1 DEF Register
<1>3. ticks + Word - Interrupted.start \in Nat
  BY <1>1, <1>2, ConstantFacts
<1> QED  BY <1>1, <1>2, <1>3, Modulo DEF Passed

\* A step that changes neither where main is nor what it has seen stutters.
LEMMA Unseen ==
  ASSUME UNCHANGED <<pc, ticks>>, Interrupted' = Interrupted, TheIntr' = TheIntr, locked' = locked
  PROVE  UNCHANGED <<TheAt, TheIntr, locked, TheLeft>>
BY DEF TheAt, TheLeft, Passed, Waiting, WaitOver, Waited, Before, Shown

\* What an instruction does to the mapping, but for the beginning of a wait.
LEMMA RunMaps ==
  ASSUME IInv, NEW op, op # "start", Run(op)
  PROVE  /\ op # "wait" => TheLeft = 0
         /\ TheLeft' = 0
         /\ TheIntr = sst.SIE /\ TheIntr' = sst'.SIE
         /\ op \in {"rd", "poll"} => TheAt' = TheAt
         /\ op \notin {"rd", "poll"} =>
              /\ TheAt' = TheAt + 1 /\ TheAt <= Len(ShownProgram)
              /\ ShownProgram[TheAt].op = op
<1>1. /\ mode = "code" /\ mode' = "code" /\ pc \in 1..Len(Main)
      /\ Main[pc].op = op /\ pc' = pc + 1
  BY RunFacts
<1>2. ~ (pc + 1 <= Len(Main) /\ Main[pc + 1].op = "wait")
  BY <1>1, Steps
<1>3. TheLeft' = 0
  BY <1>1, <1>2 DEF TheLeft, Waiting
<1>4. op # "wait" => TheLeft = 0
  BY <1>1 DEF TheLeft, Waiting
<1>5. TheAt' = Before(pc + 1) + 1
  BY <1>1 DEF TheAt, Before, Shown
<1>6. pc \in Shown <=> op \notin {"rd", "poll"}
  BY <1>1 DEF Shown
<1>7. Before(pc + 1) = IF pc \in Shown THEN Before(pc) + 1 ELSE Before(pc)
  BY <1>1, BeforeNext
<1>8. op \notin {"rd", "poll"} =>
        /\ TheAt <= Len(ShownProgram)
        /\ ShownProgram[TheAt].op = op
  <2> SUFFICES ASSUME op \notin {"rd", "poll"}
               PROVE  TheAt <= Len(ShownProgram) /\ ShownProgram[TheAt].op = op
    OBVIOUS
  <2>1. TheAt \in 1..Len(ShownProgram) /\ ShownProgram[TheAt] = Main[pc]
    BY <1>6, ShownAt DEF TheAt
  <2>2. Len(ShownProgram) \in Nat
    BY ShownFinite DEF ShownProgram
  <2> QED  BY <1>1, <2>1, <2>2
<1> QED  BY <1>1, <1>3, <1>4, <1>5, <1>6, <1>7, <1>8 DEF TheIntr, TheAt

\* The beginning of a wait.
LEMMA StartMaps ==
  ASSUME IInv, StartWait
  PROVE  /\ TheIntr' = TheIntr /\ locked' = locked
         /\ TheAt' = TheAt + 1 /\ TheAt <= Len(ShownProgram)
         /\ ShownProgram[TheAt].op = "start"
         /\ TheLeft' = ShownProgram[TheAt + 1].n
<1>1. /\ mode = "code" /\ mode' = "code" /\ pc \in 1..Len(Main) /\ frames' = <<>>
      /\ Main[pc].op = "start" /\ pc' = pc + 1
      /\ UNCHANGED <<locked, stvec, sst, queue, ticks>> /\ reg' = [reg EXCEPT !.start = ticks]
  BY RunFacts DEF StartWait, Run
<1>2. pc + 1 \in 1..Len(Main) /\ Main[pc + 1].op = "wait"
  BY <1>1, Steps, ProgramIs
<1>3. pc \in Shown /\ pc + 1 \in Shown
  BY <1>1, <1>2 DEF Shown
<1>4. Before(pc + 1) = Before(pc) + 1
  BY <1>1, <1>3, BeforeNext
<1>5. /\ TheAt \in 1..Len(ShownProgram) /\ ShownProgram[TheAt] = Main[pc]
      /\ ShownProgram[TheAt + 1] = Main[pc + 1] /\ Len(ShownProgram) \in Nat
  <2>1. ShownProgram[Before(pc + 1) + 1] = Main[pc + 1]
    BY <1>3, ShownAt
  <2>2. Len(ShownProgram) \in Nat
    BY ShownFinite DEF ShownProgram
  <2> QED  BY <1>3, <1>4, <2>1, <2>2, ShownAt DEF TheAt
<1>6. TheAt' = TheAt + 1
  BY <1>1, <1>4 DEF TheAt, Before, Shown
<1>7. TheLeft' = Main[pc + 1].n
  <2>1. reg \in Register /\ ticks \in 0..(Word - 1)
    BY DEF IInv, TypeOK
  <2>2. Interrupted'.start = ticks
    BY <1>1, <2>1 DEF Interrupted, Register
  <2>3. (ticks + Word - ticks) % Word = 0
    BY <2>1, Wrap
  <2>4. Passed' = 0
    BY <1>1, <2>2, <2>3 DEF Passed
  <2>5. Main[pc + 1].n \in Nat
    BY <1>2, Places, ConstantFacts
  <2>6. Waiting'
    BY <1>1, <1>2, ProgramIs DEF Waiting
  <2>7. WaitOver' <=> 0 >= Main[pc + 1].n
    BY <1>1, <2>2, <2>3, <2>6 DEF WaitOver, Waited
  <2> QED  BY <1>1, <2>4, <2>5, <2>6, <2>7 DEF TheLeft
<1> QED  BY <1>1, <1>5, <1>6, <1>7 DEF TheIntr

\* A tick.
LEMMA ClockintrMaps ==
  ASSUME IInv, Clockintr
  PROVE  /\ TheIntr /\ ~ locked /\ UNCHANGED <<TheAt, TheIntr, locked>>
         /\ TheLeft' = IF TheLeft = 0 THEN 0 ELSE TheLeft - 1
<1>1. /\ mode = "clockintr" /\ mode' # "code" /\ InHandler /\ due /\ On(pc)
      /\ UNCHANGED <<pc, locked, frames>> /\ ticks' = (ticks + 1) % Word
  BY ConstantFacts DEF Clockintr, IInv, Pending, Trapped, InHandler, code
<1>2. ~ locked
  BY <1>1, ProgramIs DEF IInv, Place, On
<1>3. UNCHANGED <<TheAt, TheIntr, locked>> /\ TheIntr
  BY <1>1 DEF TheAt, TheIntr, Before, Shown
<1>4. Interrupted' = Interrupted
  <2>1. Len(frames) = 1
    BY <1>1, FrameFacts
  <2> QED  BY <1>1, <2>1 DEF Interrupted
<1>5. ~ WaitOver
  BY <1>1 DEF IInv, NotOver
<1>6. CASE ~ Waiting
  BY <1>1, <1>2, <1>3, <1>6 DEF TheLeft, Waiting
<1>7. CASE Waiting
  <2>1. pc \in 1..Len(Main) /\ Main[pc].n \in 0..(Word - 1)
    <3>1. pc \in 1..Len(Main)
      BY <1>7, ProgramIs DEF Waiting, IInv, TypeOK
    <3> QED  BY <3>1, Places
  <2>2. /\ Passed \in 0..(Word - 1) /\ ticks \in 0..(Word - 1)
        /\ Interrupted.start \in 0..(Word - 1)
    BY PassedType
  <2>3. Passed < Main[pc].n
    <3>1. ~ Waited(Interrupted.start, Main[pc].n)
      BY <1>5, <1>7 DEF WaitOver
    <3> QED  BY <2>1, <2>2, <3>1 DEF Waited, Passed
  <2>4. Passed' = Passed + 1
    <3>1. Passed < Word - 1
      BY <2>1, <2>2, <2>3, ConstantFacts
    <3>2. Passed' = (((ticks + 1) % Word) + Word - Interrupted.start) % Word
      BY <1>1, <1>4 DEF Passed
    <3> QED  BY <2>2, <3>1, <3>2, PassedTick DEF Passed
  <2>5. Waiting' /\ (WaitOver' <=> Passed' >= Main[pc].n)
    BY <1>1, <1>4, <1>7 DEF Waiting, WaitOver, Waited, Passed
  <2>6. TheLeft = Main[pc].n - Passed
    BY <1>5, <1>7 DEF TheLeft
  <2>7. TheLeft' = IF Passed' >= Main[pc].n THEN 0 ELSE Main[pc].n - Passed'
    BY <1>1, <2>5 DEF TheLeft
  <2> QED  BY <1>2, <1>3, <2>1, <2>2, <2>3, <2>4, <2>6, <2>7
<1> QED  BY <1>6, <1>7

\* The steps of the handler, the timer and the UART that main does not see.
LEMMA UnseenMaps ==
  ASSUME IInv,
         Interrupt \/ Kernelvec \/ ClockintrPoll \/ ClockintrPut \/ KerneltrapReturn \/ Sret
           \/ TimerExpires \/ Transmit \/ Idle \/ UNCHANGED vars
  PROVE  UNCHANGED <<TheAt, TheIntr, locked, TheLeft>>
<1>1. CASE Interrupt
  <2>1. mode = "code" /\ mode' # "code" /\ sst.SIE = TRUE
    BY <1>1 DEF IInv, TypeOK, Interrupt, Sstatus
  <2>2. UNCHANGED <<pc, ticks, locked>> /\ Interrupted' = Interrupted
    BY <1>1 DEF Interrupt, code, Interrupted
  <2> QED  BY <2>1, <2>2, Unseen DEF TheIntr
<1>2. CASE Kernelvec
  <2>1. frames = <<>> /\ Interrupted = reg
    BY <1>2, FrameFacts DEF Kernelvec, InHandler
  <2>2. frames' = <<[reg |-> reg, sepc |-> sepc, sst |-> sst]>>
    BY <1>2, <2>1, OneFrame DEF Kernelvec
  <2>3. Interrupted' = reg
    BY <2>2, OneFrame DEF Interrupted
  <2>4. mode # "code" /\ mode' # "code" /\ UNCHANGED <<pc, ticks, locked>>
    BY <1>2 DEF Kernelvec, code
  <2> QED  BY <2>1, <2>3, <2>4, Unseen DEF TheIntr
<1>3. CASE ClockintrPoll \/ ClockintrPut \/ KerneltrapReturn
  <2>1. /\ InHandler /\ UNCHANGED <<pc, ticks, locked, frames>>
        /\ mode # "code" /\ mode' # "code"
    BY <1>3 DEF ClockintrPoll, ClockintrPut, KerneltrapReturn, code, InHandler
  <2>2. Interrupted' = Interrupted
    BY <2>1, FrameFacts DEF Interrupted
  <2> QED  BY <2>1, <2>2, Unseen DEF TheIntr
<1>4. CASE Sret
  <2>1. InHandler /\ sst = TrapSst /\ sepc = [mode |-> "code", pc |-> pc]
    BY <1>4 DEF Sret, InHandler, IInv, Trapped
  <2>2. Tail(frames) = <<>> /\ Interrupted = Head(frames).reg
    BY <2>1, FrameFacts
  <2>3. /\ frames' = <<>> /\ reg' = Interrupted /\ UNCHANGED <<pc, ticks, locked>>
        /\ mode # "code" /\ mode' = "code" /\ sst'.SIE = TRUE
    BY <1>4, <2>1, <2>2 DEF Sret, TrapSst
  <2>4. Interrupted' = Interrupted
    BY <2>3 DEF Interrupted
  <2> QED  BY <2>3, <2>4, Unseen DEF TheIntr
<1>5. CASE TimerExpires \/ Transmit \/ Idle \/ UNCHANGED vars
  <2>1. UNCHANGED <<pc, ticks, locked, frames, reg, mode, sst>>
    BY <1>5 DEF TimerExpires, Transmit, Idle, code, trap, vars
  <2>2. Interrupted' = Interrupted /\ TheIntr' = TheIntr
    BY <2>1 DEF Interrupted, TheIntr
  <2> QED  BY <2>1, <2>2, Unseen
<1> QED  BY <1>1, <1>2, <1>3, <1>4, <1>5

LEMMA StepMaps ==
  ASSUME IInv, [Next]_vars
  PROVE  T!TNext \/ UNCHANGED <<TheAt, TheIntr, locked, TheLeft>>
<1> USE DEF T!TNext, T!Op
<1>1. CASE ReadSstatus \/ Poll
  <2>1. PICK op \in {"rd", "poll"} : Run(op) /\ UNCHANGED <<locked, sst>>
    BY <1>1 DEF ReadSstatus, Poll
  <2> QED  BY <2>1, RunMaps
<1>2. CASE WriteSstatus
  <2>1. PICK on \in BOOLEAN :
          Run(IF on THEN "on" ELSE "off") /\ sst' = [reg.sst EXCEPT !.SIE = on]
    BY <1>2 DEF WriteSstatus
  <2>2. locked' = locked /\ reg.sst \in Sstatus
    BY <1>2 DEF WriteSstatus, IInv, TypeOK, Register
  <2>3. sst'.SIE = on
    BY <2>1, <2>2 DEF Sstatus
  <2>4. /\ TheLeft = 0 /\ TheLeft' = 0 /\ TheIntr' = on
        /\ TheAt' = TheAt + 1 /\ TheAt <= Len(ShownProgram)
        /\ ShownProgram[TheAt].op = IF on THEN "on" ELSE "off"
    BY <2>1, <2>3, RunMaps
  <2>5. T!Op(IF on THEN "on" ELSE "off") /\ TheIntr' = on /\ UNCHANGED <<locked, TheLeft>>
    BY <2>2, <2>4 DEF TheAt
  <2> QED  BY <2>5 DEF TheIntr, TheLeft, Passed
<1>3. CASE AtomicXchg \/ Unlock \/ Trapinithart \/ Put
  <2>1. PICK op \in {"xchg", "clear", "stvec", "put"} :
          /\ Run(op) /\ sst' = sst /\ (op = "xchg" => ~ locked)
          /\ locked' = IF op = "xchg" THEN TRUE ELSE IF op = "clear" THEN FALSE ELSE locked
    BY <1>3 DEF AtomicXchg, Unlock, Trapinithart, Put
  <2>2. /\ TheLeft = 0 /\ TheLeft' = 0 /\ TheIntr' = TheIntr
        /\ TheAt' = TheAt + 1 /\ TheAt <= Len(ShownProgram) /\ ShownProgram[TheAt].op = op
    BY <2>1, RunMaps
  <2>3. T!Op(op) /\ UNCHANGED <<TheIntr, TheLeft>>
    BY <2>2 DEF TheAt
  <2> QED  BY <2>1, <2>3 DEF TheIntr, TheLeft, Passed
<1>4. CASE StartWait
  <2>1. T!Op("start") /\ TheLeft' = ShownProgram[TheAt + 1].n /\ UNCHANGED <<TheIntr, locked>>
    BY <1>4, StartMaps DEF TheAt
  <2> QED  BY <2>1 DEF TheAt, TheIntr, TheLeft, Passed
<1>5. CASE EndWait
  <2>1. Run("wait") /\ sst' = sst /\ locked' = locked
    BY <1>5 DEF EndWait
  <2>2. TheLeft = 0
    <3>1. Interrupted = reg
      BY <1>5, FrameFacts DEF EndWait, Run, InHandler
    <3>2. Waiting => WaitOver
      BY <1>5, <3>1 DEF EndWait, WaitOver
    <3> QED  BY <3>2 DEF TheLeft
  <2>3. T!Op("wait") /\ TheLeft = 0 /\ UNCHANGED <<TheIntr, locked, TheLeft>>
    BY <2>1, <2>2, RunMaps DEF TheAt
  <2> QED  BY <2>3 DEF TheIntr, TheLeft, Passed
<1>6. CASE Clockintr
  BY <1>6, ClockintrMaps DEF TheAt, TheIntr, TheLeft, Passed
<1>7. CASE \/ Interrupt \/ Kernelvec \/ ClockintrPoll \/ ClockintrPut \/ KerneltrapReturn \/ Sret
           \/ TimerExpires \/ Transmit \/ Idle \/ UNCHANGED vars
  BY <1>7, UnseenMaps
<1> QED  BY <1>1, <1>2, <1>3, <1>4, <1>5, <1>6, <1>7 DEF Next, Code, Handler

LEMMA InitMaps == Init => T!TInit
<1> SUFFICES ASSUME Init PROVE T!TInit
  OBVIOUS
<1>1. mode = "code" /\ pc = 1 /\ sst.SIE = FALSE /\ locked = FALSE
  BY DEF Init
<1>2. {q \in Shown : q < 1} = {} /\ Before(1) = 0
  <2>1. \A q \in Shown : ~ (q < 1)
    BY ProgramIs DEF Shown
  <2>2. {q \in Shown : q < 1} = {}
    BY <2>1
  <2> QED  BY <2>2, FS_EmptySet DEF Before
<1>3. ~ Waiting
  <2>1. 1 \in 1..Len(Main)
    BY ProgramIs
  <2> QED  BY <1>1, <2>1, Places, ProgramIs DEF Waiting
<1> QED  BY <1>1, <1>2, <1>3 DEF T!TInit

\* What main may assume of interrupts: intr_on, intr_off and uart_putc look
\* indivisible, no tick comes while a lock is held or interrupts are off, and a wait
\* for n ticks ends after n of them, also when the counter wraps.
THEOREM TrapImplementsTicking == Spec => ImplementsTicking
<1>1. Init => T!TInit
  BY InitMaps
<1>2. IInv /\ [Next]_vars => [T!TNext]_<<TheAt, TheIntr, locked, TheLeft>>
  BY StepMaps
<1>3. Spec => T!TInit /\ [][T!TNext]_<<TheAt, TheIntr, locked, TheLeft>>
  BY <1>1, <1>2, Inductive, PTL DEF Spec
<1> QED  BY <1>3 DEF ImplementsTicking, T!TSpec, TheAt, TheIntr, TheLeft, Passed
=============================================================================
