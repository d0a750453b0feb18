----------------------------- MODULE CallsProofs ----------------------------
(***************************************************************************)
(* The three parts of Calls for all values of their constants: the size of *)
(* a write transaction (WriteTxn), the system calls (Syscall), the         *)
(* consistency check (Fsck).                                               *)
(***************************************************************************)
EXTENDS Calls, FiniteSetTheorems, TLAPS
-----------------------------------------------------------------------------
(* Write transactions.                                                     *)

\* Each part runs as if it were alone.
LEMMA WriteRuns == CallsSpec => W!Spec
<1>1. CallsInit => W!Init
  BY DEF CallsInit
<1>2. [CallsNext]_<<part, syscall, write, fsck>> => [W!Next]_(W!vars)
  BY DEF CallsNext, write, W!vars
<1> QED  BY <1>1, <1>2, PTL DEF CallsSpec, W!Spec

LEMMA SyscallRuns == CallsSpec => Spec
<1>1. CallsInit => Init
  BY DEF CallsInit
<1>2. [CallsNext]_<<part, syscall, write, fsck>> => [Next]_vars
  BY DEF CallsNext, syscall
<1> QED  BY <1>1, <1>2, PTL DEF CallsSpec, Spec

\* The operators of FiniteSets are the same here and there.
LEMMA SameCardinality == \A S : W!Cardinality(S) = Cardinality(S)
BY DEF W!Cardinality, Cardinality

LEMMA Division ==
  ASSUME NEW b \in Nat \ {0}, NEW x \in Nat
  PROVE  /\ x \div b \in Nat /\ x % b \in 0..(b - 1)
         /\ x = b * (x \div b) + (x % b)
OBVIOUS

LEMMA QuotientAtLeast ==
  ASSUME NEW b \in Nat \ {0}, NEW x \in Nat, NEW l \in Nat, b * l <= x
  PROVE  l <= x \div b
OBVIOUS

LEMMA QuotientBelow ==
  ASSUME NEW b \in Nat \ {0}, NEW x \in Nat, NEW l \in Nat, x < b * l
  PROVE  x \div b < l
OBVIOUS

\* The data blocks from lo on that MAXOPBLOCKS blocks of data can lie in, wherever they
\* begin, and what describes them.
Region(lo) ==
  {W!Data(bn) : bn \in lo..(lo + MAXOPBLOCKS)}
    \cup {W!Meta("bitmap"), W!Meta("indirect"), W!Meta("inode")}

LEMMA RegionSize ==
  ASSUME W!WriteTxnAssumption, NEW lo \in Nat, NEW S \in SUBSET Region(lo)
  PROVE  Cardinality(S) \in Nat /\ Cardinality(S) <= MAXOPBLOCKS + 4
<1> DEFINE B == lo..(lo + MAXOPBLOCKS)
           D == {W!Data(bn) : bn \in B}
           M == {W!Meta("bitmap"), W!Meta("indirect"), W!Meta("inode")}
           f == [bn \in B |-> W!Data(bn)]
<1>1. MAXOPBLOCKS \in Nat
  BY DEF W!WriteTxnAssumption
<1>2. IsFiniteSet(B) /\ Cardinality(B) = MAXOPBLOCKS + 1
  BY <1>1, FS_Interval
<1>3. IsFiniteSet(D) /\ Cardinality(D) <= MAXOPBLOCKS + 1
  <2>1. f \in Surjection(B, D)
    BY DEF Surjection
  <2> QED  BY <1>2, <2>1, FS_Surjection
<1>4. IsFiniteSet(M) /\ Cardinality(M) <= 3
  <2> DEFINE M1 == {W!Meta("bitmap")}
             M2 == M1 \cup {W!Meta("indirect")}
  <2>1. IsFiniteSet(M1) /\ Cardinality(M1) = 1
    BY FS_Singleton
  <2>2. IsFiniteSet(M2) /\ Cardinality(M2) \in {1, 2}
    <3>1. /\ IsFiniteSet(M2)
          /\ Cardinality(M2) =
               IF W!Meta("indirect") \in M1 THEN Cardinality(M1) ELSE Cardinality(M1) + 1
      BY <2>1, FS_AddElement
    <3> QED  BY <2>1, <3>1
  <2>3. IsFiniteSet(M2 \cup {W!Meta("inode")}) /\ Cardinality(M2 \cup {W!Meta("inode")}) <= 3
    BY <2>2, FS_AddElement
  <2>4. M = M2 \cup {W!Meta("inode")}
    OBVIOUS
  <2> QED  BY <2>3, <2>4
<1>5. IsFiniteSet(D \cup M) /\ Cardinality(D \cup M) <= MAXOPBLOCKS + 4
  <2>1. /\ IsFiniteSet(D \cup M)
        /\ Cardinality(D \cup M) = Cardinality(D) + Cardinality(M) - Cardinality(D \cap M)
    BY <1>3, <1>4, FS_Union
  <2>2. Cardinality(D \cap M) \in Nat /\ Cardinality(D) \in Nat /\ Cardinality(M) \in Nat
    BY <1>3, <1>4, FS_Intersection, FS_CardinalityType
  <2> QED  BY <1>1, <1>3, <1>4, <2>1, <2>2
<1>6. Region(lo) = D \cup M
  BY DEF Region
<1>7. IsFiniteSet(S) /\ Cardinality(S) <= Cardinality(D \cup M)
  BY <1>5, <1>6, FS_Subset
<1>8. Cardinality(S) \in Nat /\ Cardinality(D \cup M) \in Nat
  BY <1>5, <1>7, FS_CardinalityType
<1> QED  BY <1>1, <1>5, <1>7, <1>8

\* The loop stays in a region, and everything that the transaction uses lies in it.
TxnInv ==
  /\ woff \in Nat /\ left \in Nat
  /\ \E lo \in Nat :
       /\ wpc = "write" => BSIZE * lo <= woff /\ woff + left <= BSIZE * (lo + MAXOPBLOCKS + 1)
       /\ wused \subseteq Region(lo) /\ logged \subseteq Region(lo)

LEMMA TxnKeeps ==
  ASSUME W!WriteTxnAssumption, TxnInv, [W!Next]_(W!vars)
  PROVE  TxnInv'
<1>0. /\ BSIZE \in Nat \ {0} /\ MAXOPBLOCKS \in Nat \ {0}
      /\ Offsets \subseteq Nat /\ Sizes \subseteq Nat
  BY DEF W!WriteTxnAssumption
<1>1. PICK lo \in Nat :
        /\ wpc = "write" => BSIZE * lo <= woff /\ woff + left <= BSIZE * (lo + MAXOPBLOCKS + 1)
        /\ wused \subseteq Region(lo) /\ logged \subseteq Region(lo)
  BY DEF TxnInv
<1>2. woff \in Nat /\ left \in Nat
  BY DEF TxnInv
<1>3. ASSUME NEW o \in Offsets, NEW n \in Sizes, NEW s \in Slack, W!Begin(o, n, s)
      PROVE  TxnInv'
  <2> DEFINE q == o \div BSIZE
  <2>1. o \in Nat /\ n \in Nat
    BY <1>0
  <2>2. woff' = o /\ left' = W!Chunk(n) /\ wused' = {} /\ logged' = {}
    BY <1>3 DEF W!Begin
  <2>3. W!Chunk(n) \in Nat /\ W!Chunk(n) <= MAXOPBLOCKS * BSIZE
    BY <1>0, <2>1 DEF W!Chunk
  <2>4. q \in Nat /\ BSIZE * q <= o /\ o < BSIZE * q + BSIZE
    <3>1. /\ q \in Nat /\ o % BSIZE \in 0..(BSIZE - 1)
          /\ o = BSIZE * q + (o % BSIZE)
      BY <1>0, <2>1, Division
    <3> HIDE DEF q
    <3>2. BSIZE * q \in Nat
      BY <1>0, <3>1
    <3> QED  BY <1>0, <2>1, <3>1, <3>2
  <2> HIDE DEF q
  <2>5. BSIZE * (q + MAXOPBLOCKS + 1) = BSIZE * q + MAXOPBLOCKS * BSIZE + BSIZE
    BY <1>0, <2>4
  <2>6. o + W!Chunk(n) <= BSIZE * (q + MAXOPBLOCKS + 1)
    <3>1. MAXOPBLOCKS * BSIZE \in Nat /\ BSIZE * q \in Nat
      BY <1>0, <2>4
    <3> QED  BY <1>0, <2>1, <2>3, <2>4, <2>5, <3>1
  <2> QED  BY <2>1, <2>2, <2>3, <2>4, <2>6 DEF TxnInv
<1>4. CASE W!Round
  <2> DEFINE bn == woff \div BSIZE
             room == BSIZE - (woff % BSIZE)
             m == IF room > left THEN left ELSE room
  <2>1. wpc = "write" /\ wpc' = "write" /\ left > 0
    BY <1>4 DEF W!Round
  <2>2. bn \in Nat /\ lo <= bn /\ bn < lo + MAXOPBLOCKS + 1
    <3>1. BSIZE * lo <= woff /\ woff < BSIZE * (lo + MAXOPBLOCKS + 1)
      <4>1. BSIZE * (lo + MAXOPBLOCKS + 1) \in Nat
        BY <1>0
      <4> QED  BY <1>1, <1>2, <2>1, <4>1
    <3>2. bn \in Nat
      BY <1>0, <1>2, Division
    <3>3. lo <= bn
      BY <1>0, <1>2, <3>1, QuotientAtLeast
    <3>4. bn < lo + MAXOPBLOCKS + 1
      <4>1. lo + MAXOPBLOCKS + 1 \in Nat
        BY <1>0
      <4> QED  BY <1>0, <1>2, <3>1, <4>1, QuotientBelow
    <3> QED  BY <3>2, <3>3, <3>4
  <2>3. m \in 1..left
    BY <1>0, <1>2, <2>1, Division
  <2>4. woff' = woff + m /\ left' = left - m
    BY <1>4 DEF W!Round
  <2>5. /\ wused' = wused \cup W!BmapReads(bn) \cup {W!Data(bn)}
        /\ logged' = logged \cup W!BmapWrites(bn) \cup {W!Data(bn)}
    BY <1>4 DEF W!Round
  <2> HIDE DEF bn, m
  <2>6. W!Data(bn) \in Region(lo)
    BY <1>0, <2>2 DEF Region
  <2>7. W!BmapReads(bn) \subseteq Region(lo) /\ W!BmapWrites(bn) \subseteq Region(lo)
    BY <2>6 DEF Region, W!BmapReads, W!BmapWrites
  <2>8. wused' \subseteq Region(lo) /\ logged' \subseteq Region(lo)
    BY <1>1, <2>5, <2>6, <2>7
  <2>9. /\ woff' \in Nat /\ left' \in Nat
        /\ BSIZE * lo <= woff' /\ woff' + left' <= BSIZE * (lo + MAXOPBLOCKS + 1)
    <3>1. BSIZE * (lo + MAXOPBLOCKS + 1) \in Nat /\ BSIZE * lo \in Nat
      BY <1>0
    <3> QED  BY <1>1, <1>2, <2>1, <2>3, <2>4, <3>1
  <2> QED  BY <2>8, <2>9 DEF TxnInv
<1>5. CASE W!Finish
  <2>1. W!Meta("inode") \in Region(lo)
    BY DEF Region
  <2>2. wused' \subseteq Region(lo) /\ logged' \subseteq Region(lo)
    BY <1>1, <1>5, <2>1 DEF W!Finish
  <2> QED  BY <1>2, <1>5, <2>2 DEF TxnInv, W!Finish
<1>6. CASE UNCHANGED W!vars
  BY <1>6 DEF TxnInv, W!vars
<1> QED  BY <1>3, <1>4, <1>5, <1>6 DEF W!Next

LEMMA TxnInductive == W!Spec => []TxnInv
<1>1. W!Init => TxnInv
  <2> SUFFICES ASSUME W!Init PROVE TxnInv
    OBVIOUS
  <2>1. wpc # "write" /\ woff \in Nat /\ left \in Nat /\ wused = {} /\ logged = {} /\ 0 \in Nat
    BY DEF W!Init
  <2> QED  BY <2>1 DEF TxnInv
<1>2. TxnInv /\ [W!Next]_(W!vars) => TxnInv'
  BY TxnKeeps, CallsAssumption
<1> QED  BY <1>1, <1>2, PTL DEF W!Spec

\* The log area has room for every transaction that filewrite makes if it has five
\* blocks more than MAXOPBLOCKS: a chunk touches one data block more than its size
\* says, and three blocks that describe the file.
THEOREM WriteFitsLog ==
  ASSUME MAXOPBLOCKS + 4 < LOGSIZE
  PROVE  CallsSpec => []LogHasRoom
<1>1. TxnInv => LogHasRoom
  <2> SUFFICES ASSUME TxnInv PROVE LogHasRoom
    OBVIOUS
  <2>1. MAXOPBLOCKS \in Nat /\ LOGSIZE \in Nat
    BY CallsAssumption DEF W!WriteTxnAssumption
  <2>2. PICK lo \in Nat : logged \subseteq Region(lo)
    BY DEF TxnInv
  <2>3. Cardinality(logged) \in Nat /\ Cardinality(logged) <= MAXOPBLOCKS + 4
    BY <2>2, RegionSize, CallsAssumption
  <2> QED  BY <2>1, <2>3, SameCardinality DEF LogHasRoom, W!LogHasRoom
<1> QED  BY <1>1, WriteRuns, TxnInductive, PTL

\* The block cache has room for the transaction and its copy in the log.
THEOREM WriteFitsCache ==
  ASSUME 2 * (MAXOPBLOCKS + 4) < NBUF
  PROVE  CallsSpec => []CacheHasRoom
<1>1. TxnInv => CacheHasRoom
  <2> SUFFICES ASSUME TxnInv PROVE CacheHasRoom
    OBVIOUS
  <2>1. MAXOPBLOCKS \in Nat /\ NBUF \in Nat
    BY CallsAssumption DEF W!WriteTxnAssumption
  <2>2. PICK lo \in Nat : wused \subseteq Region(lo)
    BY DEF TxnInv
  <2>3. Cardinality(wused) \in Nat /\ Cardinality(wused) <= MAXOPBLOCKS + 4
    BY <2>2, RegionSize, CallsAssumption
  <2> QED  BY <2>1, <2>3, SameCardinality DEF CacheHasRoom, W!CacheHasRoom
<1> QED  BY <1>1, WriteRuns, TxnInductive, PTL
-----------------------------------------------------------------------------
(* System calls: conversions of numbers.                                   *)

LEMMA Remainder ==
  ASSUME NEW b \in Nat \ {0}, NEW x \in Int, NEW q \in Int, NEW r \in 0..(b - 1), x = b * q + r
  PROVE  x % b = r
<1>1. x % b \in 0..(b - 1) /\ x \div b \in Int /\ x = b * (x \div b) + (x % b)
  OBVIOUS
<1> DEFINE p == x \div b
           s == x % b
<1>2. p \in Int /\ s \in 0..(b - 1) /\ b * p + s = b * q + r
  BY <1>1
<1> HIDE DEF p, s
<1>3. p = q
  <2>1. CASE p < q
    <3>1. b * (p + 1) <= b * q
      BY <1>2, <2>1
    <3>2. b * (p + 1) = b * p + b
      BY <1>2
    <3> QED  BY <1>2, <3>1, <3>2
  <2>2. CASE q < p
    <3>1. b * (q + 1) <= b * p
      BY <1>2, <2>2
    <3>2. b * (q + 1) = b * q + b
      OBVIOUS
    <3> QED  BY <1>2, <3>1, <3>2
  <2> QED  BY <1>2, <2>1, <2>2
<1> QED  BY <1>2, <1>3 DEF s

LEMMA Widths ==
  /\ UInt \in Nat \ {0} /\ INT_MAX \in Nat /\ INT_MAX >= 1 /\ UInt = 2 * INT_MAX + 2
  /\ ULong \in Nat \ {0} /\ \E k \in Nat : k >= 2 /\ ULong = UInt * k
  /\ ULong >= 2 * UInt
<1>1. UInt \in Nat /\ UInt > 2 /\ UInt % 2 = 0 /\ ULong \in Nat /\ ULong > UInt /\ ULong % UInt = 0
  BY SyscallAssumption
<1>2. INT_MAX \in Nat /\ INT_MAX >= 1 /\ UInt = 2 * INT_MAX + 2
  BY <1>1 DEF INT_MAX
<1> DEFINE k == ULong \div UInt
<1>3. k \in Nat /\ ULong = UInt * k
  BY <1>1, Division
<1> HIDE DEF k
<1>4. k >= 2
  <2>1. k # 0 /\ k # 1
    BY <1>1, <1>3
  <2> QED  BY <1>3, <2>1
<1>5. UInt * k >= UInt * 2
  BY <1>1, <1>3, <1>4
<1> QED  BY <1>1, <1>2, <1>3, <1>4, <1>5

IntRange == (-INT_MAX - 1)..INT_MAX

LEMMA AsIntIs ==
  ASSUME NEW w \in Nat
  PROVE  /\ AsInt(w) \in IntRange
         /\ w % UInt \in 0..(UInt - 1)
         /\ w % UInt = IF AsInt(w) < 0 THEN AsInt(w) + UInt ELSE AsInt(w)
<1>1. w % UInt \in 0..(UInt - 1)
  BY Widths, Division
<1> QED  BY <1>1, Widths DEF AsInt, IntRange

LEMMA IntRemainder ==
  ASSUME NEW x \in IntRange
  PROVE  x % UInt = IF x < 0 THEN x + UInt ELSE x
<1>1. x \in Int /\ UInt \in Nat \ {0} /\ x >= -INT_MAX - 1 /\ x <= INT_MAX /\ UInt = 2 * INT_MAX + 2 /\ INT_MAX \in Nat
  BY Widths DEF IntRange
<1>2. CASE x < 0
  <2>1. x + UInt \in 0..(UInt - 1) /\ x = UInt * (-1) + (x + UInt)
    BY <1>1, <1>2
  <2> QED  BY <1>1, <1>2, <2>1, Remainder
<1>3. CASE ~(x < 0)
  <2>1. x \in 0..(UInt - 1) /\ x = UInt * 0 + x
    BY <1>1, <1>3
  <2> QED  BY <1>1, <1>3, <2>1, Remainder
<1> QED  BY <1>2, <1>3

\* The result of a handler is the same number again when the caller takes the
\* register for an int.
LEMMA ExtendIs ==
  ASSUME NEW v \in IntRange
  PROVE  /\ Extend(v) \in 0..(ULong - 1)
         /\ Extend(v) = IF v < 0 THEN v + ULong ELSE v
         /\ AsInt(Extend(v)) = v
<1>1. v \in Int /\ UInt \in Nat \ {0} /\ v >= -INT_MAX - 1 /\ v <= INT_MAX /\ UInt = 2 * INT_MAX + 2
      /\ INT_MAX \in Nat /\ ULong \in Nat \ {0} /\ ULong >= 2 * UInt
  BY Widths DEF IntRange
<1>2. PICK k \in Nat : k >= 2 /\ ULong = UInt * k
  BY Widths
<1>3. CASE v < 0
  <2>1. v + ULong \in 0..(ULong - 1) /\ v = ULong * (-1) + (v + ULong)
    BY <1>1, <1>3
  <2>2. Extend(v) = v + ULong
    BY <1>1, <2>1, Remainder DEF Extend
  <2>3. v + UInt \in 0..(UInt - 1) /\ v + ULong = UInt * (k - 1) + (v + UInt) /\ k - 1 \in Int
    BY <1>1, <1>2, <1>3
  <2>4. (v + ULong) % UInt = v + UInt
    <3> DEFINE q == k - 1
               r == v + UInt
               y == v + ULong
    <3>1. q \in Int /\ r \in 0..(UInt - 1) /\ y \in Int /\ y = UInt * q + r
      BY <1>1, <2>3
    <3> HIDE DEF q, r, y
    <3>2. y % UInt = r
      BY <1>1, <3>1, Remainder
    <3> QED  BY <3>2 DEF y, r
  <2>5. v + UInt > INT_MAX
    BY <1>1
  <2> QED  BY <1>1, <1>3, <2>1, <2>2, <2>4, <2>5 DEF AsInt
<1>4. CASE ~(v < 0)
  <2>1. v \in 0..(ULong - 1) /\ v = ULong * 0 + v
    BY <1>1, <1>4
  <2>2. Extend(v) = v
    BY <1>1, <2>1, Remainder DEF Extend
  <2>3. v % UInt = v
    BY <1>4, IntRemainder
  <2> QED  BY <1>1, <1>4, <2>1, <2>2, <2>3 DEF AsInt
<1> QED  BY <1>3, <1>4

\* The distance from s to t on the clock.
LEMMA Distance ==
  ASSUME NEW t \in 0..(ULong - 1), NEW s \in 0..(ULong - 1)
  PROVE  /\ (t + ULong - s) % ULong \in 0..(ULong - 1)
         /\ t >= s => (t + ULong - s) % ULong = t - s
         /\ t < s => (t + ULong - s) % ULong = t + ULong - s
<1>1. ULong \in Nat \ {0} /\ t \in Int /\ s \in Int /\ t + ULong - s \in Int
  BY Widths
<1>2. t >= s => (t + ULong - s) % ULong = t - s
  <2> SUFFICES ASSUME t >= s PROVE (t + ULong - s) % ULong = t - s
    OBVIOUS
  <2>1. t - s \in 0..(ULong - 1) /\ t + ULong - s = ULong * 1 + (t - s)
    BY <1>1
  <2> QED  BY <1>1, <2>1, Remainder
<1>3. t < s => (t + ULong - s) % ULong = t + ULong - s
  <2> SUFFICES ASSUME t < s PROVE (t + ULong - s) % ULong = t + ULong - s
    OBVIOUS
  <2>1. t + ULong - s \in 0..(ULong - 1) /\ t + ULong - s = ULong * 0 + (t + ULong - s)
    BY <1>1
  <2> QED  BY <1>1, <2>1, Remainder
<1> QED  BY <1>1, <1>2, <1>3

\* The next tick is one further, unless the clock has gone around.
LEMMA TickOn ==
  ASSUME NEW t \in 0..(ULong - 1), NEW s \in 0..(ULong - 1)
  PROVE  /\ (t + 1) % ULong \in 0..(ULong - 1)
         /\ ((t + ULong - s) % ULong) + 1 < ULong =>
              (((t + 1) % ULong) + ULong - s) % ULong = ((t + ULong - s) % ULong) + 1
<1>1. ULong \in Nat \ {0} /\ t \in Int /\ s \in Int
  BY Widths
<1>2. CASE t + 1 < ULong
  <2>1. t + 1 \in 0..(ULong - 1) /\ t + 1 = ULong * 0 + (t + 1)
    BY <1>1, <1>2
  <2>2. (t + 1) % ULong = t + 1
    BY <1>1, <2>1, Remainder
  <2> DEFINE u == (t + 1) % ULong
             e == (t + ULong - s) % ULong
             f == (u + ULong - s) % ULong
  <2>3. u = t + 1 /\ u \in 0..(ULong - 1)
    BY <2>1, <2>2
  <2>4. (t >= s => e = t - s) /\ (t < s => e = t + ULong - s)
    BY Distance
  <2> HIDE DEF u
  <2>5. (u >= s => f = u - s) /\ (u < s => f = u + ULong - s)
    BY <2>3, Distance
  <2> HIDE DEF e, f
  <2>6. e + 1 < ULong => f = e + 1
    BY <1>1, <2>3, <2>4, <2>5
  <2> QED  BY <2>3, <2>6 DEF e, f, u
<1>3. CASE t = ULong - 1
  <2>1. 0 \in 0..(ULong - 1) /\ t + 1 = ULong * 1 + 0
    BY <1>1, <1>3
  <2>2. (t + 1) % ULong = 0
    BY <1>1, <2>1, Remainder
  <2>3. (t + ULong - s) % ULong = t - s
    BY <1>1, <1>3, Distance
  <2>4. CASE s = 0
    BY <1>1, <1>3, <2>2, <2>3, <2>4
  <2>5. CASE s > 0
    <3>1. (0 + ULong - s) % ULong = 0 + ULong - s
      BY <2>1, <2>5, Distance
    <3> QED  BY <1>1, <1>3, <2>2, <2>3, <3>1
  <2> QED  BY <1>1, <2>4, <2>5
<1> QED  BY <1>1, <1>2, <1>3
-----------------------------------------------------------------------------
(* System calls: what a call promises.                                     *)

LEMMA TableIs ==
  /\ DOMAIN Table = 1..6 /\ Len(Table) = 6
  /\ Table[1] = "getpid" /\ Table[2] = "uptime" /\ Table[3] = "pause"
  /\ Table[4] = "test_add" /\ Table[5] = "test_str" /\ Table[6] = "read"
BY DEF Table

LEMMA HandlerIs ==
  ASSUME NEW w \in Nat
  PROVE  LET h == Handler(w)
             n == AsInt(w)
         IN  \/ h = "getpid" /\ n = 1
             \/ h = "uptime" /\ n = 2
             \/ h = "pause" /\ n = 3
             \/ h = "test_add" /\ n = 4
             \/ h = "test_str" /\ n = 5
             \/ h = "read" /\ n = 6
             \/ h = "unknown" /\ n \notin 1..6
<1>1. AsInt(w) \in Int
  BY AsIntIs, Widths DEF IntRange
<1>2. AsInt(w) \in 1..6 => AsInt(w) \in {1, 2, 3, 4, 5, 6}
  BY <1>1
<1> QED  BY <1>2, TableIs DEF Handler

Handlers == {"getpid", "uptime", "pause", "test_add", "test_str", "read", "unknown"}

\* how long the pause of the call is to be
Limit == IF Argint("a0") < 0 THEN 0 ELSE Argint("a0")

\* A call under way has its frame, and a handler runs that the number asks for; in
\* sys_pause the clock is as far from start as ticks were counted.
UnderWay ==
  /\ pc # "idle" => frame = call.frame
  /\ pc \in Handlers => pc = Handler(frame.a7) /\ off = call.off
  /\ pc = "waiting" =>
       /\ Handler(frame.a7) = "pause"
       /\ waited = (ticks + ULong - start) % ULong /\ waited <= Limit

Typed ==
  /\ TypeOK
  /\ off \in 0..Size /\ call.off \in 0..Size /\ call.ticks \in 0..(ULong - 1)

CallInv == Typed /\ UnderWay /\ Results /\ ReadClips /\ PauseExact

LEMMA RegisterFacts ==
  ASSUME Typed
  PROVE  /\ frame.a0 \in 0..(ULong - 1) /\ frame.a1 \in 0..(ULong - 1)
         /\ frame.a2 \in 0..(ULong - 1) /\ frame.a7 \in 0..(ULong - 1)
         /\ \A a \in {"a0", "a1", "a2"} : Argint(a) \in IntRange
<1>1. /\ frame.a0 \in 0..(ULong - 1) /\ frame.a1 \in 0..(ULong - 1)
      /\ frame.a2 \in 0..(ULong - 1) /\ frame.a7 \in 0..(ULong - 1)
  BY DEF Typed, TypeOK, Registers
<1>2. frame.a0 \in Nat /\ frame.a1 \in Nat /\ frame.a2 \in Nat
  BY <1>1, Widths
<1>3. AsInt(frame.a0) \in IntRange /\ AsInt(frame.a1) \in IntRange /\ AsInt(frame.a2) \in IntRange
  BY <1>2, AsIntIs
<1> QED  BY <1>1, <1>3 DEF Argint

\* A handler ends with a result that the caller was promised.
LEMMA EndKeeps ==
  ASSUME CallInv, NEW name \in Handlers \cup {"waiting"}, NEW r \in 0..(ULong - 1), Ends(name, r),
         off' \in 0..Size, waited' \in Nat, start' = start,
         (Results /\ ReadClips /\ PauseExact)'
  PROVE  CallInv'
<1>1. /\ pc = name /\ ret' = r /\ pc' = "return" /\ cur' = cur /\ frame' = frame /\ pid' = pid
      /\ ticks' = ticks /\ call' = call
  BY DEF Ends
<1>2. pc # "idle"
  BY <1>1 DEF Handlers
<1>3. TypeOK /\ off' \in 0..INT_MAX
  BY Widths, SyscallAssumption DEF CallInv, Typed
<1>4. TypeOK'
  BY <1>1, <1>2, <1>3 DEF TypeOK
<1>5. Typed'
  BY <1>1, <1>4 DEF CallInv, Typed
<1>6. UnderWay'
  BY <1>1, <1>2 DEF CallInv, UnderWay, Handlers
<1> QED  BY <1>5, <1>6 DEF CallInv

LEMMA InitCallInv == Init => CallInv
<1> SUFFICES ASSUME Init PROVE CallInv
  OBVIOUS
<1>1. /\ cur = FALSE /\ pc = "idle" /\ ret = 0 /\ ticks = 0 /\ start = 0 /\ off = 0 /\ waited = 0
      /\ pid \in {0} \cup Pid /\ frame = NoFrame /\ call = NoCall
  BY DEF Init
<1>2. 0 \in 0..(ULong - 1) /\ 0 \in 0..INT_MAX /\ 0 \in 0..Size
  BY Widths, SyscallAssumption
<1>3. NoFrame \in Registers
  BY <1>2 DEF NoFrame, Registers
<1>4. call.frame = NoFrame /\ call.ticks = 0 /\ call.off = 0
  BY <1>1 DEF NoCall
<1>5. Typed
  BY <1>1, <1>2, <1>3, <1>4 DEF Typed, TypeOK
<1> QED  BY <1>1, <1>5 DEF CallInv, UnderWay, Results, ReadClips, PauseExact, Handlers

LEMMA CallKeeps ==
  ASSUME CallInv, NEW a7 \in Num, NEW a0 \in Word, NEW a1 \in Word, NEW a2 \in Word,
         Call(a7, a0, a1, a2)
  PROVE  CallInv'
<1>1. /\ frame' = [a0 |-> a0, a1 |-> a1, a2 |-> a2, a7 |-> a7]
      /\ cur' = TRUE /\ pc' = Handler(a7)
      /\ call' = [frame |-> frame', ticks |-> ticks, off |-> off]
      /\ ret' = ret /\ pid' = pid /\ ticks' = ticks /\ start' = start /\ off' = off /\ waited' = waited
  BY DEF Call
<1>2. frame' \in Registers
  BY <1>1, SyscallAssumption DEF Registers
<1>3. a7 \in Nat
  BY SyscallAssumption, Widths
<1>4. Handler(a7) \in Handlers
  BY <1>3, HandlerIs DEF Handlers
<1>5. \A h \in Handlers : h \in {"idle", "waiting", "return", "unknown"} \cup {Table[n] : n \in DOMAIN Table}
                           /\ h # "idle" /\ h # "waiting" /\ h # "return"
  BY TableIs DEF Handlers
<1>6. TypeOK'
  BY <1>1, <1>2, <1>4, <1>5 DEF CallInv, Typed, TypeOK
<1>7. Typed'
  <2>1. ticks \in 0..(ULong - 1)
    BY DEF CallInv, Typed, TypeOK
  <2> QED  BY <1>1, <1>6, <2>1 DEF CallInv, Typed
<1>8. UnderWay'
  BY <1>1, <1>4, <1>5 DEF UnderWay
<1> QED  BY <1>1, <1>4, <1>5, <1>7, <1>8 DEF CallInv, Results, ReadClips, PauseExact

\* The handlers that look at nothing but their arguments.
LEMMA SimpleHandlers ==
  ASSUME CallInv, SysGetpid \/ SysUptime \/ SysTestAdd \/ SysTestStr \/ Unknown
  PROVE  CallInv'
<1>0. /\ frame.a7 \in Nat /\ frame.a0 \in 0..(ULong - 1)
      /\ Argint("a0") \in IntRange /\ Argint("a1") \in IntRange
      /\ off \in 0..Size /\ waited \in Nat /\ ticks \in 0..(ULong - 1)
  BY RegisterFacts, Widths DEF CallInv, Typed, TypeOK
<1> DEFINE num == AsInt(call.frame.a7)
<1>1. CASE SysGetpid
  <2>1. pc = "getpid" /\ Ends("getpid", Extend(pid)) /\ off' = off /\ waited' = waited /\ start' = start
    BY <1>1 DEF SysGetpid, Ends
  <2>2. num = 1 /\ call' = call /\ pid' = pid /\ ret' = Extend(pid) /\ pc' = "return"
    BY <1>0, <2>1, HandlerIs DEF CallInv, UnderWay, Handlers, Ends
  <2>3. pid \in IntRange /\ ~(pid < 0)
    BY SyscallAssumption, Widths DEF CallInv, Typed, TypeOK, IntRange
  <2>4. Extend(pid) = pid /\ Extend(pid) \in 0..(ULong - 1)
    BY <2>3, ExtendIs
  <2>5. (Results /\ ReadClips /\ PauseExact)'
    BY <2>2, <2>4, TableIs DEF Results, ReadClips, PauseExact
  <2> QED  BY <1>0, <2>1, <2>4, <2>5, EndKeeps DEF Handlers
<1>2. CASE SysUptime
  <2>1. pc = "uptime" /\ Ends("uptime", ticks) /\ off' = off /\ waited' = waited /\ start' = start
    BY <1>2 DEF SysUptime, Ends
  <2>2. num = 2 /\ call' = call /\ ticks' = ticks /\ ret' = ticks /\ pc' = "return"
    BY <1>0, <2>1, HandlerIs DEF CallInv, UnderWay, Handlers, Ends
  <2>3. (ticks + ULong - call.ticks) % ULong \in Int
    BY <1>0, Distance, Widths DEF CallInv, Typed
  <2>4. (Results /\ ReadClips /\ PauseExact)'
    BY <2>2, <2>3, TableIs DEF Results, ReadClips, PauseExact
  <2> QED  BY <1>0, <2>1, <2>4, EndKeeps DEF Handlers
<1>3. CASE SysTestAdd
  <2> DEFINE sum == Argint("a0") + Argint("a1")
  <2>1. PICK r \in IntRange :
          /\ Ends("test_add", Extend(r))
          /\ sum \in IntRange => r = sum
    <3>1. CASE sum \in (-INT_MAX - 1)..INT_MAX
      BY <1>3, <3>1 DEF SysTestAdd, IntRange
    <3>2. CASE sum \notin (-INT_MAX - 1)..INT_MAX
      <4>1. PICK any \in 0..(UInt - 1) : Ends("test_add", Extend(AsInt(any)))
        BY <1>3, <3>2 DEF SysTestAdd
      <4>2. AsInt(any) \in IntRange
        BY AsIntIs, Widths
      <4> QED  BY <3>2, <4>1, <4>2 DEF IntRange
    <3> QED  BY <3>1, <3>2
  <2>2. pc = "test_add" /\ off' = off /\ waited' = waited /\ start' = start
        /\ ret' = Extend(r) /\ call' = call /\ pc' = "return"
    BY <1>3, <2>1 DEF SysTestAdd, Ends
  <2>3. num = 4 /\ frame = call.frame
    BY <1>0, <2>2, HandlerIs DEF CallInv, UnderWay, Handlers
  <2>4. Extend(r) \in 0..(ULong - 1)
    BY ExtendIs
  <2>5. sum = AsInt(call.frame.a0) + AsInt(call.frame.a1)
    BY <2>3 DEF Argint
  <2>6. (Results /\ ReadClips /\ PauseExact)'
    BY <2>1, <2>2, <2>3, <2>5, TableIs DEF Results, ReadClips, PauseExact, Extend, IntRange
  <2> QED  BY <1>0, <2>1, <2>2, <2>4, <2>6, EndKeeps DEF Handlers
<1>4. CASE SysTestStr
  <2> DEFINE r == Argstr(frame.a0, Max)
  <2>1. /\ pc = "test_str" /\ Ends("test_str", Extend(r)) /\ off' = off /\ waited' = waited /\ start' = start
        /\ ret' = Extend(r) /\ call' = call /\ pc' = "return"
    BY <1>4 DEF SysTestStr, Ends
  <2>2. num = 5 /\ frame = call.frame
    BY <1>0, <2>1, HandlerIs DEF CallInv, UnderWay, Handlers
  <2>3. StrLen(frame.a0) \in Nat /\ Max \in 1..INT_MAX /\ INT_MAX \in Nat /\ INT_MAX >= 1
    BY <1>0, SyscallAssumption, Widths
  <2>4. /\ r \in IntRange
        /\ frame.a0 = 0 => r = -1
        /\ frame.a0 # 0 => r >= 0 /\ r <= Max - 1 /\ r <= StrLen(frame.a0)
    BY <1>0, <2>3 DEF Argstr, IntRange
  <2> HIDE DEF r
  <2>5. Extend(r) \in 0..(ULong - 1) /\ Extend(r) = IF r < 0 THEN r + ULong ELSE r
    BY <2>4, ExtendIs
  <2>6. /\ frame.a0 = 0 => Extend(r) = ULong - 1
        /\ frame.a0 # 0 => Extend(r) <= Max - 1 /\ Extend(r) <= StrLen(frame.a0)
    BY <2>3, <2>4, <2>5, Widths DEF IntRange
  <2>7. (Results /\ ReadClips /\ PauseExact)'
    BY <2>1, <2>2, <2>6, TableIs DEF Results, ReadClips, PauseExact
  <2> QED  BY <1>0, <2>1, <2>5, <2>7, EndKeeps DEF Handlers
<1>5. CASE Unknown
  <2>1. /\ pc = "unknown" /\ Ends("unknown", Extend(-1)) /\ off' = off /\ waited' = waited /\ start' = start
        /\ ret' = Extend(-1) /\ call' = call /\ pc' = "return"
    BY <1>5 DEF Unknown, Ends
  <2>2. num \notin 1..6
    BY <1>0, <2>1, HandlerIs DEF CallInv, UnderWay, Handlers
  <2>3. -1 \in IntRange
    BY Widths DEF IntRange
  <2>4. Extend(-1) = ULong - 1 /\ Extend(-1) \in 0..(ULong - 1)
    BY <2>3, ExtendIs, Widths
  <2>5. (Results /\ ReadClips /\ PauseExact)'
    BY <2>1, <2>2, <2>4, TableIs DEF Results, ReadClips, PauseExact
  <2> QED  BY <1>0, <2>1, <2>4, <2>5, EndKeeps DEF Handlers
<1> QED  BY <1>1, <1>2, <1>3, <1>4, <1>5
\* sys_pause begins to wait, goes on and ends.
LEMMA PauseFacts ==
  ASSUME CallInv
  PROVE  /\ Limit \in 0..INT_MAX /\ Argint("a0") \in IntRange
         /\ PauseOver <=> (ticks + ULong - start) % ULong >= Limit
         /\ ticks \in 0..(ULong - 1) /\ start \in 0..(ULong - 1) /\ waited \in Nat
         /\ (ticks + ULong - start) % ULong \in 0..(ULong - 1)
<1>1. Argint("a0") \in IntRange
  BY RegisterFacts DEF CallInv
<1>2. ticks \in 0..(ULong - 1) /\ start \in 0..(ULong - 1) /\ waited \in Nat
  BY DEF CallInv, Typed, TypeOK
<1> QED  BY <1>1, <1>2, Distance, Widths DEF Limit, IntRange, PauseOver

LEMMA SysPauseKeeps ==
  ASSUME CallInv, SysPause
  PROVE  CallInv'
<1>1. /\ pc = "pause" /\ pc' = "waiting" /\ start' = ticks /\ waited' = 0
      /\ cur' = cur /\ frame' = frame /\ ret' = ret /\ pid' = pid /\ ticks' = ticks
      /\ off' = off /\ call' = call
  BY DEF SysPause
<1>2. Limit' = Limit /\ Limit \in 0..INT_MAX
  BY <1>1, PauseFacts DEF Limit, Argint
<1>3. Handler(frame.a7) = "pause" /\ frame = call.frame
  BY <1>1 DEF CallInv, UnderWay, Handlers
<1>4. (ticks + ULong - ticks) % ULong = 0
  BY PauseFacts, Distance
<1>5. UnderWay'
  <2>1. 0 <= Limit /\ 0 = (ticks + ULong - ticks) % ULong
    BY <1>2, <1>4, Widths
  <2> QED  BY <1>1, <1>2, <1>3, <2>1 DEF UnderWay, Handlers
<1>6. TypeOK'
  BY <1>1, PauseFacts DEF CallInv, Typed, TypeOK
<1>7. Typed'
  BY <1>1, <1>6 DEF CallInv, Typed
<1> QED  BY <1>1, <1>5, <1>7 DEF CallInv, Results, ReadClips, PauseExact

LEMMA SysPauseEndsKeeps ==
  ASSUME CallInv, SysPauseEnds
  PROVE  CallInv'
<1> DEFINE num == AsInt(call.frame.a7)
<1>1. /\ pc = "waiting" /\ Ends("waiting", 0) /\ off' = off /\ waited' = waited /\ start' = start
      /\ ret' = 0 /\ call' = call /\ pc' = "return" /\ PauseOver
  BY DEF SysPauseEnds, Ends
<1>2. frame = call.frame /\ Handler(frame.a7) = "pause"
      /\ waited = (ticks + ULong - start) % ULong /\ waited <= Limit
  BY <1>1 DEF CallInv, UnderWay
<1>3. waited = Limit
  BY <1>1, <1>2, PauseFacts, Widths
<1>4. frame.a7 \in Nat
  BY RegisterFacts, Widths DEF CallInv
<1>5. num = 3
  BY <1>2, <1>4, HandlerIs
<1>6. (Results /\ ReadClips /\ PauseExact)'
  BY <1>1, <1>2, <1>3, <1>5, TableIs DEF Results, ReadClips, PauseExact, Limit, Argint
<1>7. 0 \in 0..(ULong - 1) /\ off \in 0..Size /\ waited \in Nat
  BY PauseFacts, Widths DEF CallInv, Typed
<1> QED  BY <1>1, <1>6, <1>7, EndKeeps

\* What readi makes of a count, also of a negative one.
LEMMA ReadiIs ==
  ASSUME NEW o \in 0..Size, NEW a \in IntRange
  PROVE  LET r == Readi(o, a % UInt)
         IN  /\ r \in 0..(Size - o)
             /\ a >= 0 => r = IF a < Size - o THEN a ELSE Size - o
             /\ a < 0 => r \in {0, Size - o}
<1>1. /\ UInt \in Nat \ {0} /\ INT_MAX \in Nat /\ UInt = 2 * INT_MAX + 2
      /\ Size \in 0..INT_MAX /\ a \in Int /\ a >= -INT_MAX - 1 /\ a <= INT_MAX
  BY Widths, SyscallAssumption DEF IntRange
<1>2. PICK n : n = a % UInt
  OBVIOUS
<1>3. n \in 0..(UInt - 1) /\ n = IF a < 0 THEN a + UInt ELSE a
  BY <1>1, <1>2, IntRemainder
<1>4. CASE o + n < UInt
  <2>1. o + n \in 0..(UInt - 1) /\ o + n = UInt * 0 + (o + n)
    BY <1>1, <1>3, <1>4
  <2>2. (o + n) % UInt = o + n
    BY <1>1, <2>1, Remainder
  <2>3. Readi(o, n) = IF o + n > Size THEN Size - o ELSE n
    BY <1>1, <1>3, <2>2 DEF Readi
  <2> QED  BY <1>1, <1>2, <1>3, <2>3
<1>5. CASE ~(o + n < UInt)
  <2>1. o + n - UInt \in 0..(UInt - 1) /\ o + n = UInt * 1 + (o + n - UInt)
    BY <1>1, <1>3, <1>5
  <2>2. (o + n) % UInt = o + n - UInt
    BY <1>1, <2>1, Remainder
  <2>3. Readi(o, n) = 0
    BY <1>1, <1>3, <2>2 DEF Readi
  <2> QED  BY <1>1, <1>2, <1>3, <1>5, <2>3
<1> QED  BY <1>4, <1>5

LEMMA SysReadKeeps ==
  ASSUME CallInv, SysRead
  PROVE  CallInv'
<1> DEFINE num == AsInt(call.frame.a7)
<1>1. PICK n : n = Readi(off, Argint("a2") % UInt)
  OBVIOUS
<1>2. PICK r : r = AsInt(n)
  OBVIOUS
<1>3. /\ pc = "read" /\ Ends("read", Extend(r)) /\ off' = (IF r > 0 THEN off + r ELSE off)
      /\ waited' = waited /\ start' = start /\ ret' = Extend(r) /\ call' = call /\ pc' = "return"
  BY <1>1, <1>2 DEF SysRead, Ends
<1>4. frame.a7 \in Nat /\ Argint("a2") \in IntRange /\ off \in 0..Size /\ waited \in Nat
  BY RegisterFacts, Widths DEF CallInv, Typed, TypeOK
<1>5. num = 6 /\ frame = call.frame /\ off = call.off
  BY <1>3, <1>4, HandlerIs DEF CallInv, UnderWay, Handlers
<1>6. /\ n \in 0..(Size - off)
      /\ Argint("a2") >= 0 => n = IF Argint("a2") < Size - off THEN Argint("a2") ELSE Size - off
      /\ Argint("a2") < 0 => n \in {0, Size - off}
  BY <1>1, <1>4, ReadiIs
<1>7. n \in IntRange /\ n \in 0..INT_MAX
  BY <1>4, <1>6, Widths, SyscallAssumption DEF IntRange
<1>8. r = n
  <2>1. n % UInt = n
    BY <1>7, IntRemainder, Widths
  <2> QED  BY <1>2, <1>7, <2>1, Widths DEF AsInt
<1>9. Extend(r) \in 0..(ULong - 1) /\ AsInt(Extend(r)) = r
  BY <1>7, <1>8, ExtendIs
<1>10. off' = off + r /\ off' \in 0..Size
  BY <1>3, <1>4, <1>6, <1>8, SyscallAssumption, Widths
<1>11. Argint("a2") = AsInt(call.frame.a2)
  BY <1>5 DEF Argint
<1>12. ReadClips'
  BY <1>3, <1>5, <1>6, <1>8, <1>9, <1>10, <1>11 DEF ReadClips
<1>13. (Results /\ PauseExact)'
  BY <1>3, <1>5, TableIs DEF Results, PauseExact
<1> QED  BY <1>3, <1>4, <1>9, <1>10, <1>12, <1>13, EndKeeps DEF Handlers

LEMMA ReturnKeeps ==
  ASSUME CallInv, Return
  PROVE  CallInv'
<1>1. /\ frame' = NoFrame /\ cur' = FALSE /\ pc' = "idle" /\ ret' = 0 /\ start' = 0 /\ waited' = 0
      /\ call' = NoCall /\ pid' = pid /\ ticks' = ticks /\ off' = off
  BY DEF Return
<1>2. 0 \in 0..(ULong - 1) /\ 0 \in 0..INT_MAX /\ 0 \in 0..Size
  BY Widths, SyscallAssumption
<1>3. NoFrame \in Registers
  BY <1>2 DEF NoFrame, Registers
<1>4. call'.frame = NoFrame /\ call'.ticks = 0 /\ call'.off = 0
  BY <1>1 DEF NoCall
<1>5. TypeOK'
  BY <1>1, <1>2, <1>3, <1>4 DEF CallInv, Typed, TypeOK
<1>6. Typed'
  BY <1>1, <1>2, <1>4, <1>5 DEF CallInv, Typed
<1> QED  BY <1>1, <1>6 DEF CallInv, UnderWay, Results, ReadClips, PauseExact, Handlers

LEMMA TickKeeps ==
  ASSUME CallInv, Tick
  PROVE  CallInv'
<1>1. /\ pc \in {"idle", "uptime", "waiting"} /\ (pc = "waiting" => ~PauseOver)
      /\ ticks' = (ticks + 1) % ULong /\ waited' = (IF pc = "waiting" THEN waited + 1 ELSE waited)
      /\ cur' = cur /\ frame' = frame /\ pc' = pc /\ ret' = ret /\ pid' = pid /\ start' = start
      /\ off' = off /\ call' = call
  BY DEF Tick
<1>2. /\ ticks \in 0..(ULong - 1) /\ start \in 0..(ULong - 1) /\ waited \in Nat
      /\ Limit \in 0..INT_MAX
      /\ PauseOver <=> (ticks + ULong - start) % ULong >= Limit
      /\ (ticks + ULong - start) % ULong \in 0..(ULong - 1)
  BY PauseFacts
<1>3. Limit' = Limit
  BY <1>1 DEF Limit, Argint
<1>4. ticks' \in 0..(ULong - 1) /\ waited' \in Nat
  BY <1>1, <1>2, TickOn
<1>5. TypeOK'
  BY <1>1, <1>4 DEF CallInv, Typed, TypeOK
<1>6. Typed'
  BY <1>1, <1>5 DEF CallInv, Typed
<1>7. UnderWay'
  <2>1. CASE pc = "waiting"
    <3>1. waited = (ticks + ULong - start) % ULong /\ Handler(frame.a7) = "pause" /\ frame = call.frame
      BY <2>1 DEF CallInv, UnderWay
    <3>2. waited < Limit /\ waited + 1 < ULong
      BY <1>1, <1>2, <2>1, <3>1, Widths
    <3>3. (ticks' + ULong - start) % ULong = waited + 1
      BY <1>1, <1>2, <3>1, <3>2, TickOn
    <3>4. waited' = (ticks' + ULong - start') % ULong /\ waited' <= Limit'
      BY <1>1, <1>2, <1>3, <2>1, <3>2, <3>3, Widths
    <3> QED  BY <1>1, <2>1, <3>1, <3>4 DEF UnderWay, Handlers
  <2>2. CASE pc # "waiting"
    BY <1>1, <2>2 DEF CallInv, UnderWay
  <2> QED  BY <2>1, <2>2
<1> QED  BY <1>1, <1>6, <1>7 DEF CallInv, Results, ReadClips, PauseExact

LEMMA ReopenKeeps ==
  ASSUME CallInv, Reopen
  PROVE  CallInv'
<1>1. /\ pc = "idle" /\ off' = 0 /\ pid' \in {0} \cup Pid
      /\ cur' = cur /\ frame' = frame /\ pc' = pc /\ ret' = ret /\ ticks' = ticks /\ start' = start
      /\ call' = call /\ waited' = waited
  BY DEF Reopen
<1>2. 0 \in 0..INT_MAX /\ 0 \in 0..Size
  BY Widths, SyscallAssumption
<1>3. Typed'
  BY <1>1, <1>2 DEF CallInv, Typed, TypeOK
<1> QED  BY <1>1, <1>3 DEF CallInv, UnderWay, Results, ReadClips, PauseExact, Handlers

LEMMA CallInvInductive == CallInv /\ [Next]_vars => CallInv'
<1> SUFFICES ASSUME CallInv, [Next]_vars PROVE CallInv'
  OBVIOUS
<1>1. ASSUME NEW a7 \in Num, NEW a0 \in Word, NEW a1 \in Word, Call(a7, a0, a1, a1) PROVE CallInv'
  BY <1>1, CallKeeps
<1>2. CASE SysGetpid \/ SysUptime \/ SysTestAdd \/ SysTestStr \/ Unknown
  BY <1>2, SimpleHandlers
<1>3. CASE SysPause
  BY <1>3, SysPauseKeeps
<1>4. CASE SysPauseEnds
  BY <1>4, SysPauseEndsKeeps
<1>5. CASE SysRead
  BY <1>5, SysReadKeeps
<1>6. CASE Return
  BY <1>6, ReturnKeeps
<1>7. CASE Tick
  BY <1>7, TickKeeps
<1>8. CASE Reopen
  BY <1>8, ReopenKeeps
<1>9. CASE UNCHANGED vars
  <2>1. Typed'
    BY <1>9 DEF CallInv, Typed, TypeOK, vars
  <2>2. Limit' = Limit
    BY <1>9 DEF Limit, Argint, vars
  <2>3. UnderWay'
    BY <1>9, <2>2 DEF CallInv, UnderWay, vars
  <2> QED  BY <1>9, <2>1, <2>3 DEF CallInv, Results, ReadClips, PauseExact, vars
<1> QED  BY <1>1, <1>2, <1>3, <1>4, <1>5, <1>6, <1>7, <1>8, <1>9 DEF Next

\* Every system call gives its caller the number that it promises, for all widths of
\* int and register, arguments and lengths of strings and files: a sum is right unless
\* C leaves it undefined, read never goes behind the end of the file, no string is
\* longer than its buffer, and a frame is there during a call and only then.
THEOREM CallsKeepTheirWord == CallsSpec => []CallsRight
<1>1. CallInv => CallsRight
  BY DEF CallInv, Typed, CallsRight
<1> QED  BY <1>1, SyscallRuns, InitCallInv, CallInvInductive, PTL DEF Spec

\* pause counts the ticks that it was told to wait, wherever the counter of ticks is
\* when it begins, and not one more.
THEOREM PauseCountsTicks == CallsSpec => []PauseExact
<1>1. CallInv => PauseExact
  BY DEF CallInv
<1> QED  BY <1>1, SyscallRuns, InitCallInv, CallInvInductive, PTL DEF Spec
-----------------------------------------------------------------------------
(* The consistency check.                                                  *)

LEMMA FsckNumbers ==
  ASSUME F!FsckAssumption
  PROVE  /\ NINODES \in Nat \ {0} /\ NDirect \in Nat \ {0} /\ NIndirect \in Nat \ {0}
         /\ FSSIZE \in Nat /\ F!DATASTART \in Nat /\ BMAPSTART \in Nat \ {0}
         /\ BMAPSTART <= F!DATASTART /\ F!DATASTART < FSSIZE
         /\ Direct \subseteq Nat /\ Indirect \subseteq Nat /\ Entry \subseteq Nat
<1>1. /\ FSSIZE \in Nat \ {0} /\ BPB \in Nat \ {0} /\ BMAPSTART \in Nat \ {0}
      /\ NINODES \in Nat \ {0} /\ NDirect \in Nat \ {0} /\ NIndirect \in Nat \ {0}
      /\ F!DATASTART < FSSIZE
      /\ Direct \subseteq Nat /\ Indirect \subseteq Nat /\ Entry \subseteq Nat
  BY DEF F!FsckAssumption
<1>2. F!NBITMAP \in Nat
  <2>1. FSSIZE + BPB - 1 \in Nat
    BY <1>1
  <2> QED  BY <1>1, <2>1, Division DEF F!NBITMAP
<1> QED  BY <1>1, <1>2 DEF F!DATASTART

\* Inode blocks, bitmap blocks and data blocks follow each other on the disk.
LEMMA FsckBlocks ==
  ASSUME F!FsckAssumption
  PROVE  /\ \A n \in F!Inum : F!IBLOCK(n) \in Nat /\ F!IBLOCK(n) < BMAPSTART
         /\ \A a \in F!Data : F!BBLOCK(a) \in Nat /\ BMAPSTART <= F!BBLOCK(a)
                                /\ F!BBLOCK(a) < F!DATASTART
<1>1. /\ FSSIZE \in Nat \ {0} /\ BPB \in Nat \ {0} /\ BMAPSTART \in Nat \ {0}
      /\ NINODES \in Nat \ {0} /\ IPB \in Nat \ {0} /\ INODESTART \in Nat
      /\ (NINODES - 1) \div IPB + INODESTART < BMAPSTART
  BY DEF F!FsckAssumption
<1>2. ASSUME NEW n \in F!Inum PROVE F!IBLOCK(n) \in Nat /\ F!IBLOCK(n) < BMAPSTART
  <2> DEFINE q == n \div IPB
             z == NINODES - 1
             e == z \div IPB
  <2>1. n \in Nat /\ z \in Nat /\ n <= z
    BY <1>1 DEF F!Inum
  <2>2. q \in Nat /\ n % IPB \in Nat /\ n = IPB * q + (n % IPB)
    <3>1. n \div IPB \in Nat /\ n % IPB \in 0..(IPB - 1) /\ n = IPB * (n \div IPB) + (n % IPB)
      BY <1>1, <2>1, Division
    <3> QED  BY <1>1, <3>1
  <2>3. e \in Nat /\ e + INODESTART < BMAPSTART
    BY <1>1, <2>1, Division
  <2>4. q <= e
    <3>1. IPB * q <= z
      <4> HIDE DEF q, z
      <4>1. IPB * q \in Nat
        BY <1>1, <2>2
      <4> QED  BY <2>1, <2>2, <4>1
    <3> HIDE DEF z
    <3>2. q <= z \div IPB
      BY <1>1, <2>1, <2>2, <3>1, QuotientAtLeast
    <3> QED  BY <3>2
  <2>5. F!IBLOCK(n) = q + INODESTART
    BY DEF F!IBLOCK
  <2> HIDE DEF q, e
  <2> QED  BY <1>1, <2>2, <2>3, <2>4, <2>5
<1>3. ASSUME NEW a \in F!Data
      PROVE  F!BBLOCK(a) \in Nat /\ BMAPSTART <= F!BBLOCK(a) /\ F!BBLOCK(a) < F!DATASTART
  <2> DEFINE q == a \div BPB
             z == FSSIZE + BPB - 1
  <2>1. a \in Nat /\ a < FSSIZE /\ z \in Nat
    BY <1>1, FsckNumbers DEF F!Data
  <2>2. q \in Nat /\ a % BPB \in Nat /\ a = BPB * q + (a % BPB)
    <3>1. a \div BPB \in Nat /\ a % BPB \in 0..(BPB - 1) /\ a = BPB * (a \div BPB) + (a % BPB)
      BY <1>1, <2>1, Division
    <3> QED  BY <1>1, <3>1
  <2>3. q + 1 <= F!NBITMAP
    <3>1. BPB * (q + 1) <= z
      <4> HIDE DEF q
      <4>1. BPB * q \in Nat /\ BPB * (q + 1) = BPB * q + BPB
        BY <1>1, <2>2
      <4> QED  BY <1>1, <2>1, <2>2, <4>1
    <3>2. q + 1 \in Nat
      BY <2>2
    <3> HIDE DEF z, q
    <3>3. q + 1 <= z \div BPB
      <4> DEFINE l == q + 1
      <4>1. l \in Nat /\ BPB * l <= z
        BY <3>1, <3>2
      <4> HIDE DEF l
      <4>2. l <= z \div BPB
        BY <1>1, <2>1, <4>1, QuotientAtLeast
      <4> QED  BY <4>2 DEF l
    <3> QED  BY <3>3 DEF z, F!NBITMAP
  <2>4. F!NBITMAP \in Nat
    BY <1>1, <2>1, Division DEF F!NBITMAP
  <2>5. F!BBLOCK(a) = q + BMAPSTART /\ F!DATASTART = BMAPSTART + F!NBITMAP
    BY DEF F!BBLOCK, F!DATASTART
  <2> HIDE DEF q
  <2> QED  BY <1>1, <2>2, <2>3, <2>4, <2>5
<1> QED  BY <1>2, <1>3

\* The image, which the check does not change.
ImageOK ==
  /\ DOMAIN inodes \subseteq F!Inum
  /\ \A n \in DOMAIN inodes : \A k \in 1..(NDirect + 1) : inodes[n][k] \in Nat
  /\ \A n \in DOMAIN inodes : inodes[n][NDirect + 1] \in F!Block \ {0} =>
       \A k \in 1..NIndirect : entries[inodes[n][NDirect + 1]][k] \in Nat

BadIndirect == \E n \in DOMAIN inodes : inodes[n][NDirect + 1] \notin F!Data \cup {0}

\* Where the check is, and the buffers that it holds there.
Loops ==
  /\ fpc \in {"inode", "direct", "indirect", "read", "entry", "end", "done", "panic", "hang"}
  /\ inum \in F!Inum \cup {NINODES} /\ i \in Nat /\ errors \in Nat
  /\ held \subseteq F!Block /\ F!Cardinality(held) <= 2
  /\ fpc \in {"direct", "indirect", "read", "entry", "end"} => inum \in DOMAIN inodes
  /\ fpc = "inode" => held = {}
  /\ fpc \in {"direct", "indirect", "read"} => held = {F!IBLOCK(inum)}
  /\ fpc = "entry" => held = {F!IBLOCK(inum), F!IndirectBlock}
  /\ fpc = "direct" => i \in 1..NDirect
  /\ fpc = "read" => F!IndirectBlock # 0
  /\ fpc = "entry" => i \in 1..NIndirect /\ F!IndirectBlock \in F!Block \ {0}
  /\ fpc = "done" => inum = NINODES
  /\ fpc \in {"panic", "hang"} => BadIndirect

\* The places that the check has been to.
Past(p) ==
  \/ fpc = "direct" /\ p[3] = 0 /\ p[2] < i
  \/ fpc = "indirect" /\ p[3] = 0 /\ p[2] <= NDirect
  \/ fpc = "read" /\ p[3] = 0
  \/ fpc = "entry" /\ (p[3] = 0 \/ p[3] < i)
  \/ fpc = "end"

Seen == {p \in F!References : p[1] < inum \/ (p[1] = inum /\ Past(p))}

\* The places of S obey the rules that Consistent states for all places.
Clean(S) ==
  /\ \A p \in S : F!AddressAt(p) \in F!Data /\ F!AddressAt(p) \in bitmap
  /\ \A p, q \in S : F!AddressAt(p) = F!AddressAt(q) => p = q

\* used[] has the data blocks that the places of S refer to, and errors were counted
\* if there are some.
Checked(S, u, e) ==
  /\ \A a : a \in u <=> a \in F!Data /\ \E p \in S : F!AddressAt(p) = a
  /\ e = 0 <=> Clean(S)

FsckInv == ImageOK /\ Loops /\ (fpc \notin {"panic", "hang"} => Checked(Seen, fused, errors)) /\ fused \subseteq F!Data
LEMMA PlaceIs ==
  ASSUME F!FsckAssumption, ImageOK, NEW p \in F!Places
  PROVE  /\ p = <<p[1], p[2], p[3]>> /\ p[1] \in DOMAIN inodes /\ p[1] \in Nat
         /\ \/ p[2] \in 1..(NDirect + 1) /\ p[3] = 0
            \/ p[2] = NDirect + 1 /\ p[3] \in 1..NIndirect
<1>1. \A n \in DOMAIN inodes : n \in Nat
  BY FsckNumbers DEF ImageOK, F!Inum
<1>2. CASE \E n \in DOMAIN inodes, k \in 1..(NDirect + 1) : p = <<n, k, 0>>
  BY <1>1, <1>2
<1>3. CASE \E n \in DOMAIN inodes, k \in 1..NIndirect : p = <<n, NDirect + 1, k>>
  BY <1>1, <1>3
<1> QED  BY <1>2, <1>3 DEF F!Places

LEMMA PlacesAre ==
  ASSUME NEW n \in DOMAIN inodes
  PROVE  /\ \A k \in 1..(NDirect + 1) : <<n, k, 0>> \in F!Places
         /\ \A k \in 1..NIndirect : <<n, NDirect + 1, k>> \in F!Places
BY DEF F!Places

\* An address is a number, and in the data region only if its block is on the disk.
LEMMA AddressIs ==
  ASSUME F!FsckAssumption, ImageOK, NEW p \in F!Places
  PROVE  F!AddressAt(p) \in Nat
<1>1. NDirect + 1 \in 1..(NDirect + 1)
  BY FsckNumbers
<1>2. CASE p[2] \in 1..(NDirect + 1) /\ p[3] = 0
  BY <1>2, PlaceIs DEF F!AddressAt, ImageOK
<1>3. CASE p[2] = NDirect + 1 /\ p[3] \in 1..NIndirect
  BY <1>3, PlaceIs, FsckNumbers DEF F!AddressAt, ImageOK
<1> QED  BY <1>2, <1>3, PlaceIs

\* One more place: it obeys the rules, or breaks one.
LEMMA OneMorePlace ==
  ASSUME NEW S, NEW p, p \notin S, NEW u, NEW e \in Nat, Checked(S, u, e),
         NEW a, a = F!AddressAt(p)
  PROVE  /\ a \notin F!Data \/ a \in u => Checked(S \cup {p}, u, e + 1)
         /\ a \in F!Data /\ a \notin u =>
              Checked(S \cup {p}, u \cup {a}, IF a \in bitmap THEN e ELSE e + 1)
<1>1. ASSUME a \notin F!Data \/ a \in u PROVE Checked(S \cup {p}, u, e + 1)
  <2>1. ~Clean(S \cup {p})
    <3>1. CASE a \notin F!Data
      BY <3>1 DEF Clean
    <3>2. CASE a \in u
      <4>1. PICK q \in S : F!AddressAt(q) = a
        BY <3>2 DEF Checked
      <4> QED  BY <4>1 DEF Clean
    <3> QED  BY <1>1, <3>1, <3>2
  <2>2. e + 1 # 0
    OBVIOUS
  <2>3. ASSUME NEW b PROVE b \in u <=> b \in F!Data /\ \E q \in S \cup {p} : F!AddressAt(q) = b
    BY <1>1 DEF Checked
  <2> QED  BY <2>1, <2>2, <2>3 DEF Checked
<1>2. ASSUME a \in F!Data, a \notin u
      PROVE  Checked(S \cup {p}, u \cup {a}, IF a \in bitmap THEN e ELSE e + 1)
  <2>1. \A q \in S : F!AddressAt(q) # a
    BY <1>2 DEF Checked
  <2>2. Clean(S \cup {p}) <=> Clean(S) /\ a \in bitmap
    BY <1>2, <2>1 DEF Clean
  <2>3. (IF a \in bitmap THEN e ELSE e + 1) = 0 <=> Clean(S) /\ a \in bitmap
    BY DEF Checked
  <2>4. ASSUME NEW b PROVE b \in u \cup {a} <=> b \in F!Data /\ \E q \in S \cup {p} : F!AddressAt(q) = b
    BY <1>2 DEF Checked
  <2> QED  BY <2>2, <2>3, <2>4 DEF Checked
<1> QED  BY <1>1, <1>2

\* check_addr at a place where the check has not been.
LEMMA AddrChecked ==
  ASSUME F!FsckAssumption, ImageOK, NEW n \in DOMAIN inodes, n = inum, errors \in Nat,
         held = {F!IBLOCK(n)} \/ (held = {F!IBLOCK(n), inodes[n][NDirect + 1]}
                                   /\ inodes[n][NDirect + 1] # 0),
         NEW S, Checked(S, fused, errors), fused \subseteq F!Data,
         NEW p \in F!Places, p \notin S, NEW a, a = F!AddressAt(p), NEW next,
         F!CheckAddr(a, next)
  PROVE  /\ fused' \subseteq F!Data /\ errors' \in Nat
         /\ \/ fpc' = next
               /\ Checked(IF a = 0 THEN S ELSE S \cup {p}, fused', errors')
            \/ fpc' \in {"panic", "hang"} /\ BadIndirect
<1>1. a \in Nat
  BY AddressIs
<1>2. /\ F!DATASTART \in Nat /\ F!DATASTART \in Nat \ {0} /\ FSSIZE \in Nat /\ F!DATASTART < FSSIZE
      /\ BMAPSTART \in Nat \ {0}
  BY FsckNumbers
<1>3. F!Bad(a) <=> a \notin F!Data \/ a \in fused
  BY <1>1, <1>2 DEF F!Bad, F!Data
<1>4. CASE a = 0
  BY <1>4 DEF F!CheckAddr
<1>5. CASE a # 0 /\ F!Bad(a)
  <2>1. fpc' = next /\ errors' = errors + 1 /\ fused' = fused
    BY <1>5 DEF F!CheckAddr
  <2>2. Checked(S \cup {p}, fused, errors + 1)
    BY <1>3, <1>5, OneMorePlace
  <2> QED  BY <1>5, <2>1, <2>2
<1>6. CASE a # 0 /\ ~F!Bad(a)
  <2> DEFINE read == F!Bread(F!BBLOCK(a), held)
  <2>1. /\ fused' = fused \cup {a}
        /\ errors' = (IF read = "ok" /\ ~F!Allocated(a) THEN errors + 1 ELSE errors)
        /\ fpc' = (IF read = "ok" THEN next ELSE read)
    BY <1>6 DEF F!CheckAddr
  <2>2. a \in F!Data /\ a \notin fused
    BY <1>3, <1>6
  <2>3. F!BBLOCK(a) \in Nat /\ BMAPSTART <= F!BBLOCK(a) /\ F!BBLOCK(a) < F!DATASTART
    BY <2>2, FsckBlocks
  <2>4. F!IBLOCK(n) \in Nat /\ F!IBLOCK(n) < BMAPSTART
    BY FsckBlocks DEF ImageOK
  <2>5. read = "ok" \/ (read = "hang" /\ F!BBLOCK(a) = inodes[n][NDirect + 1]
                          /\ inodes[n][NDirect + 1] # 0)
    BY <1>2, <2>3, <2>4 DEF F!Bread
  <2>6. CASE read = "ok"
    <3>1. Checked(S \cup {p}, fused \cup {a}, IF a \in bitmap THEN errors ELSE errors + 1)
      BY <2>2, OneMorePlace
    <3>2. errors' = IF a \in bitmap THEN errors ELSE errors + 1
      BY <2>1, <2>6 DEF F!Allocated
    <3> QED  BY <1>6, <2>1, <2>2, <2>6, <3>1, <3>2
  <2>7. CASE read # "ok"
    <3>1. inodes[n][NDirect + 1] \notin F!Data \cup {0}
      BY <1>2, <2>3, <2>5, <2>7 DEF F!Data
    <3>2. BadIndirect
      BY <3>1 DEF BadIndirect
    <3> QED  BY <2>1, <2>2, <2>5, <2>7, <3>2
  <2> QED  BY <2>6, <2>7
<1> QED  BY <1>4, <1>5, <1>6

\* The image stays as it is.
LEMMA ImageStays ==
  ASSUME UNCHANGED F!image
  PROVE  /\ ImageOK' <=> ImageOK
         /\ BadIndirect' <=> BadIndirect
         /\ F!References' = F!References
BY DEF F!image, ImageOK, BadIndirect, F!References, F!Places, F!AddressAt, F!Inum, F!Data, F!Block

LEMMA CheckedStays ==
  ASSUME UNCHANGED F!image, NEW T, T = Seen', NEW u, u = fused', NEW e, e = errors', Checked(T, u, e)
  PROVE  Checked(Seen, fused, errors)'
<1>1. inodes' = inodes /\ entries' = entries /\ bitmap' = bitmap
  BY DEF F!image
<1>2. \A q : F!AddressAt(q)' = F!AddressAt(q)
  BY <1>1 DEF F!AddressAt, F!Block
<1>3. F!Data' = F!Data
  BY DEF F!Data, F!DATASTART, F!NBITMAP
<1> QED  BY <1>1, <1>2, <1>3 DEF Checked, Clean
LEMMA HeldSizes ==
  /\ F!Cardinality({}) <= 2
  /\ \A a : F!Cardinality({a}) <= 2
  /\ \A a, b : F!Cardinality({a, b}) <= 2
<1>1. \A S : F!Cardinality(S) = Cardinality(S)
  BY DEF F!Cardinality, Cardinality
<1>2. Cardinality({}) = 0
  BY FS_EmptySet
<1>3. ASSUME NEW a PROVE IsFiniteSet({a}) /\ Cardinality({a}) = 1
  BY FS_Singleton
<1>4. ASSUME NEW a, NEW b PROVE Cardinality({a, b}) <= 2
  <2>1. {a, b} = {a} \cup {b}
    OBVIOUS
  <2>2. Cardinality({a} \cup {b}) = IF b \in {a} THEN Cardinality({a}) ELSE Cardinality({a}) + 1
    BY <1>3, FS_AddElement
  <2> QED  BY <1>3, <2>1, <2>2
<1>5. F!Cardinality({}) <= 2
  BY <1>1, <1>2
<1>6. ASSUME NEW a, NEW b PROVE F!Cardinality({a}) <= 2 /\ F!Cardinality({a, b}) <= 2
  <2>1. PICK c, d : c = Cardinality({a}) /\ d = Cardinality({a, b})
    OBVIOUS
  <2>2. F!Cardinality({a}) = c /\ F!Cardinality({a, b}) = d
    BY <1>1, <2>1
  <2>3. c = 1 /\ d <= 2
    BY <1>3, <1>4, <2>1
  <2> QED  BY <2>2, <2>3
<1> QED  BY <1>5, <1>6

LEMMA FsckInit == F!FsckAssumption /\ F!Init => FsckInv
<1> SUFFICES ASSUME F!FsckAssumption, F!Init PROVE FsckInv
  OBVIOUS
<1>1. PICK live \in SUBSET F!Inum : inodes \in [live -> F!Addrs]
  BY DEF F!Init
<1>2. /\ entries \in [(Indirect \cap F!Block) \ {0} -> [1..NIndirect -> Entry]]
      /\ fpc = "inode" /\ inum = 1 /\ i = 1 /\ fused = {} /\ errors = 0 /\ held = {}
  BY DEF F!Init
<1>3. ImageOK
  <2>1. DOMAIN inodes \subseteq F!Inum /\ \A n \in DOMAIN inodes : inodes[n] \in F!Addrs
    BY <1>1
  <2>2. NDirect + 1 \in 1..(NDirect + 1) /\ \A k \in 1..(NDirect + 1) : k \in 1..NDirect \/ k = NDirect + 1
    BY FsckNumbers
  <2>3. ASSUME NEW n \in DOMAIN inodes, NEW k \in 1..(NDirect + 1) PROVE inodes[n][k] \in Nat
    BY <2>1, <2>3, FsckNumbers DEF F!Addrs
  <2>4. ASSUME NEW n \in DOMAIN inodes, inodes[n][NDirect + 1] \in F!Block \ {0}, NEW k \in 1..NIndirect
        PROVE  entries[inodes[n][NDirect + 1]][k] \in Nat
    <3>1. inodes[n][NDirect + 1] \in Indirect
      BY <2>1 DEF F!Addrs
    <3> QED  BY <1>2, <2>4, <3>1, FsckNumbers
  <2> QED  BY <2>1, <2>3, <2>4 DEF ImageOK
<1>4. 1 \in F!Inum \cup {NINODES}
  BY FsckNumbers DEF F!Inum
<1>5. Loops
  BY <1>2, <1>4, HeldSizes DEF Loops
<1>6. Seen = {}
  <2> SUFFICES ASSUME NEW p \in Seen PROVE FALSE
    OBVIOUS
  <2>1. p \in F!Places
    BY DEF Seen, F!References
  <2>2. p[1] \in F!Inum
    BY <1>3, <2>1, PlaceIs DEF ImageOK
  <2> QED  BY <1>2, <2>2, FsckNumbers DEF Seen, Past, F!Inum
<1>7. Checked(Seen, fused, errors)
  BY <1>2, <1>6 DEF Checked, Clean
<1> QED  BY <1>2, <1>3, <1>5, <1>7 DEF FsckInv

\* What the steps use of the invariant.
LEMMA FsckFacts ==
  ASSUME F!FsckAssumption, FsckInv
  PROVE  /\ ImageOK /\ Loops /\ fused \subseteq F!Data
         /\ fpc \notin {"panic", "hang"} => Checked(Seen, fused, errors)
         /\ inum \in Nat /\ i \in Nat /\ errors \in Nat
         /\ \A p \in F!References :
              /\ p \in F!Places /\ F!AddressAt(p) # 0 /\ p = <<p[1], p[2], p[3]>>
              /\ p[1] \in DOMAIN inodes /\ p[1] \in 1..(NINODES - 1)
              /\ \/ p[2] \in 1..(NDirect + 1) /\ p[3] = 0
                 \/ p[2] = NDirect + 1 /\ p[3] \in 1..NIndirect
<1>1. ImageOK /\ Loops /\ fused \subseteq F!Data
  BY DEF FsckInv
<1>2. inum \in Nat /\ i \in Nat /\ errors \in Nat
  BY <1>1, FsckNumbers DEF Loops, F!Inum
<1>3. ASSUME NEW p \in F!References
      PROVE  p \in F!Places /\ F!AddressAt(p) # 0
  BY DEF F!References
<1> QED  BY <1>1, <1>2, <1>3, PlaceIs DEF FsckInv, ImageOK, F!Inum

LEMMA NextInodeKeeps ==
  ASSUME F!FsckAssumption, FsckInv, F!NextInode
  PROVE  FsckInv'
<1>1. /\ fpc = "inode" /\ UNCHANGED F!image /\ fused' = fused /\ errors' = errors
      /\ ImageOK /\ Loops /\ Checked(Seen, fused, errors) /\ held = {}
      /\ inum \in F!Inum \cup {NINODES} /\ i \in Nat
  BY FsckFacts DEF F!NextInode, Loops
<1>2. NINODES \in Nat /\ FSSIZE \in Nat /\ BMAPSTART \in Nat /\ BMAPSTART < FSSIZE
      /\ 1 \in 1..NDirect
  BY FsckNumbers
<1>3. inum \in F!Inum => F!Bread(F!IBLOCK(inum), held) = "ok" /\ F!IBLOCK(inum) \in F!Block
  <2> SUFFICES ASSUME inum \in F!Inum
               PROVE  F!Bread(F!IBLOCK(inum), held) = "ok" /\ F!IBLOCK(inum) \in F!Block
    OBVIOUS
  <2>1. F!IBLOCK(inum) \in Nat /\ F!IBLOCK(inum) < FSSIZE
    BY <1>2, FsckBlocks
  <2> QED  BY <1>1, <1>2, <2>1 DEF F!Bread, F!Block
<1>4. ImageOK' /\ F!References' = F!References
  BY <1>1, ImageStays
<1>5. Seen' = Seen => Checked(Seen, fused, errors)'
  BY <1>1, CheckedStays
<1>6. inodes' = inodes /\ F!IndirectBlock \in {F!IndirectBlock}
  BY <1>1 DEF F!image
<1>7. CASE inum \notin F!Inum
  <2>1. fpc' = "done" /\ inum' = inum /\ i' = i /\ held' = held /\ inum = NINODES
    BY <1>1, <1>7 DEF F!NextInode
  <2>2. Loops'
    BY <1>1, <1>6, <2>1 DEF Loops, F!Inum, F!Block
  <2>3. Seen' = Seen
    BY <1>1, <1>4, <2>1 DEF Seen, Past
  <2> QED  BY <1>1, <1>4, <1>5, <2>2, <2>3, FsckFacts DEF FsckInv, F!Data, F!DATASTART, F!NBITMAP
<1>8. CASE inum \in F!Inum /\ inum \notin DOMAIN inodes
  <2>1. fpc' = fpc /\ inum' = inum + 1 /\ i' = i /\ held' = held
    BY <1>1, <1>3, <1>8 DEF F!NextInode
  <2>2. inum' \in F!Inum \cup {NINODES}
    BY <1>2, <1>8, <2>1 DEF F!Inum
  <2>3. Loops'
    BY <1>1, <1>6, <2>1, <2>2 DEF Loops, F!Inum, F!Block
  <2>4. Seen' = Seen
    <3>1. \A p \in F!References : p[1] < inum + 1 <=> p[1] < inum
      BY <1>2, <1>8, FsckFacts
    <3> QED  BY <1>1, <1>4, <2>1, <3>1 DEF Seen, Past
  <2> QED  BY <1>1, <1>4, <1>5, <2>3, <2>4, FsckFacts DEF FsckInv, F!Data, F!DATASTART, F!NBITMAP
<1>9. CASE inum \in F!Inum /\ inum \in DOMAIN inodes
  <2>1. fpc' = "direct" /\ inum' = inum /\ i' = 1 /\ held' = {F!IBLOCK(inum)}
    BY <1>1, <1>3, <1>9 DEF F!NextInode
  <2>2. F!IBLOCK(inum)' = F!IBLOCK(inum)
    BY <2>1 DEF F!IBLOCK
  <2>3. Loops'
    BY <1>1, <1>2, <1>3, <1>6, <1>9, <2>1, <2>2, HeldSizes DEF Loops, F!Inum, F!Block
  <2>4. Seen' = Seen
    <3>1. \A p \in F!References : ~(p[2] < 1)
      BY <1>2, FsckFacts, FsckNumbers
    <3> QED  BY <1>1, <1>4, <2>1, <3>1 DEF Seen, Past
  <2> QED  BY <1>1, <1>4, <1>5, <2>3, <2>4, FsckFacts DEF FsckInv, F!Data, F!DATASTART, F!NBITMAP
<1> QED  BY <1>7, <1>8, <1>9
LEMMA CheckDirectKeeps ==
  ASSUME F!FsckAssumption, FsckInv, F!CheckDirect
  PROVE  FsckInv'
<1> DEFINE p == <<inum, i, 0>>
           next == IF i < NDirect THEN "direct" ELSE "indirect"
<1>1. /\ fpc = "direct" /\ UNCHANGED F!image /\ i' = i + 1 /\ inum' = inum /\ held' = held
      /\ F!CheckAddr(inodes[inum][i], next)
  BY DEF F!CheckDirect, F!image
<1>2. /\ ImageOK /\ Loops /\ Checked(Seen, fused, errors) /\ fused \subseteq F!Data
      /\ inum \in DOMAIN inodes /\ i \in 1..NDirect /\ held = {F!IBLOCK(inum)} /\ errors \in Nat
      /\ NDirect \in Nat \ {0}
  BY <1>1, FsckFacts, FsckNumbers DEF Loops
<1>3. p \in F!Places /\ F!AddressAt(p) = inodes[inum][i]
  <2>1. i \in 1..(NDirect + 1)
    BY <1>2
  <2> QED  BY <1>2, <2>1, PlacesAre DEF F!AddressAt
<1>4. p \notin Seen
  BY <1>1, <1>2, FsckFacts DEF Seen, Past
<1>5. /\ fused' \subseteq F!Data /\ errors' \in Nat
      /\ \/ fpc' = next
            /\ Checked(IF F!AddressAt(p) = 0 THEN Seen ELSE Seen \cup {p}, fused', errors')
         \/ fpc' \in {"panic", "hang"} /\ BadIndirect
  <2> HIDE DEF p, next
  <2> QED  BY <1>1, <1>2, <1>3, <1>4, AddrChecked
<1>6. /\ ImageOK' /\ F!References' = F!References /\ (BadIndirect => BadIndirect') /\ inodes' = inodes
      /\ fused' \subseteq F!Data'
  BY <1>1, <1>2, <1>5, ImageStays DEF F!image, F!Data, F!DATASTART, F!NBITMAP
<1>7. Loops'
  <2>1. F!IBLOCK(inum)' = F!IBLOCK(inum)
    BY <1>1 DEF F!IBLOCK
  <2>2. i < NDirect => i' \in 1..NDirect
    BY <1>1, <1>2
  <2>3. fpc' \in {"direct", "indirect", "panic", "hang"} /\ (fpc' = "direct" => i < NDirect)
    BY <1>5
  <2>4. i' \in Nat /\ (fpc' \in {"panic", "hang"} => BadIndirect')
    BY <1>1, <1>2, <1>5, <1>6
  <2> QED  BY <1>1, <1>2, <1>5, <1>6, <2>1, <2>2, <2>3, <2>4 DEF Loops, F!Inum, F!Block
<1>8. ASSUME fpc' \notin {"panic", "hang"} PROVE Checked(Seen, fused, errors)'
  <2>1. fpc' = next
    BY <1>5, <1>8
  <2>2. \A r \in F!References :
          (r[1] = inum /\ Past(r)') <=> (r[1] = inum /\ Past(r)) \/ r = p
    BY <1>1, <1>2, <2>1, FsckFacts DEF Past
  <2>3. Seen' = IF F!AddressAt(p) = 0 THEN Seen ELSE Seen \cup {p}
    <3>1. p \in F!References <=> F!AddressAt(p) # 0
      BY <1>3 DEF F!References
    <3>2. ASSUME NEW r \in F!References PROVE r \in Seen' <=> r \in Seen \/ r = p
      BY <1>1, <1>2, <1>6, <2>2 DEF Seen
    <3>3. Seen' \subseteq F!References /\ Seen \subseteq F!References
      BY <1>6 DEF Seen
    <3> QED  BY <1>4, <3>1, <3>2, <3>3
  <2> QED  BY <1>1, <1>5, <1>8, <2>3, CheckedStays
<1> QED  BY <1>5, <1>6, <1>7, <1>8 DEF FsckInv

LEMMA CheckIndirectKeeps ==
  ASSUME F!FsckAssumption, FsckInv, F!CheckIndirect
  PROVE  FsckInv'
<1> DEFINE b == inodes[inum][NDirect + 1]
           p == <<inum, NDirect + 1, 0>>
<1>1. /\ fpc = "indirect" /\ UNCHANGED F!image /\ i' = i /\ inum' = inum /\ held' = held
      /\ F!IndirectBlock = b
  BY DEF F!CheckIndirect, F!image, F!IndirectBlock
<1>2. /\ ImageOK /\ Loops /\ Checked(Seen, fused, errors) /\ fused \subseteq F!Data
      /\ inum \in DOMAIN inodes /\ held = {F!IBLOCK(inum)} /\ errors \in Nat
      /\ NDirect \in Nat \ {0}
  BY <1>1, FsckFacts, FsckNumbers DEF Loops
<1>3. p \in F!Places /\ F!AddressAt(p) = b
  <2>1. NDirect + 1 \in 1..(NDirect + 1)
    BY <1>2
  <2> QED  BY <1>2, <2>1, PlacesAre DEF F!AddressAt
<1>4. p \notin Seen
  BY <1>1, <1>2, FsckFacts DEF Seen, Past
<1>5. /\ ImageOK' /\ F!References' = F!References /\ (BadIndirect => BadIndirect') /\ inodes' = inodes
      /\ F!IBLOCK(inum)' = F!IBLOCK(inum) /\ F!Data' = F!Data /\ F!IndirectBlock' = b
  BY <1>1, <1>2, ImageStays DEF F!image, F!Data, F!DATASTART, F!NBITMAP, F!IBLOCK, F!IndirectBlock
<1>6. CASE b = 0
  <2>1. fpc' = "end" /\ fused' = fused /\ errors' = errors
    BY <1>1, <1>6 DEF F!CheckIndirect
  <2>2. Loops'
    BY <1>1, <1>2, <1>5, <2>1 DEF Loops, F!Inum, F!Block
  <2>3. \A k \in 1..NIndirect : F!AddressAt(<<inum, NDirect + 1, k>>) = 0
    BY <1>2, <1>6, FsckNumbers DEF F!AddressAt
  <2>4. \A r \in F!References : r[1] = inum => r # p /\ r[3] = 0
    <3> SUFFICES ASSUME NEW r \in F!References, r[1] = inum PROVE r # p /\ r[3] = 0
      OBVIOUS
    <3>1. F!AddressAt(r) # 0 /\ r = <<inum, r[2], r[3]>>
      BY FsckFacts
    <3>2. r # p
      BY <1>3, <1>6, <3>1
    <3>3. r[3] = 0
      BY <2>3, <3>1, FsckFacts
    <3> QED  BY <3>2, <3>3
  <2>5. \A r \in F!References : r[1] = inum => Past(r) /\ Past(r)'
    <3> SUFFICES ASSUME NEW r \in F!References, r[1] = inum PROVE Past(r) /\ Past(r)'
      OBVIOUS
    <3>1. r = <<inum, r[2], 0>> /\ r # p /\ r[2] \in 1..(NDirect + 1) /\ r[3] = 0
      BY <1>2, <2>4, FsckFacts
    <3>2. r[2] <= NDirect
      BY <1>2, <3>1
    <3> QED  BY <1>1, <2>1, <3>1, <3>2 DEF Past
  <2>6. Seen' = Seen
    BY <1>1, <1>5, <2>5 DEF Seen
  <2>7. Checked(Seen, fused, errors)'
    BY <1>1, <1>2, <2>1, <2>6, CheckedStays
  <2> QED  BY <1>2, <1>5, <2>1, <2>2, <2>7 DEF FsckInv
<1>7. CASE b # 0
  <2>1. F!CheckAddr(b, "read")
    BY <1>1, <1>7 DEF F!CheckIndirect
  <2>2. /\ fused' \subseteq F!Data /\ errors' \in Nat
        /\ \/ fpc' = "read" /\ Checked(Seen \cup {p}, fused', errors')
           \/ fpc' \in {"panic", "hang"} /\ BadIndirect
    <3> HIDE DEF p, b
    <3> QED  BY <1>2, <1>3, <1>4, <1>7, <2>1, AddrChecked
  <2>3. Loops'
    BY <1>1, <1>2, <1>5, <1>7, <2>2 DEF Loops, F!Inum, F!Block
  <2>4. ASSUME fpc' \notin {"panic", "hang"} PROVE Checked(Seen, fused, errors)'
    <3>1. \A r \in F!References :
            (r[1] = inum /\ Past(r)') <=> (r[1] = inum /\ Past(r)) \/ r = p
      <4> SUFFICES ASSUME NEW r \in F!References
                   PROVE  (r[1] = inum /\ Past(r)') <=> (r[1] = inum /\ Past(r)) \/ r = p
        OBVIOUS
      <4>1. Past(r)' <=> r[3] = 0
        BY <2>2, <2>4 DEF Past
      <4>2. Past(r) <=> r[3] = 0 /\ r[2] <= NDirect
        BY <1>1 DEF Past
      <4> QED  BY <1>2, <4>1, <4>2, FsckFacts
    <3>2. p \in F!References
      BY <1>3, <1>7 DEF F!References
    <3>3. Seen' = Seen \cup {p}
      BY <1>1, <1>2, <1>5, <3>1, <3>2 DEF Seen
    <3> QED  BY <1>1, <2>2, <2>4, <3>3, CheckedStays
  <2> QED  BY <1>5, <2>2, <2>3, <2>4 DEF FsckInv
<1> QED  BY <1>6, <1>7

LEMMA ReadIndirectKeeps ==
  ASSUME F!FsckAssumption, FsckInv, F!ReadIndirect
  PROVE  FsckInv'
<1> DEFINE b == inodes[inum][NDirect + 1]
           read == F!Bread(b, held)
<1>1. /\ fpc = "read" /\ UNCHANGED F!image /\ inum' = inum /\ fused' = fused /\ errors' = errors
      /\ F!IndirectBlock = b
      /\ \/ read = "ok" /\ fpc' = "entry" /\ i' = 1 /\ held' = held \cup {b}
         \/ read # "ok" /\ fpc' = read /\ i' = i /\ held' = held
  BY DEF F!ReadIndirect, F!image, F!IndirectBlock
<1>2. /\ ImageOK /\ Loops /\ Checked(Seen, fused, errors) /\ fused \subseteq F!Data
      /\ inum \in DOMAIN inodes /\ held = {F!IBLOCK(inum)} /\ b # 0 /\ i \in Nat
  BY <1>1, FsckFacts DEF Loops
<1>3. /\ FSSIZE \in Nat /\ F!DATASTART \in Nat /\ BMAPSTART \in Nat \ {0} /\ BMAPSTART <= F!DATASTART
      /\ NIndirect \in Nat \ {0} /\ F!DATASTART < FSSIZE /\ b \in Nat
      /\ F!IBLOCK(inum) \in Nat /\ F!IBLOCK(inum) < BMAPSTART
  <2>1. NDirect + 1 \in 1..(NDirect + 1)
    BY FsckNumbers
  <2> QED  BY <1>2, <2>1, FsckNumbers, FsckBlocks DEF ImageOK
<1>4. /\ ImageOK' /\ F!References' = F!References /\ (BadIndirect => BadIndirect') /\ inodes' = inodes
      /\ F!IBLOCK(inum)' = F!IBLOCK(inum) /\ F!Data' = F!Data /\ F!IndirectBlock' = b
  BY <1>1, <1>2, ImageStays DEF F!image, F!Data, F!DATASTART, F!NBITMAP, F!IBLOCK, F!IndirectBlock
<1>5. CASE read = "ok"
  <2>1. b \in F!Block \ {0}
    BY <1>2, <1>3, <1>5 DEF F!Bread, F!Block
  <2>2. held' = {F!IBLOCK(inum), b} /\ fpc' = "entry" /\ i' = 1
    BY <1>1, <1>2, <1>5
  <2>3. F!IBLOCK(inum) \in F!Block /\ 1 \in 1..NIndirect
    BY <1>3 DEF F!Block
  <2>4. F!Block' = F!Block
    BY DEF F!Block
  <2>5. held' \subseteq F!Block' /\ F!Cardinality(held') <= 2
    BY <2>1, <2>2, <2>3, <2>4, HeldSizes
  <2>6. /\ fpc' = "entry" /\ i' \in 1..NIndirect /\ i' \in Nat /\ inum' = inum /\ errors' = errors
        /\ held' = {F!IBLOCK(inum)', F!IndirectBlock'} /\ F!IndirectBlock' \in F!Block' \ {0}
        /\ inodes' = inodes
    BY <1>1, <1>4, <2>1, <2>2, <2>3, <2>4
  <2> HIDE DEF b
  <2>7. Loops'
    BY <1>2, <2>5, <2>6 DEF Loops, F!Inum
  <2>8. \A r \in F!References : Past(r) <=> Past(r)'
    BY <1>1, <2>2, FsckFacts, FsckNumbers DEF Past
  <2>9. Seen' = Seen
    BY <1>1, <1>4, <2>8 DEF Seen
  <2>10. Checked(Seen, fused, errors)'
    BY <1>1, <1>2, <2>9, CheckedStays
  <2> QED  BY <1>1, <1>2, <1>4, <2>7, <2>10 DEF FsckInv
<1>6. CASE read # "ok"
  <2>1. fpc' \in {"panic", "hang"} /\ i' = i /\ held' = held
    BY <1>1, <1>6 DEF F!Bread
  <2>2. b \notin F!Data \cup {0}
    BY <1>2, <1>3, <1>6 DEF F!Bread, F!Data
  <2>3. BadIndirect'
    BY <1>2, <1>4, <2>2 DEF BadIndirect
  <2>4. Loops'
    BY <1>1, <1>2, <1>4, <2>1, <2>3 DEF Loops, F!Inum, F!Block
  <2> QED  BY <1>1, <1>2, <1>4, <2>1, <2>4 DEF FsckInv
<1> QED  BY <1>5, <1>6

LEMMA CheckEntryKeeps ==
  ASSUME F!FsckAssumption, FsckInv, F!CheckEntry
  PROVE  FsckInv'
<1> DEFINE b == inodes[inum][NDirect + 1]
           p == <<inum, NDirect + 1, i>>
           next == IF i < NIndirect THEN "entry" ELSE "end"
<1>1. /\ fpc = "entry" /\ UNCHANGED F!image /\ i' = i + 1 /\ inum' = inum /\ held' = held
      /\ F!IndirectBlock = b /\ F!CheckAddr(entries[b][i], next)
  BY DEF F!CheckEntry, F!image, F!IndirectBlock
<1>2. /\ ImageOK /\ Loops /\ Checked(Seen, fused, errors) /\ fused \subseteq F!Data
      /\ inum \in DOMAIN inodes /\ i \in 1..NIndirect /\ held = {F!IBLOCK(inum), b}
      /\ b \in F!Block \ {0} /\ errors \in Nat /\ NIndirect \in Nat \ {0}
  BY <1>1, FsckFacts, FsckNumbers DEF Loops
<1>3. p \in F!Places /\ F!AddressAt(p) = entries[b][i]
  BY <1>2, PlacesAre DEF F!AddressAt
<1>4. p \notin Seen
  BY <1>1, <1>2, FsckFacts DEF Seen, Past
<1>5. /\ fused' \subseteq F!Data /\ errors' \in Nat
      /\ \/ fpc' = next
            /\ Checked(IF F!AddressAt(p) = 0 THEN Seen ELSE Seen \cup {p}, fused', errors')
         \/ fpc' \in {"panic", "hang"} /\ BadIndirect
  <2>1. inodes[inum][NDirect + 1] # 0 /\ held = {F!IBLOCK(inum), inodes[inum][NDirect + 1]}
    BY <1>2
  <2> HIDE DEF p, next, b
  <2> QED  BY <1>1, <1>2, <1>3, <1>4, <2>1, AddrChecked
<1>6. /\ ImageOK' /\ F!References' = F!References /\ (BadIndirect => BadIndirect') /\ inodes' = inodes
      /\ F!IBLOCK(inum)' = F!IBLOCK(inum) /\ F!Data' = F!Data /\ F!IndirectBlock' = b
  BY <1>1, <1>2, ImageStays DEF F!image, F!Data, F!DATASTART, F!NBITMAP, F!IBLOCK, F!IndirectBlock
<1>7. Loops'
  <2>1. i < NIndirect => i' \in 1..NIndirect
    BY <1>1, <1>2
  <2>2. fpc' \in {"entry", "end", "panic", "hang"} /\ (fpc' = "entry" => i < NIndirect)
    BY <1>5
  <2>3. i' \in Nat /\ (fpc' \in {"panic", "hang"} => BadIndirect')
    BY <1>1, <1>2, <1>5, <1>6
  <2> HIDE DEF b
  <2> QED  BY <1>1, <1>2, <1>5, <1>6, <2>1, <2>2, <2>3 DEF Loops, F!Inum, F!Block
<1>8. ASSUME fpc' \notin {"panic", "hang"} PROVE Checked(Seen, fused, errors)'
  <2>1. fpc' = next
    BY <1>5, <1>8
  <2>2. \A r \in F!References :
          (r[1] = inum /\ Past(r)') <=> (r[1] = inum /\ Past(r)) \/ r = p
    <3> SUFFICES ASSUME NEW r \in F!References
                 PROVE  (r[1] = inum /\ Past(r)') <=> (r[1] = inum /\ Past(r)) \/ r = p
      OBVIOUS
    <3>1. Past(r)' <=> r[3] = 0 \/ r[3] <= i
      BY <1>1, <1>2, <2>1, FsckFacts DEF Past
    <3>2. Past(r) <=> r[3] = 0 \/ r[3] < i
      BY <1>1 DEF Past
    <3> QED  BY <1>2, <3>1, <3>2, FsckFacts
  <2>3. Seen' = IF F!AddressAt(p) = 0 THEN Seen ELSE Seen \cup {p}
    <3>1. p \in F!References <=> F!AddressAt(p) # 0
      BY <1>3 DEF F!References
    <3>2. ASSUME NEW r \in F!References PROVE r \in Seen' <=> r \in Seen \/ r = p
      BY <1>1, <1>2, <1>6, <2>2 DEF Seen
    <3>3. Seen' \subseteq F!References /\ Seen \subseteq F!References
      BY <1>6 DEF Seen
    <3> QED  BY <1>4, <3>1, <3>2, <3>3
  <2> QED  BY <1>1, <1>5, <1>8, <2>3, CheckedStays
<1> QED  BY <1>5, <1>6, <1>7, <1>8 DEF FsckInv

LEMMA EndOfInodeKeeps ==
  ASSUME F!FsckAssumption, FsckInv, F!EndOfInode
  PROVE  FsckInv'
<1>1. /\ fpc = "end" /\ UNCHANGED F!image /\ held' = {} /\ inum' = inum + 1 /\ fpc' = "inode"
      /\ i' = i /\ fused' = fused /\ errors' = errors
  BY DEF F!EndOfInode, F!image
<1>2. /\ ImageOK /\ Loops /\ Checked(Seen, fused, errors) /\ fused \subseteq F!Data
      /\ inum \in DOMAIN inodes /\ inum \in F!Inum /\ NINODES \in Nat
  BY <1>1, FsckFacts, FsckNumbers DEF Loops, ImageOK
<1>3. ImageOK' /\ F!References' = F!References /\ F!Data' = F!Data
  BY <1>1, <1>2, ImageStays DEF F!Data, F!DATASTART, F!NBITMAP
<1>4. inum' \in F!Inum \cup {NINODES}
  BY <1>1, <1>2 DEF F!Inum
<1>5. Loops'
  BY <1>1, <1>2, <1>4, HeldSizes DEF Loops, F!Inum, F!Block
<1>6. Seen' = Seen
  <2>1. \A p \in F!References : p[1] < inum + 1 <=> p[1] < inum \/ p[1] = inum
    BY <1>2, FsckFacts DEF F!Inum
  <2> QED  BY <1>1, <1>3, <2>1 DEF Seen, Past
<1>7. Checked(Seen, fused, errors)'
  BY <1>1, <1>2, <1>6, CheckedStays
<1> QED  BY <1>1, <1>2, <1>3, <1>5, <1>7 DEF FsckInv

LEMMA FsckRests == FsckAtRest => FsckInv
<1> SUFFICES ASSUME FsckAtRest PROVE FsckInv
  OBVIOUS
<1>1. /\ inodes = <<>> /\ fpc = "done" /\ inum = NINODES /\ i = 1 /\ fused = {} /\ errors = 0
      /\ held = {}
  BY DEF FsckAtRest
<1>2. DOMAIN inodes = {}
  BY <1>1
<1>3. ImageOK
  BY <1>2 DEF ImageOK
<1>4. Loops
  BY <1>1, HeldSizes DEF Loops
<1>5. Seen = {}
  BY <1>2 DEF Seen, F!References, F!Places
<1>6. Checked(Seen, fused, errors)
  BY <1>1, <1>5 DEF Checked, Clean
<1> QED  BY <1>1, <1>3, <1>4, <1>6 DEF FsckInv

LEMMA FsckInductive == CallsSpec => []FsckInv
<1> USE CallsAssumption
<1>1. FsckInv /\ [F!Next]_(F!vars) => FsckInv'
  <2> SUFFICES ASSUME FsckInv, [F!Next]_(F!vars) PROVE FsckInv'
    OBVIOUS
  <2>1. CASE UNCHANGED F!vars
    <3>1. UNCHANGED F!image /\ fpc' = fpc /\ inum' = inum /\ i' = i /\ fused' = fused
          /\ errors' = errors /\ held' = held /\ inodes' = inodes
      BY <2>1 DEF F!vars, F!image
    <3>2. ImageOK' /\ F!References' = F!References /\ F!Data' = F!Data /\ (BadIndirect => BadIndirect')
          /\ F!IBLOCK(inum)' = F!IBLOCK(inum) /\ F!IndirectBlock' = F!IndirectBlock
      BY <3>1, ImageStays, FsckFacts
      DEF F!Data, F!DATASTART, F!NBITMAP, F!IBLOCK, F!IndirectBlock
    <3>3. Loops'
      BY <3>1, <3>2, FsckFacts DEF Loops, F!Inum, F!Block
    <3>4. Seen' = Seen
      BY <3>1, <3>2 DEF Seen, Past
    <3>5. fpc' \notin {"panic", "hang"} => Checked(Seen, fused, errors)'
      BY <3>1, <3>4, FsckFacts, CheckedStays
    <3> QED  BY <3>1, <3>2, <3>3, <3>5, FsckFacts DEF FsckInv
  <2> QED  BY <2>1, NextInodeKeeps, CheckDirectKeeps, CheckIndirectKeeps, ReadIndirectKeeps,
              CheckEntryKeeps, EndOfInodeKeeps DEF F!Next, F!Ended
<1>2. CallsInit => FsckInv
  BY FsckInit, FsckRests DEF CallsInit
<1>3. [CallsNext]_<<part, syscall, write, fsck>> => [F!Next]_(F!vars)
  BY DEF CallsNext, fsck, F!vars, F!image
<1> QED  BY <1>1, <1>2, <1>3, PTL DEF CallsSpec

\* At the end the check has been everywhere.
LEMMA DoneHasSeenAll ==
  ASSUME F!FsckAssumption, FsckInv, fpc = "done"
  PROVE  Checked(F!References, fused, errors)
<1>1. inum = NINODES /\ NINODES \in Nat
  BY FsckFacts, FsckNumbers DEF Loops
<1>2. Seen = F!References
  BY <1>1, FsckFacts DEF Seen
<1> QED  BY <1>2, FsckFacts

\* fsck_lite says "no errors" of the images in which every reference is to an
\* allocated block of the data region and no block is referenced twice, and of no
\* others: for every geometry of the disk and every content of it.
THEOREM FsckIsRight == CallsSpec => []Verdict
<1>1. FsckInv => Verdict
  BY CallsAssumption, DoneHasSeenAll DEF Verdict, F!Verdict, Checked, Clean, F!Consistent
<1> QED  BY <1>1, FsckInductive, PTL

\* It comes to that end, holding no buffer twice and reading nothing behind the disk,
\* unless an inode has an indirect block outside of the data region; and when it has
\* found no error the blocks that are counted as free and those that are referenced
\* fit into the data region.
THEOREM FsckIsSound == CallsSpec => []CheckSound
<1> USE CallsAssumption
<1>1. FsckInv => F!TypeOK
  BY FsckFacts DEF Loops, F!TypeOK
<1>2. FsckInv => F!ReturnsUnlessBadIndirect
  BY FsckFacts DEF Loops, BadIndirect, F!ReturnsUnlessBadIndirect
<1>3. FsckInv => F!CountsFit
  <2> SUFFICES ASSUME FsckInv, fpc = "done", errors = 0
               PROVE  F!CountFreeBlocks + F!Cardinality(F!References) <= F!Cardinality(F!Data)
    BY DEF F!CountsFit
  <2> DEFINE Free == {b \in F!Data : b \notin bitmap}
             Taken == F!Data \ Free
             f == [p \in F!References |-> F!AddressAt(p)]
  <2>1. Clean(F!References)
    BY DoneHasSeenAll DEF Checked
  <2>2. IsFiniteSet(F!Data)
    BY FsckNumbers, FS_Interval DEF F!Data
  <2>3. IsFiniteSet(Free) /\ IsFiniteSet(Taken)
    BY <2>2, FS_Subset
  <2>4. f \in Injection(F!References, Taken)
    <3>1. ASSUME NEW p \in F!References PROVE F!AddressAt(p) \in Taken
      BY <2>1 DEF Clean
    <3>2. ASSUME NEW p \in F!References, NEW q \in F!References, f[p] = f[q] PROVE p = q
      BY <2>1, <3>2 DEF Clean
    <3> QED  BY <3>1, <3>2 DEF Injection, IsInjective
  <2>5. IsFiniteSet(F!References) /\ Cardinality(F!References) <= Cardinality(Taken)
    <3> HIDE DEF f
    <3> QED  BY <2>3, <2>4, FS_Injection
  <2>6. Cardinality(Taken) = Cardinality(F!Data) - Cardinality(F!Data \cap Free)
    BY <2>2, <2>3, FS_Difference
  <2>7. F!Data \cap Free = Free
    OBVIOUS
  <2>8. Cardinality(Free) \in Nat /\ Cardinality(Taken) \in Nat /\ Cardinality(F!References) \in Nat
        /\ Cardinality(F!Data) \in Nat
    BY <2>2, <2>3, <2>5, FS_CardinalityType
  <2>9. \A S : F!Cardinality(S) = Cardinality(S)
    BY DEF F!Cardinality, Cardinality
  <2>10. F!CountFreeBlocks = Cardinality(Free)
    BY <2>9 DEF F!CountFreeBlocks
  <2>11. PICK r, d, e, t : /\ r = Cardinality(F!References) /\ d = Cardinality(F!Data)
                          /\ e = Cardinality(Free) /\ t = Cardinality(Taken)
    OBVIOUS
  <2>12. F!Cardinality(F!References) = r /\ F!Cardinality(F!Data) = d
    BY <2>9, <2>11
  <2> HIDE DEF Free, Taken
  <2>13. r <= t /\ t = d - e /\ {r, d, e, t} \subseteq Nat /\ F!CountFreeBlocks = e
    BY <2>5, <2>6, <2>7, <2>8, <2>10, <2>11
  <2> QED  BY <2>12, <2>13
<1> QED  BY <1>1, <1>2, <1>3, FsckInductive, PTL DEF CheckSound, F!CheckSound
=============================================================================
