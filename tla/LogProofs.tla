----------------------------- MODULE LogProofs -----------------------------
(***************************************************************************)
(* The invariants of module Log for every number of buffers and blocks,    *)
(* every size of the log and of the transactions that LogAssumption        *)
(* admits, and the proof that log.c implements AtomicDisk.                 *)
(***************************************************************************)
EXTENDS Log, FiniteSetTheorems, SequenceTheorems, WellFoundedInduction, TLAPS
-----------------------------------------------------------------------------
(* What the operations of the block cache return, for every number of      *)
(* buffers and every set of blocks.  An operation is described by the      *)
(* place p it works on, so that the proofs about the log need neither      *)
(* Victim nor PlaceOf.                                                     *)

\* A nonempty set of places has a last one.
LEMMA LastExists ==
  ASSUME NEW n \in Nat, NEW T \in SUBSET (1..n), T # {}
  PROVE  \E m \in T : \A k \in T : k <= m
<1> DEFINE Above(k) == {j \in T : j >= k}
           F == {Above(k) : k \in T}
<1>1. IsFiniteSet(1..n)
  BY FS_Interval
<1>2. F \subseteq FiniteSubsetsOf(1..n)
  BY <1>1, FS_Subset DEF FiniteSubsetsOf
<1>3. F # {}
  OBVIOUS
<1>4. IsWellFoundedOn(StrictSubsetOrdering(1..n), FiniteSubsetsOf(1..n))
  BY FS_StrictSubsetOrderingWellFounded
<1>5. \E X \in F : \A Y \in F : ~ (<<Y, X>> \in StrictSubsetOrdering(1..n))
  <2> HIDE DEF F
  <2> QED  BY <1>2, <1>3, <1>4, WFMin
<1>6. PICK m \in T : \A k \in T : ~ (<<Above(k), Above(m)>> \in StrictSubsetOrdering(1..n))
  BY <1>5
<1>7. ASSUME NEW k \in T, k > m PROVE FALSE
  <2>1. Above(k) \in SUBSET (1..n) /\ Above(m) \in SUBSET (1..n)
    OBVIOUS
  <2>2. Above(k) \subseteq Above(m)
    <3>1. \A j \in T : j \in Int
      OBVIOUS
    <3>2. ASSUME NEW j \in T, j >= k PROVE j >= m
      BY <3>1, <3>2, <1>7
    <3> QED  BY <3>2
  <2>3. m \in Above(m) /\ m \notin Above(k)
    BY <1>7
  <2>4. <<Above(k), Above(m)>> \in StrictSubsetOrdering(1..n)
    BY <2>1, <2>2, <2>3 DEF StrictSubsetOrdering
  <2> QED  BY <2>4, <1>6
<1> QED  BY <1>7

\* A search from head.prev for a free buffer finds the last free one.
LEMMA VictimProperties ==
  ASSUME NEW c \in Cache, \E k \in Place : c[k].ref = 0
  PROVE  /\ Victim(c) \in Place
         /\ c[Victim(c)].ref = 0
         /\ \A k \in Place : k > Victim(c) => c[k].ref # 0
<1> DEFINE T == {k \in Place : c[k].ref = 0}
<1>1. PICK m \in T : \A k \in T : k <= m
  BY LastExists, CacheAssumption DEF Place
<1>2. \E k \in Place : c[k].ref = 0 /\ \A j \in Place : c[j].ref = 0 => j <= k
  BY <1>1
<1> DEFINE P(k) == c[k].ref = 0 /\ \A j \in Place : c[j].ref = 0 => j <= k
<1>3. Victim(c) = CHOOSE k \in Place : P(k)
  BY DEF Victim
<1>4. Victim(c) \in Place /\ P(Victim(c))
  <2> HIDE DEF P
  <2>1. \E k \in Place : P(k)
    BY <1>2 DEF P
  <2> QED  BY <2>1, <1>3
<1> QED  BY <1>4 DEF Place

\* PlaceOf finds a cached block.
LEMMA PlaceOfProperties ==
  ASSUME NEW c, NEW b, IsCached(c, b)
  PROVE  PlaceOf(c, b) \in Place /\ c[PlaceOf(c, b)].blk = b
BY DEF IsCached, PlaceOf

\* bread returns the buffer of the block, and changes no other one; a miss
\* recycles a free buffer, all the buffers behind it being in use.
LEMMA GetProperties ==
  ASSUME NEW c \in Cache, OneBufferPerBlock(c),
         NEW b \in Block, NEW d \in Data, CanGet(c, b),
         NEW g, g = Get(c, b, d)
  PROVE  /\ g \in Cache
         /\ OneBufferPerBlock(g)
         /\ \E p \in Place :
              /\ \A k \in Place : k # p => g[k] = c[k]
              /\ g[p].blk = b
              /\ \/ c[p].blk = b /\ g[p].ref = c[p].ref + 1 /\ g[p].data = c[p].data
                 \/ /\ ~ IsCached(c, b) /\ c[p].ref = 0
                    /\ \A k \in Place : k > p => c[k].ref # 0
                    /\ g[p].ref = 1 /\ g[p].data = d
<1>1. CASE IsCached(c, b)
  <2> DEFINE p == PlaceOf(c, b)
  <2>1. p \in Place /\ c[p].blk = b
    BY <1>1, PlaceOfProperties
  <2>2. g = [c EXCEPT ![p].ref = @ + 1]
    BY <1>1 DEF Get
  <2>3. g \in Cache
    BY <2>1, <2>2 DEF Cache, Buffer
  <2>4. \A k \in Place : k # p => g[k] = c[k]
    BY <2>2 DEF Cache
  <2>5. g[p].blk = b /\ g[p].ref = c[p].ref + 1 /\ g[p].data = c[p].data
    BY <2>1, <2>2 DEF Cache, Buffer
  <2>6. OneBufferPerBlock(g)
    <3>1. \A k \in Place : g[k].blk = c[k].blk
      BY <2>1, <2>4, <2>5
    <3> QED  BY <3>1 DEF OneBufferPerBlock
  <2> QED  BY <2>1, <2>3, <2>4, <2>5, <2>6
<1>2. CASE ~ IsCached(c, b)
  <2> DEFINE p == Victim(c)
  <2>1. p \in Place /\ c[p].ref = 0 /\ \A k \in Place : k > p => c[k].ref # 0
    BY <1>2, VictimProperties DEF CanGet
  <2>2. g = [c EXCEPT ![p] = [blk |-> b, ref |-> 1, data |-> d]]
    BY <1>2 DEF Get
  <2>3. g \in Cache
    BY <2>1, <2>2 DEF Cache, Buffer
  <2>4. \A k \in Place : k # p => g[k] = c[k]
    BY <2>2 DEF Cache
  <2>5. g[p].blk = b /\ g[p].ref = 1 /\ g[p].data = d
    BY <2>1, <2>2 DEF Cache
  <2>6. OneBufferPerBlock(g)
    BY <1>2, <2>4, <2>5 DEF OneBufferPerBlock, IsCached
  <2> QED  BY <1>2, <2>1, <2>3, <2>4, <2>5, <2>6
<1> QED  BY <1>1, <1>2

\* A store into b->data changes the contents of the buffer and nothing else.
LEMMA FillProperties ==
  ASSUME NEW c \in Cache, OneBufferPerBlock(c), NEW b, NEW d \in Data,
         IsCached(c, b), b # NoBlock
  PROVE  /\ Fill(c, b, d) \in Cache
         /\ OneBufferPerBlock(Fill(c, b, d))
         /\ \A k \in Place :
              /\ Fill(c, b, d)[k].blk = c[k].blk
              /\ Fill(c, b, d)[k].ref = c[k].ref
              /\ Fill(c, b, d)[k].data = IF c[k].blk = b THEN d ELSE c[k].data
<1> DEFINE p == PlaceOf(c, b)
           g == Fill(c, b, d)
<1>1. p \in Place /\ c[p].blk = b
  BY PlaceOfProperties
<1>2. g = [c EXCEPT ![p].data = d]
  BY DEF Fill
<1>3. g \in Cache
  BY <1>1, <1>2 DEF Cache, Buffer
<1>4. \A k \in Place : k # p => g[k] = c[k] /\ c[k].blk # b
  BY <1>1, <1>2 DEF Cache, OneBufferPerBlock
<1>5. g[p].blk = b /\ g[p].ref = c[p].ref /\ g[p].data = d
  BY <1>1, <1>2 DEF Cache, Buffer
<1>6. \A k \in Place : /\ g[k].blk = c[k].blk
                       /\ g[k].ref = c[k].ref
                       /\ g[k].data = IF c[k].blk = b THEN d ELSE c[k].data
  BY <1>1, <1>4, <1>5
<1>7. OneBufferPerBlock(g)
  BY <1>6 DEF OneBufferPerBlock
<1> HIDE DEF g
<1>8. /\ g \in Cache /\ OneBufferPerBlock(g)
      /\ \A k \in Place : /\ g[k].blk = c[k].blk
                          /\ g[k].ref = c[k].ref
                          /\ g[k].data = IF c[k].blk = b THEN d ELSE c[k].data
  BY <1>3, <1>6, <1>7
<1> QED  BY <1>8 DEF g

\* brelse by the only user: the buffer becomes the first, those that were before
\* it follow.
LEMMA ReleaseProperties ==
  ASSUME NEW c \in Cache, OneBufferPerBlock(c), NEW b, b # NoBlock,
         NEW p \in Place, c[p].blk = b, c[p].ref = 1,
         NEW g, g = Release(c, b)
  PROVE  /\ g \in Cache
         /\ OneBufferPerBlock(g)
         /\ g[1] = [blk |-> b, ref |-> 0, data |-> c[p].data]
         /\ \A k \in Place : k # 1 /\ k <= p => g[k] = c[k - 1]
         /\ \A k \in Place : k > p => g[k] = c[k]
<1> DEFINE d == [c EXCEPT ![p].ref = @ - 1]
<1>1. PlaceOf(c, b) = p
  <2>1. IsCached(c, b)
    BY DEF IsCached
  <2> QED  BY <2>1, PlaceOfProperties DEF OneBufferPerBlock
<1>2. d[p] = [blk |-> b, ref |-> 0, data |-> c[p].data]
  BY DEF Cache, Buffer
<1>3. g = ToFront(d, p)
  <2>1. g = IF d[p].ref = 0 THEN ToFront(d, p) ELSE d
    BY <1>1 DEF Release
  <2> HIDE DEF d
  <2> QED  BY <2>1, <1>2
<1>4. g = [k \in Place |-> IF k = 1 THEN d[p] ELSE IF k <= p THEN d[k - 1] ELSE d[k]]
  BY <1>3 DEF ToFront
<1>5. d \in [Place -> Buffer]
  BY <1>2 DEF Cache, Buffer
<1>6. 1 \in Place /\ \A k \in Place : k # 1 => k - 1 \in Place
  BY CacheAssumption DEF Place
<1>7. g \in Cache
  BY <1>4, <1>5, <1>6 DEF Cache
<1>8. g[1] = [blk |-> b, ref |-> 0, data |-> c[p].data]
  BY <1>2, <1>4, <1>6
<1>9. \A k \in Place : k # p => d[k] = c[k]
  BY DEF Cache
<1>10. \A k \in Place : k # 1 /\ k <= p => g[k] = c[k - 1]
  <2> SUFFICES ASSUME NEW k \in Place, k # 1, k <= p PROVE g[k] = c[k - 1]
    OBVIOUS
  <2>1. k - 1 \in Place /\ k - 1 # p
    BY CacheAssumption DEF Place
  <2> QED  BY <2>1, <1>4, <1>9
<1>11. \A k \in Place : k > p => g[k] = c[k]
  BY <1>4, <1>9 DEF Place
<1>12. OneBufferPerBlock(g)
  <2> DEFINE src(k) == IF k = 1 THEN p ELSE IF k <= p THEN k - 1 ELSE k
  <2>1. \A k \in Place : src(k) \in Place /\ g[k].blk = c[src(k)].blk
    BY <1>6, <1>8, <1>10, <1>11 DEF Place
  <2>2. \A j, k \in Place : src(j) = src(k) => j = k
    BY DEF Place
  <2> HIDE DEF src
  <2> QED  BY <2>1, <2>2 DEF OneBufferPerBlock
<1> QED  BY <1>7, <1>8, <1>10, <1>11, <1>12

\* A block that nobody has, read, overwritten and released: it is the first,
\* and p is the place of the buffer that was used for it.
LEMMA OverwriteProperties ==
  ASSUME NEW c \in Cache, OneBufferPerBlock(c), NEW b \in Block, NEW d \in Data,
         \A k \in Place : c[k].blk = b => c[k].ref = 0,
         \E k \in Place : c[k].ref = 0,
         NEW g, g = Overwrite(c, b, d)
  PROVE  /\ g \in Cache
         /\ OneBufferPerBlock(g)
         /\ \E p \in Place :
              /\ c[p].ref = 0
              /\ \/ c[p].blk = b
                 \/ /\ ~ IsCached(c, b)
                    /\ \A k \in Place : k > p => c[k].ref # 0
              /\ g[1] = [blk |-> b, ref |-> 0, data |-> d]
              /\ \A k \in Place : k # 1 /\ k <= p => g[k] = c[k - 1]
              /\ \A k \in Place : k > p => g[k] = c[k]
<1> DEFINE c1 == Get(c, b, d)
           c2 == Fill(c1, b, d)
<1>1. b # NoBlock
  BY CacheAssumption
<1>2. CanGet(c, b)
  BY DEF CanGet
<1>3. /\ c1 \in Cache /\ OneBufferPerBlock(c1)
      /\ \E p \in Place :
              /\ \A k \in Place : k # p => c1[k] = c[k]
              /\ c1[p].blk = b
              /\ \/ c[p].blk = b /\ c1[p].ref = c[p].ref + 1 /\ c1[p].data = c[p].data
                 \/ /\ ~ IsCached(c, b) /\ c[p].ref = 0
                    /\ \A k \in Place : k > p => c[k].ref # 0
                    /\ c1[p].ref = 1 /\ c1[p].data = d
  BY <1>2, GetProperties
<1>4. PICK p \in Place :
              /\ \A k \in Place : k # p => c1[k] = c[k]
              /\ c1[p].blk = b
              /\ \/ c[p].blk = b /\ c1[p].ref = c[p].ref + 1 /\ c1[p].data = c[p].data
                 \/ /\ ~ IsCached(c, b) /\ c[p].ref = 0
                    /\ \A k \in Place : k > p => c[k].ref # 0
                    /\ c1[p].ref = 1 /\ c1[p].data = d
  BY <1>3
<1>5. c[p].ref = 0 /\ c1[p].ref = 1
  BY <1>4
<1>6. IsCached(c1, b)
  BY <1>4 DEF IsCached
<1> HIDE DEF c1
<1>7. /\ c2 \in Cache /\ OneBufferPerBlock(c2)
      /\ \A k \in Place : /\ c2[k].blk = c1[k].blk
                          /\ c2[k].ref = c1[k].ref
                          /\ c2[k].data = IF c1[k].blk = b THEN d ELSE c1[k].data
  BY <1>1, <1>3, <1>6, FillProperties
<1> HIDE DEF c2
<1>8. \A k \in Place : k # p => c2[k] = c[k]
  <2> SUFFICES ASSUME NEW k \in Place, k # p PROVE c2[k] = c[k]
    OBVIOUS
  <2>1. c1[k].blk # b
    BY <1>1, <1>3, <1>4 DEF OneBufferPerBlock
  <2>2. c2[k].blk = c1[k].blk /\ c2[k].ref = c1[k].ref /\ c2[k].data = c1[k].data
    BY <1>7, <2>1
  <2>3. c2[k] \in Buffer /\ c1[k] \in Buffer
    BY <1>3, <1>7 DEF Cache
  <2>4. c2[k] = c1[k]
    BY <2>2, <2>3 DEF Buffer
  <2> QED  BY <2>4, <1>4
<1>9. c2[p].blk = b /\ c2[p].ref = 1 /\ c2[p].data = d
  BY <1>4, <1>5, <1>7
<1>10. g = Release(c2, b)
  BY DEF Overwrite, c1, c2
<1>11. /\ g \in Cache
       /\ OneBufferPerBlock(g)
       /\ g[1] = [blk |-> b, ref |-> 0, data |-> d]
       /\ \A k \in Place : k # 1 /\ k <= p => g[k] = c2[k - 1]
       /\ \A k \in Place : k > p => g[k] = c2[k]
  BY <1>1, <1>7, <1>9, <1>10, ReleaseProperties
<1>12. \A k \in Place : k # 1 /\ k <= p => g[k] = c[k - 1]
  <2> SUFFICES ASSUME NEW k \in Place, k # 1, k <= p PROVE g[k] = c[k - 1]
    OBVIOUS
  <2>1. k - 1 \in Place /\ k - 1 # p
    BY CacheAssumption DEF Place
  <2> QED  BY <2>1, <1>8, <1>11
<1>13. \A k \in Place : k > p => g[k] = c[k]
  BY <1>8, <1>11 DEF Place
<1> QED  BY <1>4, <1>5, <1>11, <1>12, <1>13

-----------------------------------------------------------------------------
(* The log.                                                                *)

\* What the assumptions on the constants say, in the forms the proofs use.
LEMMA ConstantFacts ==
  /\ NBuf \in Nat /\ NBuf > 0 /\ NLog \in Nat /\ LogStart \in Nat
  /\ MaxTxn \in Nat /\ MaxTxn < NLog /\ 2 * MaxTxn < NBuf
  /\ MaxHold \in Nat /\ MaxHold < NBuf
  /\ LogStart \in Block /\ LogStart \notin Home
  /\ Home \subseteq Block /\ NoBlock \notin Block /\ NoBlock \notin Home
  /\ Zero \in Data
BY CacheAssumption, LogAssumption

\* A counter that is not positive is zero.
LEMMA NotPositive ==
  ASSUME NEW n \in Nat, ~ (n > 0)
  PROVE  n = 0
OBVIOUS

\* The log blocks are neither the header nor home blocks.
LEMMA SlotFacts ==
  ASSUME NEW i \in Nat, 0 < i, i < NLog
  PROVE  /\ InstallSlot(i) \in Block /\ InstallSlot(i) \in Nat
         /\ InstallSlot(i) \notin Home
         /\ InstallSlot(i) # LogStart
         /\ \A j \in Nat : InstallSlot(i) = InstallSlot(j) => i = j
<1>1. InstallSlot(i) \in LogStart .. (LogStart + NLog - 1)
  BY LogAssumption DEF InstallSlot
<1> QED  BY <1>1, LogAssumption DEF InstallSlot

\* Index finds a block that is in the log.
LEMMA IndexFacts ==
  ASSUME NEW s, NEW b, IsIn(s, b)
  PROVE  Index(s, b) \in 1..Len(s) /\ s[Index(s, b)] = b
BY DEF IsIn, Index

\* A sequence without repetition is no longer than the set of its elements.
LEMMA NoRepetitionBound ==
  ASSUME NEW S, NEW s \in Seq(S), NEW U, IsFiniteSet(U),
         \A i \in 1..Len(s) : s[i] \in U,
         \A i, j \in 1..Len(s) : s[i] = s[j] => i = j
  PROVE  Len(s) <= Cardinality(U)
<1>1. Len(s) \in Nat /\ s \in [1..Len(s) -> U]
  BY LenProperties
<1>2. s \in Injection(1..Len(s), U)
  BY <1>1 DEF Injection, IsInjective
<1>3. Cardinality(1..Len(s)) <= Cardinality(U)
  BY <1>2, FS_Injection
<1>4. Cardinality(1..Len(s)) = Len(s)
  <2> DEFINE n == Len(s)
  <2>1. n \in Nat
    BY <1>1
  <2> HIDE DEF n
  <2>2. Cardinality(1..n) = n
    BY <2>1, FS_Interval
  <2> QED  BY <2>2 DEF n
<1> QED  BY <1>3, <1>4

\* The places are at most as many as the blocks they hold.
LEMMA PlacesBound ==
  ASSUME OneBufferPerBlock(bcache), NEW U, IsFiniteSet(U), NoBlock \notin U,
         \A k \in Place : bcache[k].blk \in U
  PROVE  NBuf <= Cardinality(U)
<1> DEFINE f == [k \in Place |-> bcache[k].blk]
<1>1. f \in Injection(Place, U)
  BY DEF Injection, IsInjective, OneBufferPerBlock
<1>2. Cardinality(Place) <= Cardinality(U)
  <2> HIDE DEF f
  <2> QED  BY <1>1, FS_Injection
<1>3. Cardinality(Place) = NBuf
  BY ConstantFacts, FS_Interval DEF Place
<1> QED  BY <1>2, <1>3

\* In an operation some buffer is free.
LEMMA FreeBuffer ==
  ASSUME IInv, pc = "run", outstanding > 0
  PROVE  \E k \in Place : bcache[k].ref = 0
<1> SUFFICES ASSUME \A k \in Place : bcache[k].ref # 0 PROVE FALSE
  OBVIOUS
<1>1. \A k \in Place : bcache[k].ref > 0
  BY DEF IInv, TypeOK, Cache, Buffer
<1>2. \A k \in Place : bcache[k].blk \in used
  BY <1>1 DEF IInv, TypeOK, CacheWellFormed
<1>3. NBuf <= Cardinality(used)
  BY <1>2, PlacesBound, ConstantFacts DEF IInv, CacheWellFormed, TxnUse, TypeOK
<1>4. IsFiniteSet(used) /\ Cardinality(used) <= MaxTxn
  BY DEF IInv, TxnUse
<1>5. Cardinality(used) \in Nat
  BY <1>4, FS_CardinalityType
<1> QED  BY <1>3, <1>4, <1>5, ConstantFacts

\* Why the buffers need no pin: the buffer that bget recycles for a block of the
\* transaction holds no block of the transaction.
LEMMA VictimNotTouched ==
  ASSUME IInv, pc = "run", outstanding > 0,
         NEW b \in Block, ~ IsCached(bcache, b),
         NEW U, IsFiniteSet(U), Touched \subseteq U, b \in U, NoBlock \notin U,
         Cardinality(U) <= NBuf,
         NEW p \in Place, bcache[p].ref = 0,
         \A k \in Place : k > p => bcache[k].ref # 0
  PROVE  bcache[p].blk \notin Touched
<1> SUFFICES ASSUME bcache[p].blk \in Touched PROVE FALSE
  OBVIOUS
<1>1. \A k \in Place : k < p => bcache[k].blk \in Touched
  <2>1. \A j \in 1..(p - 1) : bcache[j].blk \in Touched
    BY DEF IInv, LoggedStayCached
  <2> QED  BY <2>1 DEF Place
<1>2. \A k \in Place : k > p => bcache[k].blk \in Touched
  BY DEF IInv, TypeOK, CacheWellFormed, Cache, Buffer, Touched
<1>3. \A k \in Place : bcache[k].blk \in Touched
  BY <1>1, <1>2 DEF Place
<1>4. \A k \in Place : bcache[k].blk \in U \ {b}
  BY <1>3 DEF IsCached
<1>5. NBuf <= Cardinality(U \ {b})
  <2>1. IsFiniteSet(U \ {b})
    BY FS_RemoveElement
  <2>2. OneBufferPerBlock(bcache)
    BY DEF IInv, CacheWellFormed
  <2> QED  BY <1>4, <2>1, <2>2, PlacesBound
<1>6. Cardinality(U \ {b}) = Cardinality(U) - 1 /\ Cardinality(U) \in Nat
  BY FS_RemoveElement, FS_CardinalityType
<1> QED  BY <1>5, <1>6, ConstantFacts

\* The log blocks of the first n entries.
Slots(n) == {InstallSlot(i) : i \in 1..n}

\* A transaction that uses the blocks U and n log blocks touches at most
\* Cardinality(U) + n blocks.
LEMMA TouchedBound ==
  ASSUME NEW n \in Nat, NEW U \in SUBSET Home, IsFiniteSet(U), n < NLog
  PROVE  /\ IsFiniteSet(U \cup Slots(n))
         /\ Cardinality(U \cup Slots(n)) <= Cardinality(U) + n
         /\ NoBlock \notin U \cup Slots(n)
<1> DEFINE I == (LogStart + 1) .. (LogStart + n)
<1>1. Slots(n) \subseteq I /\ Slots(n) \subseteq Block
  BY ConstantFacts, SlotFacts DEF Slots, InstallSlot
<1>2. IsFiniteSet(I) /\ Cardinality(I) = n
  BY FS_Interval, ConstantFacts
<1>3. IsFiniteSet(Slots(n)) /\ Cardinality(Slots(n)) <= n
  <2> HIDE DEF I
  <2> QED  BY <1>1, <1>2, FS_Subset
<1>4. /\ IsFiniteSet(U \cup Slots(n))
      /\ Cardinality(U \cup Slots(n))
           = Cardinality(U) + Cardinality(Slots(n)) - Cardinality(U \cap Slots(n))
  BY <1>3, FS_Union
<1>5. Cardinality(U \cap Slots(n)) \in Nat
  BY <1>3, FS_Intersection, FS_CardinalityType
<1>6. Cardinality(U) \in Nat /\ Cardinality(Slots(n)) \in Nat
  BY <1>3, FS_CardinalityType
<1>7. Cardinality(U \cup Slots(n)) <= Cardinality(U) + n
  BY <1>3, <1>4, <1>5, <1>6
<1>8. NoBlock \notin U \cup Slots(n)
  BY <1>1, ConstantFacts
<1> QED  BY <1>4, <1>7, <1>8
-----------------------------------------------------------------------------
\* The state before initlog, with an empty log and an empty cache.
LEMMA InitIInv == Init => IInv
<1> SUFFICES ASSUME Init PROVE IInv
  OBVIOUS
<1> USE DEF Init, EmptyCache
<1>1. TypeOK
  BY ConstantFacts, EmptySeq DEF TypeOK, Phase, Cache, Buffer
<1>2. NeverPanics
  BY DEF NeverPanics
<1>3. CacheWellFormed
  BY DEF CacheWellFormed, OneBufferPerBlock
<1>4. CacheCurrent
  BY ConstantFacts DEF CacheCurrent
<1>5. DiskCurrent
  BY ConstantFacts DEF DiskCurrent
<1>6. HeadersAgree
  BY ConstantFacts DEF HeadersAgree, NoBlockLoggedTwice
<1>7. TxnUse
  BY DEF TxnUse
<1>8. LoggedStayCached
  BY DEF LoggedStayCached
<1> QED  BY <1>1, <1>2, <1>3, <1>4, <1>5, <1>6, <1>7, <1>8 DEF IInv

\* begin_op: no buffer is held, so none belongs to the wrong side.
LEMMA BeginOpIInv == IInv /\ BeginOp => IInv'
<1> SUFFICES ASSUME IInv, BeginOp PROVE IInv'
  OBVIOUS
<1> USE DEF BeginOp, IInv
<1>1. TypeOK' /\ NeverPanics'
  BY DEF TypeOK, NeverPanics
<1>2. CacheWellFormed'
  BY DEF CacheWellFormed, NothingHeld, HeldPlaces, TypeOK
<1>3. CacheCurrent'
  BY DEF CacheCurrent
<1>4. DiskCurrent'
  BY DEF DiskCurrent, Pending
<1>5. HeadersAgree'
  BY DEF HeadersAgree, NoBlockLoggedTwice
<1>6. TxnUse'
  BY DEF TxnUse, TypeOK
<1>7. LoggedStayCached'
  BY DEF LoggedStayCached, Touched, IsCached
<1> QED  BY <1>1, <1>2, <1>3, <1>4, <1>5, <1>6, <1>7

\* end_op: the last one hands the logged blocks over to commit().
LEMMA EndOpIInv == IInv /\ EndOp => IInv'
<1> SUFFICES ASSUME IInv, EndOp PROVE IInv'
  OBVIOUS
<1> USE DEF EndOp, IInv
<1>0. Len(lh) \in Nat
  BY LenProperties DEF TypeOK
<1>1. TypeOK' /\ NeverPanics'
  BY DEF TypeOK, NeverPanics, Phase
<1>2. CacheWellFormed'
  BY DEF CacheWellFormed, NothingHeld, HeldPlaces, TypeOK
<1>3. CacheCurrent'
  BY DEF CacheCurrent
<1>4. DiskCurrent'
  BY DEF DiskCurrent, Pending
<1>5. HeadersAgree'
  BY <1>0 DEF HeadersAgree, NoBlockLoggedTwice, TypeOK
<1>6. TxnUse'
  <2> SUFFICES ASSUME pc' = "run" PROVE TxnUse'
    BY DEF TxnUse
  <2>1. CASE outstanding' = 0
    <3>1. Len(lh) = 0
      <4>1. ~ (Len(lh) > 0)
        BY <2>1
      <4> QED  BY <1>0, <4>1, NotPositive
    <3>2. lh = <<>>
      BY <3>1, EmptySeq DEF TypeOK
    <3> QED  BY <2>1, <3>1, <3>2, FS_EmptySet, ConstantFacts DEF TxnUse
  <2>2. CASE outstanding' # 0
    BY <2>2 DEF TxnUse
  <2> QED  BY <2>1, <2>2
<1>7. LoggedStayCached'
  <2> SUFFICES ASSUME pc' = "run" PROVE LoggedStayCached'
    BY DEF LoggedStayCached
  <2>1. CASE outstanding' = 0
    <3>1. Len(lh) = 0
      <4>1. ~ (Len(lh) > 0)
        BY <2>1
      <4> QED  BY <1>0, <4>1, NotPositive
    <3> QED  BY <2>1, <3>1 DEF LoggedStayCached, Touched
  <2>2. CASE outstanding' # 0
    BY <2>2 DEF LoggedStayCached, Touched, IsCached
  <2> QED  BY <2>1, <2>2
<1> QED  BY <1>1, <1>2, <1>3, <1>4, <1>5, <1>6, <1>7

\* A raw write updates disk, buffer and `latest' together.
LEMMA BwriteRawIInv ==
  ASSUME NEW b \in Home, NEW v \in Data, IInv, BwriteRaw(b, v)
  PROVE  IInv'
<1> USE DEF BwriteRaw, IInv
<1>1. b # NoBlock /\ b \in Block /\ IsCached(bcache, b)
  BY ConstantFacts DEF IsHeld, IsCached
<1>2. /\ bcache' \in Cache
      /\ OneBufferPerBlock(bcache')
      /\ \A k \in Place :
           /\ bcache'[k].blk = bcache[k].blk
           /\ bcache'[k].ref = bcache[k].ref
           /\ bcache'[k].data = IF bcache[k].blk = b THEN v ELSE bcache[k].data
  BY <1>1, FillProperties DEF TypeOK, CacheWellFormed
<1>3. lh = <<>> /\ used = {} /\ diskHead = <<>> /\ Len(lh) = 0 /\ Len(diskHead) = 0
  BY DEF TxnUse, HeadersAgree
<1>4. TypeOK' /\ NeverPanics'
  BY <1>2 DEF TypeOK, NeverPanics
<1>5. CacheWellFormed'
  BY <1>2 DEF CacheWellFormed
<1>6. CacheCurrent'
  <2> SUFFICES ASSUME NEW k \in Place
               PROVE  LET c == bcache'[k].blk
                      IN  /\ c \in Home => bcache'[k].data = latest'[c]
                          /\ c \in Block \ (Home \cup {LogStart}) => bcache'[k].data = disk'[c]
    BY DEF CacheCurrent
  <2>1. bcache'[k].blk = bcache[k].blk
    BY <1>2
  <2>2. CASE bcache[k].blk = b
    BY <1>2, <2>1, <2>2 DEF TypeOK
  <2>3. CASE bcache[k].blk # b
    BY <1>2, <2>1, <2>3 DEF TypeOK, CacheCurrent
  <2> QED  BY <2>2, <2>3
<1>7. DiskCurrent'
  BY <1>1, <1>3 DEF DiskCurrent, Pending, TypeOK
<1>8. HeadersAgree'
  BY DEF HeadersAgree, NoBlockLoggedTwice
<1>9. TxnUse'
  BY DEF TxnUse
<1>10. LoggedStayCached'
  BY <1>3 DEF LoggedStayCached, Touched
<1> QED  BY <1>4, <1>5, <1>6, <1>7, <1>8, <1>9, <1>10

\* bread: recycling a buffer leaves the logged blocks in the cache, because
\* there are more buffers than the transaction has touched.
LEMMA BreadIInv ==
  ASSUME NEW b \in Home, IInv, Bread(b)
  PROVE  IInv'
<1> USE DEF Bread, IInv
<1>1. b # NoBlock /\ b \in Block /\ disk[b] \in Data
  BY ConstantFacts DEF TypeOK
<1>2. CanGet(bcache, b)
  <2> SUFFICES ASSUME \A k \in Place : bcache[k].ref # 0 PROVE FALSE
    BY DEF CanGet
  <2>1. HeldPlaces(bcache) = Place
    BY DEF HeldPlaces, TypeOK, Cache, Buffer
  <2>2. Cardinality(Place) = NBuf
    BY ConstantFacts, FS_Interval DEF Place
  <2> QED  BY <2>1, <2>2, ConstantFacts
<1>3. bcache' = Get(bcache, b, disk[b]) /\ Use(b) /\ pc' = pc
  BY <1>2
<1>4. /\ bcache' \in Cache /\ OneBufferPerBlock(bcache')
      /\ \E p \in Place :
           /\ \A k \in Place : k # p => bcache'[k] = bcache[k]
           /\ bcache'[p].blk = b
           /\ \/ /\ bcache[p].blk = b
                 /\ bcache'[p].ref = bcache[p].ref + 1 /\ bcache'[p].data = bcache[p].data
              \/ /\ ~ IsCached(bcache, b) /\ bcache[p].ref = 0
                 /\ \A k \in Place : k > p => bcache[k].ref # 0
                 /\ bcache'[p].ref = 1 /\ bcache'[p].data = disk[b]
  <2>1. bcache \in Cache /\ OneBufferPerBlock(bcache)
    BY DEF TypeOK, CacheWellFormed
  <2>2. bcache' = Get(bcache, b, disk[b])
    BY <1>3
  <2> HIDE DEF IInv, Bread
  <2> QED  BY <1>1, <1>2, <2>1, <2>2, GetProperties
<1>5. PICK p \in Place :
           /\ \A k \in Place : k # p => bcache'[k] = bcache[k]
           /\ bcache'[p].blk = b
           /\ \/ /\ bcache[p].blk = b
                 /\ bcache'[p].ref = bcache[p].ref + 1 /\ bcache'[p].data = bcache[p].data
              \/ /\ ~ IsCached(bcache, b) /\ bcache[p].ref = 0
                 /\ \A k \in Place : k > p => bcache[k].ref # 0
                 /\ bcache'[p].ref = 1 /\ bcache'[p].data = disk[b]
  BY <1>4
<1>6. bcache[p].ref = 0 /\ bcache'[p].ref = 1
  BY <1>5 DEF IsHeld, TypeOK, Cache, Buffer
<1>7. /\ used' \in SUBSET Home /\ used \subseteq used'
      /\ outstanding = 0 => used' = {} /\ lh = <<>> /\ Len(lh) = 0
      /\ outstanding # 0 => used' = used \cup {b}
      /\ IsFiniteSet(used') /\ Cardinality(used') <= MaxTxn
  <2>1. CASE outstanding = 0
    BY <1>3, <2>1, FS_EmptySet, ConstantFacts DEF TxnUse, Use, TypeOK
  <2>2. CASE outstanding # 0
    <3>1. used' = used \cup {b} /\ IsFiniteSet(used) /\ Cardinality(used) <= MaxTxn
      BY <1>3, <2>2 DEF TxnUse, Use
    <3>2. Cardinality(used) \in Nat
      BY <3>1, FS_CardinalityType
    <3>3. b \in used \/ Cardinality(used) < MaxTxn
      BY <2>2 DEF MayUse
    <3>4. IsFiniteSet(used') /\ Cardinality(used') <= MaxTxn
      <4>1. /\ IsFiniteSet(used')
            /\ Cardinality(used') = IF b \in used THEN Cardinality(used) ELSE Cardinality(used) + 1
        BY <3>1, FS_AddElement
      <4> QED  BY <3>1, <3>2, <3>3, <4>1, ConstantFacts
    <3> QED  BY <2>2, <3>1, <3>4 DEF TypeOK
  <2> QED  BY <2>1, <2>2
<1>8. TypeOK' /\ NeverPanics'
  BY <1>3, <1>4, <1>7 DEF TypeOK, NeverPanics
<1>9. CacheWellFormed'
  <2>1. \A k \in Place : bcache'[k].ref <= 1
    BY <1>5, <1>6 DEF CacheWellFormed
  <2>2. \A k \in Place : bcache'[k].ref > 0 =>
          bcache'[k].blk \in IF outstanding = 0 THEN Home ELSE used'
    BY <1>5, <1>7 DEF CacheWellFormed
  <2> QED  BY <1>3, <1>4, <2>1, <2>2 DEF CacheWellFormed
<1>10. CacheCurrent'
  <2>1. \A k \in Place : k # p =>
          LET c == bcache'[k].blk
          IN  /\ c \in Home => bcache'[k].data = latest'[c]
              /\ c \in Block \ (Home \cup {LogStart}) => bcache'[k].data = disk'[c]
    BY <1>5 DEF CacheCurrent
  <2>2. bcache'[p].data = latest[b]
    <3>1. CASE bcache[p].blk = b
      BY <1>5, <3>1 DEF CacheCurrent, IsCached
    <3>2. CASE ~ IsCached(bcache, b)
      <4>1. b \notin Pending
        BY <3>2 DEF Pending, LoggedStayCached
      <4>2. bcache'[p].data = disk[b]
        BY <1>5, <3>2 DEF IsCached
      <4> QED  BY <4>1, <4>2 DEF DiskCurrent
    <3> QED  BY <1>5, <3>1, <3>2
  <2> QED  BY <1>5, <2>1, <2>2 DEF CacheCurrent
<1>11. DiskCurrent'
  BY <1>3 DEF DiskCurrent, Pending
<1>12. HeadersAgree'
  BY <1>3 DEF HeadersAgree, NoBlockLoggedTwice
<1>13. TxnUse'
  BY <1>3, <1>7 DEF TxnUse
<1>14. LoggedStayCached'
  <2>1. CASE outstanding = 0
    BY <1>7, <2>1 DEF LoggedStayCached, Touched
  <2>2. CASE outstanding # 0
    <3>1. Touched' = Touched \cup {b} /\ Touched' = used' \cup Slots(Len(lh))
      BY <1>7, <2>2 DEF Touched, Slots
    <3>2. Len(lh) \in Nat /\ Len(lh) <= MaxTxn
      BY LenProperties DEF HeadersAgree, TypeOK
    <3>3. IsFiniteSet(Touched') /\ Cardinality(Touched') <= NBuf /\ NoBlock \notin Touched'
      <4>1. /\ IsFiniteSet(Touched')
            /\ Cardinality(Touched') <= Cardinality(used') + Len(lh)
            /\ NoBlock \notin Touched'
        <5>1. Len(lh) < NLog
          BY <3>2, ConstantFacts
        <5> HIDE DEF IInv, Bread
        <5> QED  BY <1>7, <3>1, <3>2, <5>1, TouchedBound
      <4>2. Cardinality(used') \in Nat /\ Cardinality(Touched') \in Nat
        BY <1>7, <4>1, FS_CardinalityType
      <4> QED  BY <1>7, <3>2, <4>1, <4>2, ConstantFacts
    <3>4. bcache[p].blk = b \/ bcache[p].blk \notin Touched
      <4>1. outstanding > 0
        BY <2>2 DEF TypeOK
      <4>2. CASE ~ IsCached(bcache, b)
        <5>1. \A k \in Place : k > p => bcache[k].ref # 0
          BY <1>5, <4>2 DEF IsCached
        <5>2. Touched \subseteq Touched' /\ b \in Touched'
          BY <3>1
        <5> HIDE DEF IInv
        <5> QED  BY <1>1, <1>6, <3>3, <4>1, <4>2, <5>1, <5>2, VictimNotTouched
      <4> QED  BY <1>5, <4>2
    <3>5. \A i \in 1..Len(lh) : IsCached(bcache', lh[i])
      <4> SUFFICES ASSUME NEW i \in 1..Len(lh) PROVE IsCached(bcache', lh[i])
        OBVIOUS
      <4>1. lh[i] \in Touched
        BY DEF TxnUse, Touched
      <4>2. PICK k \in Place : bcache[k].blk = lh[i]
        BY DEF LoggedStayCached, IsCached
      <4>3. CASE k = p
        <5>1. bcache[p].blk = b
          BY <3>4, <4>1, <4>2, <4>3
        <5> QED  BY <1>5, <4>2, <4>3, <5>1 DEF IsCached
      <4>4. CASE k # p
        BY <1>5, <4>2, <4>4 DEF IsCached
      <4> QED  BY <4>3, <4>4
    <3>6. ASSUME NEW k \in Place, bcache'[k].ref = 0, bcache'[k].blk \in Touched',
                 NEW j \in 1..(k - 1)
          PROVE  bcache'[j].blk \in Touched'
      <4>1. k # p /\ bcache'[k] = bcache[k]
        BY <1>5, <1>6, <3>6
      <4>2. bcache[k].blk # b
        BY <1>1, <1>4, <1>5, <4>1 DEF OneBufferPerBlock
      <4>3. bcache[k].blk \in Touched
        BY <3>1, <3>6, <4>1, <4>2
      <4>4. bcache[j].blk \in Touched
        BY <3>6, <4>1, <4>3 DEF LoggedStayCached
      <4>5. j \in Place
        BY ConstantFacts DEF Place
      <4> QED  BY <1>5, <3>1, <4>4, <4>5
    <3> QED  BY <3>5, <3>6 DEF LoggedStayCached
  <2> QED  BY <2>1, <2>2
<1> QED  BY <1>8, <1>9, <1>10, <1>11, <1>12, <1>13, <1>14

\* brelse moves the buffer in front of all that do not belong to the transaction.
LEMMA BrelseIInv ==
  ASSUME NEW b \in Home, IInv, Brelse(b)
  PROVE  IInv'
<1> USE DEF Brelse, IInv
<1>1. b # NoBlock /\ 1 \in Place
  BY ConstantFacts DEF Place
<1>2. PICK p \in Place : bcache[p].blk = b /\ bcache[p].ref = 1
  BY DEF IsHeld, CacheWellFormed, TypeOK, Cache, Buffer
<1>3. /\ bcache' \in Cache /\ OneBufferPerBlock(bcache')
      /\ bcache'[1] = [blk |-> b, ref |-> 0, data |-> bcache[p].data]
      /\ \A k \in Place : k # 1 /\ k <= p => bcache'[k] = bcache[k - 1]
      /\ \A k \in Place : k > p => bcache'[k] = bcache[k]
  <2>1. bcache \in Cache /\ OneBufferPerBlock(bcache) /\ bcache' = Release(bcache, b)
    BY DEF TypeOK, CacheWellFormed
  <2> HIDE DEF IInv, Brelse
  <2> QED  BY <1>1, <1>2, <2>1, ReleaseProperties
<1>4. \A k \in Place : k # 1 /\ k <= p => k - 1 \in Place /\ k - 1 # p
  BY ConstantFacts DEF Place
<1>5. \A k \in Place : k # 1 => \E j \in Place : bcache'[k] = bcache[j]
  BY <1>3, <1>4 DEF Place
<1>6. TypeOK' /\ NeverPanics'
  BY <1>3 DEF TypeOK, NeverPanics
<1>7. CacheWellFormed'
  <2>1. \A k \in Place : bcache'[k].ref <= 1
    BY <1>3, <1>5 DEF CacheWellFormed
  <2>2. \A k \in Place : bcache'[k].ref > 0 =>
          bcache'[k].blk \in IF outstanding = 0 THEN Home ELSE used
    BY <1>3, <1>5 DEF CacheWellFormed
  <2> QED  BY <1>3, <2>1, <2>2 DEF CacheWellFormed
<1>8. CacheCurrent'
  <2>1. \A k \in Place : k # 1 =>
          LET c == bcache'[k].blk
          IN  /\ c \in Home => bcache'[k].data = latest'[c]
              /\ c \in Block \ (Home \cup {LogStart}) => bcache'[k].data = disk'[c]
    BY <1>5 DEF CacheCurrent
  <2>2. bcache'[1].blk = b /\ bcache'[1].data = latest[b]
    BY <1>2, <1>3 DEF CacheCurrent
  <2> QED  BY <2>1, <2>2 DEF CacheCurrent
<1>9. DiskCurrent'
  BY DEF DiskCurrent, Pending
<1>10. HeadersAgree'
  BY DEF HeadersAgree, NoBlockLoggedTwice
<1>11. TxnUse'
  BY DEF TxnUse
<1>12. LoggedStayCached'
  <2>1. CASE outstanding = 0
    BY <2>1 DEF LoggedStayCached, Touched, TxnUse
  <2>2. CASE outstanding # 0
    <3>1. b \in Touched /\ Touched' = Touched
      BY <1>2, <2>2 DEF CacheWellFormed, Touched
    <3>2. \A i \in 1..Len(lh) : IsCached(bcache', lh[i])
      <4> SUFFICES ASSUME NEW i \in 1..Len(lh) PROVE IsCached(bcache', lh[i])
        OBVIOUS
      <4>1. PICK k \in Place : bcache[k].blk = lh[i]
        BY DEF LoggedStayCached, IsCached
      <4>2. CASE k = p
        BY <1>1, <1>2, <1>3, <4>1, <4>2 DEF IsCached
      <4>3. CASE k < p
        <5>1. k + 1 \in Place /\ k + 1 # 1 /\ k + 1 <= p /\ (k + 1) - 1 = k
          BY <4>3, ConstantFacts DEF Place
        <5>2. bcache'[k + 1] = bcache[k]
          BY <1>3, <5>1
        <5> QED  BY <4>1, <5>1, <5>2 DEF IsCached
      <4>4. CASE k > p
        BY <1>3, <4>1, <4>4 DEF IsCached
      <4> QED  BY <4>2, <4>3, <4>4 DEF Place
    <3>3. ASSUME NEW k \in Place, bcache'[k].ref = 0, bcache'[k].blk \in Touched,
                 NEW j \in 1..(k - 1)
          PROVE  bcache'[j].blk \in Touched
      <4>1. j \in Place /\ k # 1 /\ j < k /\ j - 1 < k - 1
        BY ConstantFacts DEF Place
      <4>2. CASE j = 1
        BY <1>3, <3>1, <4>2
      <4>3. CASE j # 1 /\ k <= p
        <5>1. bcache'[k] = bcache[k - 1] /\ bcache'[j] = bcache[j - 1]
          BY <1>3, <4>1, <4>3 DEF Place
        <5>2. k - 1 \in Place /\ j - 1 \in 1..((k - 1) - 1)
          BY <4>1, <4>3, <1>4, ConstantFacts DEF Place
        <5> QED  BY <3>3, <5>1, <5>2 DEF LoggedStayCached
      <4>4. CASE j # 1 /\ k > p
        <5>1. bcache'[k] = bcache[k]
          BY <1>3, <4>4
        <5>2. bcache[j].blk \in Touched /\ bcache[j - 1].blk \in Touched
          <6>1. j - 1 \in 1..(k - 1)
            BY <4>1, <4>4 DEF Place
          <6> QED  BY <3>3, <5>1, <6>1 DEF LoggedStayCached
        <5>3. bcache'[j] = bcache[j - 1] \/ bcache'[j] = bcache[j]
          BY <1>3, <4>1, <4>4 DEF Place
        <5> QED  BY <5>2, <5>3
      <4> QED  BY <4>2, <4>3, <4>4 DEF Place
    <3> QED  BY <3>1, <3>2, <3>3 DEF LoggedStayCached
  <2> QED  BY <2>1, <2>2
<1> QED  BY <1>6, <1>7, <1>8, <1>9, <1>10, <1>11, <1>12

\* log_write of block b in log block i: what it does to the buffers.
LEMMA LogCachedFacts ==
  ASSUME NEW b \in Home, NEW v \in Data, NEW i \in 1..MaxTxn, IInv,
         pc = "run", outstanding > 0, IsHeld(bcache, b),
         NEW U, U = Touched \cup {InstallSlot(i)},
         IsFiniteSet(U), Cardinality(U) <= NBuf, NoBlock \notin U,
         NEW g, g = LogCached(Fill(bcache, b, v), i, v)
  PROVE  /\ g \in Cache /\ OneBufferPerBlock(g)
         /\ \A k \in Place : g[k].ref <= 1
         /\ \A k \in Place : g[k].ref > 0 => g[k].blk \in used
         /\ \A k \in Place :
              LET c == g[k].blk
              IN  /\ c \in Home => g[k].data = IF c = b THEN v ELSE latest[c]
                  /\ c \in Block \ (Home \cup {LogStart}) =>
                       g[k].data = IF c = InstallSlot(i) THEN v ELSE disk[c]
         /\ \A h \in Touched \cap Home : IsCached(bcache, h) => IsCached(g, h)
         /\ \A k \in Place : g[k].ref = 0 /\ g[k].blk \in U =>
              \A j \in 1..(k - 1) : g[j].blk \in U
<1> USE DEF IInv
<1> DEFINE f == Fill(bcache, b, v)
           s == InstallSlot(i)
<1>1. /\ b # NoBlock /\ b \in Block /\ IsCached(bcache, b) /\ 1 \in Place
      /\ s \in Block /\ s \notin Home /\ s # LogStart /\ s # NoBlock
  BY ConstantFacts, SlotFacts DEF IsHeld, IsCached, Place
<1>2. bcache \in Cache /\ OneBufferPerBlock(bcache)
  BY DEF TypeOK, CacheWellFormed
<1>3. /\ f \in Cache /\ OneBufferPerBlock(f)
      /\ \A k \in Place : /\ f[k].blk = bcache[k].blk
                          /\ f[k].ref = bcache[k].ref
                          /\ f[k].data = IF bcache[k].blk = b THEN v ELSE bcache[k].data
  <2> HIDE DEF IInv
  <2> QED  BY <1>1, <1>2, FillProperties
<1>4. \A k \in Place : f[k].ref > 0 => f[k].blk \in used
  BY <1>3 DEF CacheWellFormed
<1>5. \A k \in Place : f[k].blk = s => f[k].ref = 0
  BY <1>1, <1>3, <1>4 DEF TypeOK, Cache, Buffer
<1>6. \E k \in Place : f[k].ref = 0
  <2> HIDE DEF IInv
  <2> QED  BY <1>3, FreeBuffer
<1>7. /\ g \in Cache /\ OneBufferPerBlock(g)
      /\ \E p \in Place :
           /\ f[p].ref = 0
           /\ \/ f[p].blk = s
              \/ /\ ~ IsCached(f, s)
                 /\ \A k \in Place : k > p => f[k].ref # 0
           /\ g[1] = [blk |-> s, ref |-> 0, data |-> v]
           /\ \A k \in Place : k # 1 /\ k <= p => g[k] = f[k - 1]
           /\ \A k \in Place : k > p => g[k] = f[k]
  <2>1. g = Overwrite(f, s, v)
    BY DEF LogCached
  <2> HIDE DEF IInv, f, s
  <2> QED  BY <1>1, <1>3, <1>5, <1>6, <2>1, OverwriteProperties
<1>8. PICK p \in Place :
           /\ f[p].ref = 0
           /\ \/ f[p].blk = s
              \/ /\ ~ IsCached(f, s)
                 /\ \A k \in Place : k > p => f[k].ref # 0
           /\ g[1] = [blk |-> s, ref |-> 0, data |-> v]
           /\ \A k \in Place : k # 1 /\ k <= p => g[k] = f[k - 1]
           /\ \A k \in Place : k > p => g[k] = f[k]
  BY <1>7
<1> HIDE DEF f
<1>9. f[p].blk = s \/ f[p].blk \notin Touched
  <2>1. CASE ~ IsCached(f, s) /\ \A k \in Place : k > p => f[k].ref # 0
    <3>1. ~ IsCached(bcache, s) /\ bcache[p].ref = 0
          /\ \A k \in Place : k > p => bcache[k].ref # 0
      BY <1>3, <1>8, <2>1 DEF IsCached
    <3>2. Touched \subseteq U /\ s \in U
      OBVIOUS
    <3> HIDE DEF IInv, s
    <3>3. bcache[p].blk \notin Touched
      BY <1>1, <3>1, <3>2, VictimNotTouched
    <3> QED  BY <1>3, <3>3
  <2> QED  BY <1>8, <2>1
<1>10. \A k \in Place : k # 1 /\ k <= p => k - 1 \in Place /\ k - 1 # p
  BY ConstantFacts DEF Place
<1>11. \A k \in Place : k # 1 => \E j \in Place : g[k] = f[j]
  BY <1>8, <1>10 DEF Place
<1>12. \A k \in Place : k # 1 => g[k].blk # s
  BY <1>1, <1>7, <1>8 DEF OneBufferPerBlock
<1>13. \A k \in Place : g[k].ref <= 1
  BY <1>3, <1>8, <1>11 DEF CacheWellFormed
<1>14. \A k \in Place : g[k].ref > 0 => g[k].blk \in used
  BY <1>4, <1>8, <1>11
<1>15. ASSUME NEW k \in Place
       PROVE  LET c == g[k].blk
              IN  /\ c \in Home => g[k].data = IF c = b THEN v ELSE latest[c]
                  /\ c \in Block \ (Home \cup {LogStart}) =>
                       g[k].data = IF c = s THEN v ELSE disk[c]
  <2>1. CASE k = 1
    BY <1>1, <1>8, <2>1
  <2>2. CASE k # 1
    <3>1. PICK j \in Place : g[k] = f[j]
      BY <1>11, <2>2
    <3>2. g[k].blk = bcache[j].blk /\ g[k].blk # s
          /\ g[k].data = IF bcache[j].blk = b THEN v ELSE bcache[j].data
      BY <1>3, <1>12, <2>2, <3>1
    <3>3. /\ bcache[j].blk \in Home => bcache[j].data = latest[bcache[j].blk]
          /\ bcache[j].blk \in Block \ (Home \cup {LogStart}) =>
               bcache[j].data = disk[bcache[j].blk]
      BY DEF CacheCurrent
    <3> QED  BY <1>1, <3>2, <3>3
  <2> QED  BY <2>1, <2>2
<1>16. ASSUME NEW h \in Touched \cap Home, IsCached(bcache, h)
       PROVE  IsCached(g, h)
  <2>1. PICK k \in Place : f[k].blk = h
    BY <1>3, <1>16 DEF IsCached
  <2>2. k # p
    BY <1>1, <1>9, <2>1
  <2>3. CASE k < p
    <3>1. k + 1 \in Place /\ k + 1 # 1 /\ k + 1 <= p /\ (k + 1) - 1 = k
      BY <2>3, ConstantFacts DEF Place
    <3>2. g[k + 1] = f[k]
      BY <1>8, <3>1
    <3> QED  BY <2>1, <3>1, <3>2 DEF IsCached
  <2>4. CASE k > p
    BY <1>8, <2>1, <2>4 DEF IsCached
  <2> QED  BY <2>2, <2>3, <2>4 DEF Place
<1>17. ASSUME NEW k \in Place, g[k].ref = 0, g[k].blk \in U, NEW j \in 1..(k - 1)
       PROVE  g[j].blk \in U
  <2>1. j \in Place /\ k # 1 /\ j < k /\ j - 1 < k - 1
    BY ConstantFacts DEF Place
  <2>2. g[k].blk \in Touched
    BY <1>12, <1>17, <2>1
  <2>3. ASSUME NEW m \in Place, g[k] = f[m], NEW n \in 1..(m - 1)
        PROVE  f[n].blk \in Touched
    <3>1. bcache[m].ref = 0 /\ bcache[m].blk \in Touched
      BY <1>3, <1>17, <2>2, <2>3
    <3>2. n \in Place
      BY ConstantFacts DEF Place
    <3> QED  BY <1>3, <3>1, <3>2 DEF LoggedStayCached
  <2>4. CASE j = 1
    BY <1>8, <2>4
  <2>5. CASE j # 1 /\ k <= p
    <3>1. g[k] = f[k - 1] /\ g[j] = f[j - 1]
      BY <1>8, <2>1, <2>5 DEF Place
    <3>2. k - 1 \in Place /\ j - 1 \in 1..((k - 1) - 1)
      BY <2>1, <2>5, <1>10, ConstantFacts DEF Place
    <3> QED  BY <2>3, <3>1, <3>2
  <2>6. CASE j # 1 /\ k > p
    <3>1. g[k] = f[k]
      BY <1>8, <2>6
    <3>2. j - 1 \in 1..(k - 1)
      BY <2>1, <2>6 DEF Place
    <3>3. f[j].blk \in Touched /\ f[j - 1].blk \in Touched
      BY <2>3, <3>1, <3>2
    <3>4. g[j] = f[j - 1] \/ g[j] = f[j]
      BY <1>8, <2>1, <2>6 DEF Place
    <3> QED  BY <3>3, <3>4
  <2> QED  BY <2>4, <2>5, <2>6 DEF Place
<1> QED  BY <1>7, <1>13, <1>14, <1>15, <1>16, <1>17

\* A second write of a logged block replaces the contents of its log block.
LEMMA BwriteAbsorbIInv ==
  ASSUME NEW b \in Home, NEW v \in Data, IInv, BwriteAbsorb(b, v)
  PROVE  IInv'
<1> USE DEF BwriteAbsorb, IInv
<1> DEFINE i == Index(lh, b)
           s == InstallSlot(i)
<1>1. i \in 1..Len(lh) /\ lh[i] = b
  BY IndexFacts
<1>2. Len(lh) \in Nat /\ Len(lh) <= MaxTxn
  BY LenProperties DEF TypeOK, HeadersAgree
<1> HIDE DEF i
<1>3. i \in 1..MaxTxn /\ i \in Nat /\ 0 < i /\ i < NLog
  BY <1>1, <1>2, ConstantFacts
<1>4. /\ s \in Block /\ s \notin Home /\ s # LogStart
      /\ \A j \in Nat : s = InstallSlot(j) => i = j
  BY <1>3, SlotFacts
<1>5. Touched = Touched \cup {s} /\ Touched = used \cup Slots(Len(lh))
  BY <1>1 DEF Touched, Slots
<1>6. IsFiniteSet(Touched) /\ Cardinality(Touched) <= NBuf /\ NoBlock \notin Touched
  <2>1. IsFiniteSet(used) /\ Cardinality(used) <= MaxTxn /\ used \in SUBSET Home
    BY DEF TxnUse, TypeOK
  <2>2. Len(lh) < NLog
    BY <1>2, ConstantFacts
  <2>3. /\ IsFiniteSet(Touched)
        /\ Cardinality(Touched) <= Cardinality(used) + Len(lh)
        /\ NoBlock \notin Touched
    BY <1>2, <1>5, <2>1, <2>2, TouchedBound
  <2>4. Cardinality(used) \in Nat /\ Cardinality(Touched) \in Nat
    BY <2>1, <2>3, FS_CardinalityType
  <2> QED  BY <1>2, <2>1, <2>3, <2>4, ConstantFacts
<1>7. bcache' = LogCached(Fill(bcache, b, v), i, v) /\ disk' = [disk EXCEPT ![s] = v]
  BY DEF i
<1>8. /\ bcache' \in Cache /\ OneBufferPerBlock(bcache')
      /\ \A k \in Place : bcache'[k].ref <= 1
      /\ \A k \in Place : bcache'[k].ref > 0 => bcache'[k].blk \in used
      /\ \A k \in Place :
           LET c == bcache'[k].blk
           IN  /\ c \in Home => bcache'[k].data = IF c = b THEN v ELSE latest[c]
               /\ c \in Block \ (Home \cup {LogStart}) =>
                    bcache'[k].data = IF c = s THEN v ELSE disk[c]
      /\ \A h \in Touched \cap Home : IsCached(bcache, h) => IsCached(bcache', h)
      /\ \A k \in Place : bcache'[k].ref = 0 /\ bcache'[k].blk \in Touched =>
           \A j \in 1..(k - 1) : bcache'[j].blk \in Touched
  <2>1. pc = "run" /\ outstanding > 0 /\ IsHeld(bcache, b)
    OBVIOUS
  <2> HIDE DEF IInv, BwriteAbsorb
  <2> QED  BY <1>3, <1>5, <1>6, <1>7, <2>1, LogCachedFacts
<1>9. \A h \in Home : latest'[h] = IF h = b THEN v ELSE latest[h]
  BY DEF TypeOK
<1>10. \A c \in Block : disk'[c] = IF c = s THEN v ELSE disk[c]
  BY <1>7 DEF TypeOK
<1>11. TypeOK' /\ NeverPanics'
  BY <1>7, <1>8 DEF TypeOK, NeverPanics
<1>12. CacheWellFormed'
  BY <1>8 DEF CacheWellFormed, TypeOK
<1>13. CacheCurrent'
  <2>1. ASSUME NEW k \in Place
        PROVE  LET c == bcache'[k].blk
               IN  /\ c \in Home => bcache'[k].data = latest'[c]
                   /\ c \in Block \ (Home \cup {LogStart}) => bcache'[k].data = disk'[c]
    BY <1>8, <1>9, <1>10
  <2> QED  BY <2>1 DEF CacheCurrent
<1>14. DiskCurrent'
  <2>1. ASSUME NEW h \in Home \ Pending' PROVE disk'[h] = latest'[h]
    <3>1. h # b /\ h \in Home \ Pending
      BY <1>1 DEF Pending
    <3>2. disk[h] = latest[h]
      BY <3>1 DEF DiskCurrent
    <3> QED  BY <1>4, <1>9, <1>10, <3>1, <3>2, ConstantFacts
  <2>2. ASSUME NEW j \in 1..Len(lh) PROVE disk'[InstallSlot(j)] = latest'[lh[j]]
    <3>1. disk[InstallSlot(j)] = latest[lh[j]] /\ lh[j] \in Home
      BY DEF DiskCurrent, TypeOK
    <3>2. j \in Nat /\ 0 < j /\ j < NLog
      BY <1>2, ConstantFacts
    <3>3. InstallSlot(j) \in Block
      BY <3>2, SlotFacts
    <3>4. lh[j] = b <=> j = i
      BY <1>1 DEF HeadersAgree, NoBlockLoggedTwice
    <3>5. InstallSlot(j) = s <=> j = i
      BY <1>4, <3>2
    <3> QED  BY <1>9, <1>10, <3>1, <3>3, <3>4, <3>5
  <2>3. diskHead' = <<>> /\ lh' = lh
    BY DEF HeadersAgree
  <2> QED  BY <2>1, <2>2, <2>3 DEF DiskCurrent
<1>15. HeadersAgree'
  BY DEF HeadersAgree, NoBlockLoggedTwice
<1>16. TxnUse'
  BY DEF TxnUse
<1>17. LoggedStayCached'
  <2>1. Touched' = Touched
    BY DEF Touched
  <2>2. ASSUME NEW j \in 1..Len(lh) PROVE IsCached(bcache', lh[j])
    <3>1. lh[j] \in Touched \cap Home /\ IsCached(bcache, lh[j])
      BY DEF Touched, TxnUse, LoggedStayCached, TypeOK
    <3> QED  BY <1>8, <3>1
  <2> QED  BY <1>8, <2>1, <2>2 DEF LoggedStayCached
<1> QED  BY <1>11, <1>12, <1>13, <1>14, <1>15, <1>16, <1>17

\* The first write of a block in a transaction takes the next log block.
LEMMA BwriteNewIInv ==
  ASSUME NEW b \in Home, NEW v \in Data, IInv, BwriteNew(b, v)
  PROVE  IInv'
<1> USE DEF BwriteNew, IInv
<1> DEFINE n == Len(lh)
           i == n + 1
           s == InstallSlot(i)
           lh2 == Append(lh, b)
<1>1. b \in used
  <2>1. PICK k \in Place : bcache[k].blk = b /\ bcache[k].ref > 0
    BY DEF IsHeld
  <2> QED  BY <2>1 DEF CacheWellFormed, TypeOK
<1>2. n \in Nat /\ lh \in Seq(Home)
  BY LenProperties DEF TypeOK
<1>3. /\ lh2 \in Seq(Home) /\ Len(lh2) = i
      /\ \A j \in 1..n : lh2[j] = lh[j]
      /\ lh2[i] = b
  BY <1>2, AppendProperties
<1>4. \A j \in 1..n : lh[j] # b
  BY DEF IsIn
<1> HIDE DEF n, lh2
<1>5. \A j \in 1..i : \/ j \in 1..n /\ lh2[j] = lh[j] /\ lh2[j] # b
                      \/ j = i /\ lh2[j] = b
  BY <1>2, <1>3, <1>4
<1>6. \A j, k \in 1..Len(lh2) : lh2[j] = lh2[k] => j = k
  <2>1. \A j, k \in 1..n : lh[j] = lh[k] => j = k
    BY DEF HeadersAgree, NoBlockLoggedTwice, n
  <2> QED  BY <1>3, <1>5, <2>1
<1>7. \A j \in 1..Len(lh2) : lh2[j] \in used
  <2>1. \A j \in 1..n : lh[j] \in used
    BY DEF TxnUse, n
  <2> QED  BY <1>1, <1>3, <1>5, <2>1
<1>8. IsFiniteSet(used) /\ Cardinality(used) <= MaxTxn /\ used \in SUBSET Home
      /\ Cardinality(used) \in Nat
  BY FS_CardinalityType DEF TxnUse, TypeOK
<1>9. i <= MaxTxn
  <2>1. Len(lh2) <= Cardinality(used)
    BY <1>3, <1>6, <1>7, <1>8, NoRepetitionBound
  <2> QED  BY <1>2, <1>3, <1>8, <2>1, ConstantFacts
<1>10. i \in 1..MaxTxn /\ i \in Nat /\ 0 < i /\ i < NLog /\ n < NLog
  BY <1>2, <1>9, ConstantFacts
<1>11. /\ s \in Block /\ s \notin Home /\ s # LogStart
       /\ \A j \in Nat : s = InstallSlot(j) => i = j
  BY <1>10, SlotFacts
<1>12. /\ lh' = lh2 /\ bcache' = LogCached(Fill(bcache, b, v), i, v)
       /\ disk' = [disk EXCEPT ![s] = v]
       /\ latest' = [latest EXCEPT ![b] = v] /\ pc' = pc
  BY <1>10 DEF n, lh2
<1>13. Touched' = Touched \cup {s} /\ Touched' = used \cup Slots(i)
  <2>1. \A j : j \in 1..i <=> j \in 1..n \/ j = i
    BY <1>2
  <2>2. Touched' = used \cup {InstallSlot(j) : j \in 1..i}
    BY <1>3, <1>12 DEF Touched
  <2>3. Touched = used \cup {InstallSlot(j) : j \in 1..n}
    BY DEF Touched, n
  <2> QED  BY <2>1, <2>2, <2>3 DEF Slots
<1>14. IsFiniteSet(Touched') /\ Cardinality(Touched') <= NBuf /\ NoBlock \notin Touched'
  <2>1. /\ IsFiniteSet(Touched')
        /\ Cardinality(Touched') <= Cardinality(used) + i
        /\ NoBlock \notin Touched'
    BY <1>8, <1>10, <1>13, TouchedBound
  <2>2. Cardinality(Touched') \in Nat
    BY <2>1, FS_CardinalityType
  <2> QED  BY <1>8, <1>9, <1>10, <2>1, <2>2, ConstantFacts
<1>15. /\ bcache' \in Cache /\ OneBufferPerBlock(bcache')
       /\ \A k \in Place : bcache'[k].ref <= 1
       /\ \A k \in Place : bcache'[k].ref > 0 => bcache'[k].blk \in used
       /\ \A k \in Place :
            LET c == bcache'[k].blk
            IN  /\ c \in Home => bcache'[k].data = IF c = b THEN v ELSE latest[c]
                /\ c \in Block \ (Home \cup {LogStart}) =>
                     bcache'[k].data = IF c = s THEN v ELSE disk[c]
       /\ \A h \in Touched \cap Home : IsCached(bcache, h) => IsCached(bcache', h)
       /\ \A k \in Place : bcache'[k].ref = 0 /\ bcache'[k].blk \in Touched' =>
            \A j \in 1..(k - 1) : bcache'[j].blk \in Touched'
  <2>1. pc = "run" /\ outstanding > 0 /\ IsHeld(bcache, b)
    OBVIOUS
  <2> HIDE DEF IInv, BwriteNew, i
  <2> QED  BY <1>10, <1>12, <1>13, <1>14, <2>1, LogCachedFacts
<1>16. \A h \in Home : latest'[h] = IF h = b THEN v ELSE latest[h]
  BY <1>12 DEF TypeOK
<1>17. \A c \in Block : disk'[c] = IF c = s THEN v ELSE disk[c]
  BY <1>12 DEF TypeOK
<1>18. TypeOK' /\ NeverPanics'
  BY <1>3, <1>11, <1>12, <1>15 DEF TypeOK, NeverPanics
<1>19. CacheWellFormed'
  BY <1>12, <1>15 DEF CacheWellFormed, TypeOK
<1>20. CacheCurrent'
  <2>1. ASSUME NEW k \in Place
        PROVE  LET c == bcache'[k].blk
               IN  /\ c \in Home => bcache'[k].data = latest'[c]
                   /\ c \in Block \ (Home \cup {LogStart}) => bcache'[k].data = disk'[c]
    BY <1>15, <1>16, <1>17
  <2> QED  BY <2>1 DEF CacheCurrent
<1>21. diskHead' = <<>> /\ diskHead = <<>>
  BY DEF HeadersAgree
<1>22. DiskCurrent'
  <2>1. ASSUME NEW h \in Home \ Pending' PROVE disk'[h] = latest'[h]
    <3>1. Pending' = {lh2[j] : j \in 1..i} /\ Pending = {lh[j] : j \in 1..n}
      BY <1>3, <1>12 DEF Pending, n
    <3>2. h # b
      BY <1>2, <1>3, <3>1
    <3>3. h \notin Pending
      BY <1>2, <1>3, <3>1
    <3>4. disk[h] = latest[h]
      BY <3>3 DEF DiskCurrent
    <3> QED  BY <1>11, <1>16, <1>17, <3>2, <3>4, ConstantFacts
  <2>2. ASSUME NEW j \in 1..i PROVE disk'[InstallSlot(j)] = latest'[lh2[j]]
    <3>1. CASE j = i
      BY <1>3, <1>11, <1>16, <1>17, <3>1
    <3>2. CASE j \in 1..n /\ lh2[j] = lh[j] /\ lh2[j] # b
      <4>1. disk[InstallSlot(j)] = latest[lh[j]] /\ lh[j] \in Home
        BY <3>2 DEF DiskCurrent, TypeOK, n
      <4>2. j \in Nat /\ 0 < j /\ j < NLog /\ j # i
        BY <1>2, <1>10, <3>2, ConstantFacts
      <4>3. InstallSlot(j) \in Block /\ InstallSlot(j) # s
        BY <1>11, <4>2, SlotFacts
      <4> QED  BY <1>16, <1>17, <3>2, <4>1, <4>3
    <3> QED  BY <1>5, <3>1, <3>2
  <2> QED  BY <1>3, <1>12, <1>21, <2>1, <2>2 DEF DiskCurrent
<1>23. HeadersAgree'
  <2>1. Len(lh') <= MaxTxn /\ Len(diskHead') <= MaxTxn
    BY <1>3, <1>9, <1>12 DEF HeadersAgree
  <2> QED  BY <1>6, <1>12, <1>21, <2>1 DEF HeadersAgree, NoBlockLoggedTwice
<1>24. TxnUse'
  BY <1>7, <1>8, <1>12 DEF TxnUse
<1>25. LoggedStayCached'
  <2>1. ASSUME NEW j \in 1..i PROVE IsCached(bcache', lh2[j])
    <3>1. lh2[j] \in Touched \cap Home
      BY <1>3, <1>7, <1>8 DEF Touched
    <3>2. IsCached(bcache, lh2[j])
      BY <1>5 DEF LoggedStayCached, IsHeld, IsCached, n
    <3> QED  BY <1>15, <3>1, <3>2
  <2> QED  BY <1>3, <1>12, <1>15, <2>1 DEF LoggedStayCached
<1> QED  BY <1>18, <1>19, <1>20, <1>22, <1>23, <1>24, <1>25

\* A header written or read while nobody has a buffer.
LEMMA HeaderFacts ==
  ASSUME NEW c \in Cache, OneBufferPerBlock(c), \A k \in Place : c[k].ref = 0,
         NEW g, g = Overwrite(c, LogStart, Zero)
  PROVE  /\ g \in Cache /\ OneBufferPerBlock(g)
         /\ \A k \in Place : g[k].ref = 0
         /\ \A k \in Place : g[k].blk = LogStart \/ \E j \in Place : g[k] = c[j]
<1>1. 1 \in Place
  BY ConstantFacts DEF Place
<1>2. /\ g \in Cache /\ OneBufferPerBlock(g)
      /\ \E p \in Place :
           /\ g[1] = [blk |-> LogStart, ref |-> 0, data |-> Zero]
           /\ \A k \in Place : k # 1 /\ k <= p => g[k] = c[k - 1]
           /\ \A k \in Place : k > p => g[k] = c[k]
  BY <1>1, ConstantFacts, OverwriteProperties
<1>3. PICK p \in Place :
           /\ g[1] = [blk |-> LogStart, ref |-> 0, data |-> Zero]
           /\ \A k \in Place : k # 1 /\ k <= p => g[k] = c[k - 1]
           /\ \A k \in Place : k > p => g[k] = c[k]
  BY <1>2
<1>4. \A k \in Place : k # 1 => k - 1 \in Place
  BY ConstantFacts DEF Place
<1>5. ASSUME NEW k \in Place, k # 1 PROVE \E j \in Place : g[k] = c[j]
  BY <1>3, <1>4, <1>5 DEF Place
<1>6. \A k \in Place : g[k].ref = 0
  BY <1>3, <1>5
<1> QED  BY <1>2, <1>3, <1>5, <1>6

\* Between operations and outside of run nobody has a buffer.
LEMMA NobodyHolds ==
  ASSUME IInv, pc # "run"
  PROVE  \A k \in Place : bcache[k].ref = 0
BY DEF IInv, TypeOK, CacheWellFormed, Cache, Buffer

\* The header on disk becomes the one in memory.
LEMMA WriteHeadIInv == IInv /\ WriteHead => IInv'
<1> SUFFICES ASSUME IInv, WriteHead PROVE IInv'
  OBVIOUS
<1> USE DEF WriteHead, IInv
<1>1. /\ bcache' \in Cache /\ OneBufferPerBlock(bcache')
      /\ \A k \in Place : bcache'[k].ref = 0
      /\ \A k \in Place :
           bcache'[k].blk = LogStart \/ \E j \in Place : bcache'[k] = bcache[j]
  <2>1. /\ bcache \in Cache /\ OneBufferPerBlock(bcache)
        /\ bcache' = Overwrite(bcache, LogStart, Zero)
    BY DEF TypeOK, CacheWellFormed
  <2>2. \A k \in Place : bcache[k].ref = 0
    BY NobodyHolds
  <2> HIDE DEF IInv, WriteHead
  <2> QED  BY <2>1, <2>2, HeaderFacts
<1>2. Len(lh) \in Nat /\ Len(lh) > 0 /\ 1 \in 1..Len(lh)
  BY LenProperties DEF TypeOK, HeadersAgree
<1>3. TypeOK' /\ NeverPanics'
  BY <1>1 DEF TypeOK, NeverPanics, Phase
<1>4. CacheWellFormed'
  BY <1>1 DEF CacheWellFormed
<1>5. CacheCurrent'
  BY <1>1, ConstantFacts DEF CacheCurrent
<1>6. DiskCurrent'
  <2>1. Pending' = Pending
    BY DEF Pending
  <2> QED  BY <2>1 DEF DiskCurrent
<1>7. HeadersAgree'
  BY <1>2 DEF HeadersAgree, NoBlockLoggedTwice
<1>8. TxnUse' /\ LoggedStayCached'
  BY DEF TxnUse, LoggedStayCached
<1> QED  BY <1>1, <1>3, <1>4, <1>5, <1>6, <1>7, <1>8

\* When the headers are cleared every block is at its home.
LEMMA ClearHeadIInv == IInv /\ ClearHead => IInv'
<1> SUFFICES ASSUME IInv, ClearHead PROVE IInv'
  OBVIOUS
<1> USE DEF ClearHead, IInv
<1>1. /\ bcache' \in Cache /\ OneBufferPerBlock(bcache')
      /\ \A k \in Place : bcache'[k].ref = 0
      /\ \A k \in Place :
           bcache'[k].blk = LogStart \/ \E j \in Place : bcache'[k] = bcache[j]
  <2>1. /\ bcache \in Cache /\ OneBufferPerBlock(bcache)
        /\ bcache' = Overwrite(bcache, LogStart, Zero)
    BY DEF TypeOK, CacheWellFormed
  <2>2. \A k \in Place : bcache[k].ref = 0
    BY NobodyHolds
  <2> HIDE DEF IInv, ClearHead
  <2> QED  BY <2>1, <2>2, HeaderFacts
<1>2. lh' = <<>> /\ diskHead' = <<>> /\ Len(lh') = 0 /\ Len(diskHead') = 0
  OBVIOUS
<1>3. TypeOK' /\ NeverPanics'
  BY <1>1, EmptySeq DEF TypeOK, NeverPanics, Phase
<1>4. CacheWellFormed'
  BY <1>1 DEF CacheWellFormed
<1>5. CacheCurrent'
  BY <1>1, ConstantFacts DEF CacheCurrent
<1>6. DiskCurrent'
  <2>1. Pending = {}
    BY DEF Pending
  <2> QED  BY <1>2, <2>1 DEF DiskCurrent
<1>7. HeadersAgree'
  BY <1>2, ConstantFacts DEF HeadersAgree, NoBlockLoggedTwice
<1>8. TxnUse'
  BY <1>2, FS_EmptySet, ConstantFacts DEF TxnUse
<1>9. LoggedStayCached'
  BY <1>2 DEF LoggedStayCached, Touched
<1> QED  BY <1>3, <1>4, <1>5, <1>6, <1>7, <1>8, <1>9

\* initlog takes the header from the disk and starts to install it.
LEMMA InitLogIInv == IInv /\ InitLog => IInv'
<1> SUFFICES ASSUME IInv, InitLog PROVE IInv'
  OBVIOUS
<1> USE DEF InitLog, IInv
<1>1. /\ bcache' \in Cache /\ OneBufferPerBlock(bcache')
      /\ \A k \in Place : bcache'[k].ref = 0
      /\ \A k \in Place :
           bcache'[k].blk = LogStart \/ \E j \in Place : bcache'[k] = bcache[j]
  <2>1. /\ bcache \in Cache /\ OneBufferPerBlock(bcache)
        /\ bcache' = Overwrite(bcache, LogStart, Zero)
    BY DEF TypeOK, CacheWellFormed
  <2>2. \A k \in Place : bcache[k].ref = 0
    BY NobodyHolds
  <2> HIDE DEF IInv, InitLog
  <2> QED  BY <2>1, <2>2, HeaderFacts
<1>2. Len(diskHead) \in Nat
  BY LenProperties DEF TypeOK
<1>3. TypeOK' /\ NeverPanics'
  BY <1>1 DEF TypeOK, NeverPanics, Phase
<1>4. CacheWellFormed'
  BY <1>1 DEF CacheWellFormed
<1>5. CacheCurrent'
  BY <1>1, ConstantFacts DEF CacheCurrent
<1>6. DiskCurrent'
  <2>1. Pending' = Pending
    BY DEF Pending
  <2> QED  BY <2>1 DEF DiskCurrent
<1>7. used' = {} /\ outstanding' = 0 /\ lh' = diskHead /\ diskHead' = diskHead
  BY DEF HeadersAgree
<1>8. pc' = "run" => diskHead = <<>> /\ Len(diskHead) = 0
  <2> SUFFICES ASSUME pc' = "run" PROVE diskHead = <<>> /\ Len(diskHead) = 0
    OBVIOUS
  <2>1. ~ (Len(diskHead) > 0)
    OBVIOUS
  <2>2. Len(diskHead) = 0
    BY <1>2, <2>1, NotPositive
  <2> QED  BY <2>2, EmptySeq DEF TypeOK
<1>9. pc' # "run" => pc' = "install" /\ next' \in 1..Len(lh')
  BY <1>2
<1>10. HeadersAgree'
  BY <1>7, <1>8, <1>9 DEF HeadersAgree, NoBlockLoggedTwice
<1>11. TxnUse'
  BY <1>7, <1>8, FS_EmptySet, ConstantFacts DEF TxnUse
<1>12. LoggedStayCached'
  BY <1>7, <1>8 DEF LoggedStayCached, Touched
<1> QED  BY <1>3, <1>4, <1>5, <1>6, <1>10, <1>11, <1>12

\* After a restart `latest' is what the disk and its log say.
LEMMA RestartIInv == IInv /\ Restart => IInv'
<1> SUFFICES ASSUME IInv, Restart PROVE IInv'
  OBVIOUS
<1> USE DEF Restart, IInv
<1>1. /\ disk' \in [Block -> Data] /\ diskHead' \in Seq(Home)
      /\ \A i, j \in 1..Len(diskHead') : diskHead'[i] = diskHead'[j] => i = j
      /\ Len(diskHead') <= MaxTxn
  <2>1. CASE KeepDisk
    BY <2>1 DEF TypeOK, HeadersAgree
  <2>2. CASE ~ KeepDisk
    BY <2>2, EmptySeq, ConstantFacts
  <2> QED  BY <2>1, <2>2
<1>2. \A b \in Home : latest'[b] = IF IsIn(diskHead', b)
                                     THEN disk'[InstallSlot(Index(diskHead', b))]
                                     ELSE disk'[b]
  BY DEF Stable
<1>3. Len(diskHead') \in Nat
  BY <1>1, LenProperties
<1>4. latest' \in [Home -> Data]
  <2>1. ASSUME NEW b \in Home PROVE Stable'[b] \in Data
    <3>1. CASE IsIn(diskHead', b)
      <4> DEFINE i == Index(diskHead', b)
      <4>1. i \in 1..Len(diskHead')
        BY <3>1, IndexFacts
      <4> HIDE DEF i
      <4>2. i \in Nat /\ 0 < i /\ i < NLog
        BY <1>1, <1>3, <4>1, ConstantFacts
      <4>3. disk'[InstallSlot(i)] \in Data
        BY <1>1, <4>2, SlotFacts
      <4> QED  BY <3>1, <4>3 DEF Stable, i
    <3>2. CASE ~ IsIn(diskHead', b)
      BY <1>1, <3>2, ConstantFacts DEF Stable
    <3> QED  BY <3>1, <3>2
  <2> QED  BY <2>1 DEF Stable
<1>5. TypeOK' /\ NeverPanics'
  BY <1>1, <1>4, EmptySeq, ConstantFacts DEF TypeOK, NeverPanics, Phase, EmptyCache, Cache, Buffer
<1>6. CacheWellFormed'
  BY DEF CacheWellFormed, OneBufferPerBlock, EmptyCache
<1>7. CacheCurrent'
  BY ConstantFacts DEF CacheCurrent, EmptyCache
<1>8. DiskCurrent'
  <2>1. ASSUME NEW b \in Home \ Pending' PROVE disk'[b] = latest'[b]
    <3>1. ~ IsIn(diskHead', b)
      BY DEF Pending, IsIn
    <3> QED  BY <1>2, <3>1
  <2>2. ASSUME NEW i \in 1..Len(diskHead')
        PROVE  disk'[InstallSlot(i)] = latest'[diskHead'[i]]
    <3>1. diskHead'[i] \in Home
      BY <1>1
    <3>2. IsIn(diskHead', diskHead'[i])
      BY DEF IsIn
    <3>3. Index(diskHead', diskHead'[i]) = i
      BY <1>1, <3>2, IndexFacts
    <3> QED  BY <1>2, <3>1, <3>2, <3>3
  <2> QED  BY <2>1, <2>2 DEF DiskCurrent
<1>9. HeadersAgree'
  BY <1>1, ConstantFacts DEF HeadersAgree, NoBlockLoggedTwice
<1>10. TxnUse' /\ LoggedStayCached'
  BY DEF TxnUse, LoggedStayCached
<1> QED  BY <1>5, <1>6, <1>7, <1>8, <1>9, <1>10

\* Two buffers are in use at once: log block s is copied to home block b.
LEMMA InstallFacts ==
  ASSUME NEW c \in Cache, OneBufferPerBlock(c), \A k \in Place : c[k].ref = 0,
         NBuf > 1, NEW s \in Block, NEW b \in Block, s # b,
         NEW ds \in Data, NEW db \in Data,
         \A k \in Place : c[k].blk = s => c[k].data = ds,
         NEW c1, c1 = Get(c, s, ds),
         NEW v, v = c1[PlaceOf(c1, s)].data,
         NEW g, g = Release(Release(Fill(Get(c1, b, db), b, v), s), b)
  PROVE  /\ v = ds
         /\ g \in Cache /\ OneBufferPerBlock(g)
         /\ \A k \in Place : g[k].ref = 0
         /\ \A k \in Place : \/ g[k].blk = b /\ g[k].data = v
                             \/ \E j \in Place : g[k].blk = c[j].blk /\ g[k].data = c[j].data
                             \/ g[k].blk = s /\ g[k].data = ds
<1>1. s # NoBlock /\ b # NoBlock /\ 1 \in Place /\ 2 \in Place
  BY ConstantFacts DEF Place
<1>2. CanGet(c, s)
  BY <1>1 DEF CanGet
<1>3. /\ c1 \in Cache /\ OneBufferPerBlock(c1)
      /\ \E p \in Place : /\ \A k \in Place : k # p => c1[k] = c[k]
                          /\ c1[p].blk = s /\ c1[p].ref = 1 /\ c1[p].data = ds
  <2>1. /\ c1 \in Cache /\ OneBufferPerBlock(c1)
        /\ \E p \in Place :
             /\ \A k \in Place : k # p => c1[k] = c[k]
             /\ c1[p].blk = s
             /\ \/ c[p].blk = s /\ c1[p].ref = c[p].ref + 1 /\ c1[p].data = c[p].data
                \/ /\ ~ IsCached(c, s) /\ c[p].ref = 0
                   /\ \A k \in Place : k > p => c[k].ref # 0
                   /\ c1[p].ref = 1 /\ c1[p].data = ds
    BY <1>2, GetProperties
  <2> QED  BY <2>1
<1>4. PICK p \in Place : /\ \A k \in Place : k # p => c1[k] = c[k]
                         /\ c1[p].blk = s /\ c1[p].ref = 1 /\ c1[p].data = ds
  BY <1>3
<1>5. v = ds
  <2>1. IsCached(c1, s)
    BY <1>4 DEF IsCached
  <2>2. PlaceOf(c1, s) = p
    BY <1>1, <1>3, <1>4, <2>1, PlaceOfProperties DEF OneBufferPerBlock
  <2> QED  BY <1>4, <2>2
<1> DEFINE c2 == Get(c1, b, db)
           c3 == Fill(c2, b, v)
           c4 == Release(c3, s)
<1>6. CanGet(c1, b)
  <2>1. \E k \in Place : k # p
    BY <1>1
  <2> QED  BY <1>4, <2>1 DEF CanGet
<1>7. /\ c2 \in Cache /\ OneBufferPerBlock(c2)
      /\ \E q \in Place : /\ \A k \in Place : k # q => c2[k] = c1[k]
                          /\ q # p /\ c2[q].blk = b /\ c2[q].ref = 1
  <2>1. /\ c2 \in Cache /\ OneBufferPerBlock(c2)
        /\ \E q \in Place :
             /\ \A k \in Place : k # q => c2[k] = c1[k]
             /\ c2[q].blk = b
             /\ \/ c1[q].blk = b /\ c2[q].ref = c1[q].ref + 1 /\ c2[q].data = c1[q].data
                \/ /\ ~ IsCached(c1, b) /\ c1[q].ref = 0
                   /\ \A k \in Place : k > q => c1[k].ref # 0
                   /\ c2[q].ref = 1 /\ c2[q].data = db
    BY <1>3, <1>6, GetProperties
  <2> HIDE DEF c2
  <2>2. PICK q \in Place :
             /\ \A k \in Place : k # q => c2[k] = c1[k]
             /\ c2[q].blk = b
             /\ \/ c1[q].blk = b /\ c2[q].ref = c1[q].ref + 1 /\ c2[q].data = c1[q].data
                \/ /\ ~ IsCached(c1, b) /\ c1[q].ref = 0
                   /\ \A k \in Place : k > q => c1[k].ref # 0
                   /\ c2[q].ref = 1 /\ c2[q].data = db
    BY <2>1
  <2>3. q # p
    BY <1>4, <2>2
  <2>4. c2[q].ref = 1
    BY <1>4, <2>2, <2>3
  <2> QED  BY <2>1, <2>2, <2>3, <2>4
<1> HIDE DEF c2
<1>8. PICK q \in Place : /\ \A k \in Place : k # q => c2[k] = c1[k]
                         /\ q # p /\ c2[q].blk = b /\ c2[q].ref = 1
  BY <1>7
<1>9. /\ c3 \in Cache /\ OneBufferPerBlock(c3)
      /\ \A k \in Place : /\ c3[k].blk = c2[k].blk
                          /\ c3[k].ref = c2[k].ref
                          /\ c3[k].data = IF c2[k].blk = b THEN v ELSE c2[k].data
  <2>1. IsCached(c2, b)
    BY <1>8 DEF IsCached
  <2> QED  BY <1>1, <1>5, <1>7, <2>1, FillProperties
<1> HIDE DEF c3
<1>10. c3[p].blk = s /\ c3[p].ref = 1 /\ c3[p].data = ds
  BY <1>4, <1>8, <1>9
<1>11. /\ c4 \in Cache /\ OneBufferPerBlock(c4)
       /\ c4[1] = [blk |-> s, ref |-> 0, data |-> ds]
       /\ \A k \in Place : k # 1 /\ k <= p => c4[k] = c3[k - 1]
       /\ \A k \in Place : k > p => c4[k] = c3[k]
  <2> DEFINE x == c4
  <2>1. x = Release(c3, s)
    OBVIOUS
  <2> HIDE DEF x
  <2>2. /\ x \in Cache /\ OneBufferPerBlock(x)
        /\ x[1] = [blk |-> s, ref |-> 0, data |-> c3[p].data]
        /\ \A k \in Place : k # 1 /\ k <= p => x[k] = c3[k - 1]
        /\ \A k \in Place : k > p => x[k] = c3[k]
    BY <1>1, <1>9, <1>10, <2>1, ReleaseProperties
  <2> QED  BY <1>10, <2>2 DEF x
<1> HIDE DEF c4
<1>12. \A k \in Place : k # 1 => k - 1 \in Place
  BY ConstantFacts DEF Place
<1>13. ASSUME NEW k \in Place, k # 1 PROVE \E j \in Place : j # p /\ c4[k] = c3[j]
  <2>1. CASE k <= p
    <3>1. k - 1 \in Place /\ k - 1 # p
      BY <1>12, <1>13, <2>1 DEF Place
    <3> QED  BY <1>11, <1>13, <2>1, <3>1
  <2>2. CASE k > p
    BY <1>11, <2>2 DEF Place
  <2> QED  BY <2>1, <2>2 DEF Place
<1>14. \E r \in Place : c4[r].blk = b /\ c4[r].ref = 1
  <2>1. c3[q].blk = b /\ c3[q].ref = 1
    BY <1>8, <1>9
  <2>2. CASE q < p
    <3>1. q + 1 \in Place /\ q + 1 # 1 /\ q + 1 <= p /\ (q + 1) - 1 = q
      BY <2>2, ConstantFacts DEF Place
    <3>2. c4[q + 1] = c3[q]
      BY <1>11, <3>1
    <3> QED  BY <2>1, <3>1, <3>2
  <2>3. CASE q > p
    BY <1>11, <2>1, <2>3
  <2> QED  BY <1>8, <2>2, <2>3 DEF Place
<1>15. PICK r \in Place : c4[r].blk = b /\ c4[r].ref = 1
  BY <1>14
<1>16. /\ g \in Cache /\ OneBufferPerBlock(g)
       /\ g[1] = [blk |-> b, ref |-> 0, data |-> c4[r].data]
       /\ \A k \in Place : k # 1 /\ k <= r => g[k] = c4[k - 1]
       /\ \A k \in Place : k > r => g[k] = c4[k]
  <2>1. g = Release(c4, b)
    BY DEF c4, c3, c2
  <2> QED  BY <1>1, <1>11, <1>15, <2>1, ReleaseProperties
<1>17. ASSUME NEW k \in Place, k # 1 PROVE \E j \in Place : j # r /\ g[k] = c4[j]
  <2>1. CASE k <= r
    <3>1. k - 1 \in Place /\ k - 1 # r
      BY <1>12, <1>17, <2>1 DEF Place
    <3> QED  BY <1>16, <1>17, <2>1, <3>1
  <2>2. CASE k > r
    BY <1>16, <2>2 DEF Place
  <2> QED  BY <2>1, <2>2 DEF Place
<1>18. ASSUME NEW j \in Place, j # p
       PROVE  \/ c3[j].blk = b /\ c3[j].data = v
              \/ c3[j].blk = c[j].blk /\ c3[j].data = c[j].data /\ c3[j].ref = 0
  BY <1>4, <1>8, <1>9, <1>18
<1>19. ASSUME NEW j \in Place
       PROVE  \/ c4[j].blk = b /\ c4[j].data = v
              \/ /\ c4[j].ref = 0
                 /\ \/ \E i \in Place : c4[j].blk = c[i].blk /\ c4[j].data = c[i].data
                    \/ c4[j].blk = s /\ c4[j].data = ds
  <2>1. CASE j = 1
    BY <1>11, <2>1
  <2>2. CASE j # 1
    BY <1>13, <1>18, <2>2
  <2> QED  BY <2>1, <2>2
<1>20. c4[r].data = v
  <2>1. c4[r].blk = b /\ c4[r].ref # 0
    BY <1>15
  <2> QED  BY <1>19, <2>1
<1>21. \A j \in Place : j # r => c4[j].blk # b
  BY <1>1, <1>11, <1>15 DEF OneBufferPerBlock
<1>22. ASSUME NEW k \in Place
       PROVE  /\ g[k].ref = 0
              /\ \/ g[k].blk = b /\ g[k].data = v
                 \/ \E j \in Place : g[k].blk = c[j].blk /\ g[k].data = c[j].data
                 \/ g[k].blk = s /\ g[k].data = ds
  <2>1. CASE k = 1
    BY <1>16, <1>20, <2>1
  <2>2. CASE k # 1
    BY <1>17, <1>19, <1>21, <2>2
  <2> QED  BY <2>1, <2>2
<1> QED  BY <1>5, <1>16, <1>22

\* A round of the install loop: one block less is pending.
LEMMA InstallIInv == IInv /\ Install => IInv'
<1> SUFFICES ASSUME IInv, Install PROVE IInv'
  OBVIOUS
<1> USE DEF Install, IInv
<1> DEFINE b == lh[next]
           s == InstallSlot(next)
           c1 == Get(bcache, s, disk[s])
           v == c1[PlaceOf(c1, s)].data
<1>1. Len(lh) \in Nat /\ next \in Nat /\ next \in 1..Len(lh) /\ Len(lh) <= MaxTxn
  BY LenProperties DEF TypeOK, HeadersAgree
<1>2. next \in Nat /\ 0 < next /\ next < NLog /\ NBuf > 1
  BY <1>1, ConstantFacts
<1>3. s \in Block /\ s \notin Home /\ s # LogStart
      /\ \A j \in Nat : s = InstallSlot(j) => next = j
  BY <1>2, SlotFacts
<1>4. b \in Home /\ b \in Block /\ b # s
  <2>1. b \in Home
    BY <1>1 DEF TypeOK
  <2> QED  BY <1>3, <2>1, ConstantFacts
<1>5. disk[s] \in Data /\ disk[b] \in Data /\ disk[s] = latest[b]
  BY <1>1, <1>3, <1>4 DEF TypeOK, DiskCurrent
<1>6. \A k \in Place : bcache[k].blk = s => bcache[k].data = disk[s]
  BY <1>3 DEF CacheCurrent
<1>7. /\ disk' = [disk EXCEPT ![b] = v]
      /\ bcache' = Release(Release(Fill(Get(c1, b, disk[b]), b, v), s), b)
  OBVIOUS
<1>8. bcache \in Cache /\ OneBufferPerBlock(bcache) /\ \A k \in Place : bcache[k].ref = 0
  BY NobodyHolds DEF TypeOK, CacheWellFormed
<1>9. /\ v = disk[s]
      /\ bcache' \in Cache /\ OneBufferPerBlock(bcache')
      /\ \A k \in Place : bcache'[k].ref = 0
      /\ \A k \in Place :
           \/ bcache'[k].blk = b /\ bcache'[k].data = v
           \/ \E j \in Place : bcache'[k].blk = bcache[j].blk /\ bcache'[k].data = bcache[j].data
           \/ bcache'[k].blk = s /\ bcache'[k].data = disk[s]
  <2> DEFINE x == c1
             y == v
  <2>1. x = Get(bcache, s, disk[s]) /\ y = x[PlaceOf(x, s)].data
    OBVIOUS
  <2>2. bcache' = Release(Release(Fill(Get(x, b, disk[b]), b, y), s), b)
    BY <1>7
  <2> HIDE DEF IInv, Install, s, b, x, y
  <2>3. /\ y = disk[s]
        /\ bcache' \in Cache /\ OneBufferPerBlock(bcache')
        /\ \A k \in Place : bcache'[k].ref = 0
        /\ \A k \in Place :
             \/ bcache'[k].blk = b /\ bcache'[k].data = y
             \/ \E j \in Place : bcache'[k].blk = bcache[j].blk /\ bcache'[k].data = bcache[j].data
             \/ bcache'[k].blk = s /\ bcache'[k].data = disk[s]
    BY <1>2, <1>3, <1>4, <1>5, <1>6, <1>8, <2>1, <2>2, InstallFacts
  <2> QED  BY <2>3 DEF y
<1> HIDE DEF v, c1
<1>10. \A c \in Block : disk'[c] = IF c = b THEN latest[b] ELSE disk[c]
  BY <1>5, <1>7, <1>9 DEF TypeOK
<1>11. lh' = lh /\ diskHead' = diskHead /\ diskHead = lh /\ latest' = latest
       /\ used' = used /\ outstanding' = outstanding /\ next' = next + 1
       /\ pc' = IF next = Len(lh) THEN "clear" ELSE "install"
  BY DEF HeadersAgree
<1>12. TypeOK' /\ NeverPanics'
  <2>1. TypeOK
    OBVIOUS
  <2>2. v \in Data
    BY <1>5, <1>9
  <2> HIDE DEF IInv, Install, b, s
  <2>3. disk' \in [Block -> Data]
    BY <1>7, <2>1, <2>2 DEF TypeOK
  <2>4. next' \in Nat /\ pc' \in Phase /\ pc' # "panic"
    BY <1>2, <1>11 DEF Phase
  <2>5. bcache' \in Cache
    BY <1>9
  <2>6. /\ lh' = lh /\ diskHead' = diskHead /\ latest' = latest
        /\ used' = used /\ outstanding' = outstanding
    BY <1>11
  <2>7. TypeOK'
    BY <2>1, <2>3, <2>4, <2>5, <2>6 DEF TypeOK
  <2>8. NeverPanics'
    BY <2>4 DEF NeverPanics
  <2> QED  BY <2>7, <2>8
<1>13. CacheWellFormed'
  <2> HIDE DEF IInv, Install, b, s
  <2>0. \A k \in Place : bcache'[k].ref = 0
    BY <1>9
  <2>1. \A k \in Place : bcache'[k].ref <= 1 /\ ~ (bcache'[k].ref > 0)
    BY <2>0
  <2>2. pc' # "boot" /\ OneBufferPerBlock(bcache')
    BY <1>9, <1>11
  <2> QED  BY <2>1, <2>2 DEF CacheWellFormed
<1>14. CacheCurrent'
  <2>1. ASSUME NEW k \in Place
        PROVE  LET c == bcache'[k].blk
               IN  /\ c \in Home => bcache'[k].data = latest[c]
                   /\ c \in Block \ (Home \cup {LogStart}) => bcache'[k].data = disk'[c]
    <3>1. CASE bcache'[k].blk = b /\ bcache'[k].data = v
      BY <1>4, <1>5, <1>9, <3>1
    <3>2. CASE bcache'[k].blk = s /\ bcache'[k].data = disk[s]
      BY <1>3, <1>4, <1>10, <3>2
    <3>3. ASSUME NEW j \in Place,
                 bcache'[k].blk = bcache[j].blk, bcache'[k].data = bcache[j].data
          PROVE  LET c == bcache'[k].blk
                 IN  /\ c \in Home => bcache'[k].data = latest[c]
                     /\ c \in Block \ (Home \cup {LogStart}) => bcache'[k].data = disk'[c]
      BY <1>4, <1>10, <3>3 DEF CacheCurrent
    <3> QED  BY <1>9, <3>1, <3>2, <3>3
  <2> QED  BY <1>11, <2>1 DEF CacheCurrent
<1>15. DiskCurrent'
  <2>1. ASSUME NEW h \in Home \ Pending' PROVE disk'[h] = latest[h]
    <3>1. CASE h = b
      BY <1>4, <1>10, <3>1
    <3>2. CASE h # b
      <4>1. h \notin Pending
        <5> SUFFICES ASSUME NEW i \in next..Len(lh), h = lh[i] PROVE FALSE
          BY DEF Pending
        <5>1. i # next
          BY <3>2
        <5>2. i \in (next + 1)..Len(lh) /\ next # Len(lh)
          BY <1>1, <5>1
        <5>3. h \in Pending'
          BY <1>11, <5>2 DEF Pending
        <5> QED  BY <5>3
      <4>2. disk[h] = latest[h]
        BY <4>1 DEF DiskCurrent
      <4>3. h \in Block
        BY ConstantFacts
      <4> QED  BY <1>10, <3>2, <4>2, <4>3
    <3> QED  BY <3>1, <3>2
  <2>2. ASSUME NEW i \in 1..Len(lh) PROVE disk'[InstallSlot(i)] = latest[lh[i]]
    <3>1. i \in Nat /\ 0 < i /\ i < NLog
      BY <1>1, ConstantFacts
    <3>2. InstallSlot(i) \in Block /\ InstallSlot(i) # b
      BY <1>4, <3>1, SlotFacts
    <3> QED  BY <1>10, <3>2 DEF DiskCurrent
  <2> QED  BY <1>11, <2>1, <2>2 DEF DiskCurrent
<1>16. HeadersAgree'
  <2>1. pc' = "install" => next' \in 1..Len(lh)
    BY <1>1, <1>11
  <2> QED  BY <1>11, <2>1 DEF HeadersAgree, NoBlockLoggedTwice
<1>17. TxnUse' /\ LoggedStayCached'
  BY <1>11 DEF TxnUse, LoggedStayCached
<1> QED  BY <1>12, <1>13, <1>14, <1>15, <1>16, <1>17
-----------------------------------------------------------------------------
\* The invariant holds in every state.
THEOREM Invariance == Spec => []IInv
<1>1. Init => IInv
  BY InitIInv
<1>2. IInv /\ [Next]_vars => IInv'
  <2> SUFFICES ASSUME IInv, [Next]_vars PROVE IInv'
    OBVIOUS
  <2>1. ASSUME NEW b \in Home, Bread(b) PROVE IInv'
    BY <2>1, BreadIInv
  <2>2. ASSUME NEW b \in Home, Brelse(b) PROVE IInv'
    BY <2>2, BrelseIInv
  <2>3. ASSUME NEW b \in Home, NEW v \in Data, BwriteRaw(b, v) PROVE IInv'
    BY <2>3, BwriteRawIInv
  <2>4. ASSUME NEW b \in Home, NEW v \in Data, BwriteAbsorb(b, v) PROVE IInv'
    BY <2>4, BwriteAbsorbIInv
  <2>5. ASSUME NEW b \in Home, NEW v \in Data, BwriteNew(b, v) PROVE IInv'
    BY <2>5, BwriteNewIInv
  <2>6. CASE BeginOp
    BY <2>6, BeginOpIInv
  <2>7. CASE EndOp
    BY <2>7, EndOpIInv
  <2>8. CASE WriteHead
    BY <2>8, WriteHeadIInv
  <2>9. CASE Install
    BY <2>9, InstallIInv
  <2>10. CASE ClearHead
    BY <2>10, ClearHeadIInv
  <2>11. CASE Restart
    BY <2>11, RestartIInv
  <2>12. CASE InitLog
    BY <2>12, InitLogIInv
  <2>13. CASE UNCHANGED vars
    BY <2>13 DEF vars, IInv, TypeOK, NeverPanics, CacheWellFormed, CacheCurrent,
         DiskCurrent, Pending, HeadersAgree, NoBlockLoggedTwice, TxnUse,
         LoggedStayCached, Touched, IsCached
  <2> QED
    BY <2>1, <2>2, <2>3, <2>4, <2>5, <2>6, <2>7, <2>8, <2>9, <2>10, <2>11, <2>12, <2>13
    DEF Next
<1> QED  BY <1>1, <1>2, PTL DEF Spec

\* Every variable keeps its type.
THEOREM TypeCorrectness == Spec => []TypeOK
<1>1. IInv => TypeOK
  BY DEF IInv
<1> QED  BY <1>1, Invariance, PTL

\* bread returns what was last written, however the buffers are recycled.
THEOREM ReadsLatestHolds == Spec => []ReadsLatest
<1>1. IInv => ReadsLatest
  <2> SUFFICES ASSUME IInv, pc = "run", NEW b \in Home PROVE View(b) = latest[b]
    BY DEF ReadsLatest
  <2>1. CASE IsCached(bcache, b)
    BY <2>1, PlaceOfProperties DEF View, IInv, CacheCurrent
  <2>2. CASE ~ IsCached(bcache, b)
    <3>1. b \notin Pending
      BY <2>2 DEF Pending, IInv, LoggedStayCached
    <3> QED  BY <2>2, <3>1 DEF View, IInv, DiskCurrent
  <2> QED  BY <2>1, <2>2
<1> QED  BY <1>1, Invariance, PTL

\* What an operation has written is permanent once end_op has returned.
THEOREM QuiescentDurableHolds == Spec => []QuiescentDurable
<1>1. IInv => QuiescentDurable
  <2> SUFFICES ASSUME IInv, pc = "run", outstanding = 0 PROVE Stable = latest
    BY DEF QuiescentDurable
  <2>1. diskHead = <<>> /\ lh = <<>> /\ Len(lh) = 0 /\ Len(diskHead) = 0
    BY DEF IInv, HeadersAgree, TxnUse
  <2>2. \A b \in Home : disk[b] = latest[b]
    BY <2>1 DEF IInv, DiskCurrent, Pending
  <2>3. Stable = [b \in Home |-> disk[b]]
    BY <2>1 DEF Stable, IsIn
  <2> QED  BY <2>2, <2>3 DEF IInv, TypeOK
<1> QED  BY <1>1, Invariance, PTL

\* log_write stays in the log area, logs a block once, and nothing panics.
THEOREM LogIsSafe == Spec => []LogSafe
<1>1. IInv => LogSafe
  <2> SUFFICES ASSUME IInv PROVE LogStaysInItsArea /\ NoBlockLoggedTwice /\ NeverPanics
    BY DEF LogSafe
  <2>1. Len(lh) \in Nat /\ Len(lh) <= MaxTxn
    BY LenProperties DEF IInv, TypeOK, HeadersAgree
  <2>2. LogStaysInItsArea
    BY <2>1, ConstantFacts DEF LogStaysInItsArea
  <2> QED  BY <2>2 DEF IInv, HeadersAgree
<1> QED  BY <1>1, Invariance, PTL

-----------------------------------------------------------------------------
\* From the write of the header to the end of the recovery a restart finds what
\* was last written, and so it does between operations.
CommittedOrQuiet == pc \in {"install", "clear", "boot"} \/ (pc = "run" /\ outstanding = 0)

\* Whatever a restart finds is what was written last, outside of transactions
\* and after the header of a commit is on disk.
LEMMA StableIsLatest == IInv /\ CommittedOrQuiet => Stable = latest
<1> SUFFICES ASSUME IInv, CommittedOrQuiet PROVE Stable = latest
  OBVIOUS
<1> USE DEF IInv, CommittedOrQuiet
<1>1. ASSUME NEW b \in Home PROVE Stable[b] = latest[b]
  <2>1. CASE IsIn(diskHead, b)
    <3>1. Index(diskHead, b) \in 1..Len(diskHead) /\ diskHead[Index(diskHead, b)] = b
      BY <2>1, IndexFacts
    <3>2. disk[InstallSlot(Index(diskHead, b))] = latest[b]
      BY <3>1 DEF DiskCurrent
    <3> QED  BY <2>1, <3>2 DEF Stable
  <2>2. CASE ~ IsIn(diskHead, b)
    <3>1. b \notin Pending
      <4>1. CASE pc = "run" /\ outstanding = 0
        BY <4>1 DEF Pending, TxnUse
      <4>2. CASE pc = "install"
        <5>1. diskHead = lh /\ next \in 1..Len(lh) /\ Len(lh) \in Nat
          BY <4>2, LenProperties DEF HeadersAgree, TypeOK
        <5>2. Pending = {lh[i] : i \in next..Len(lh)}
          BY <4>2 DEF Pending
        <5>3. \A i \in next..Len(lh) : i \in 1..Len(lh)
          BY <5>1
        <5> QED  BY <2>2, <5>1, <5>2, <5>3 DEF IsIn
      <4>3. CASE pc = "clear"
        BY <4>3 DEF Pending
      <4>4. CASE pc = "boot"
        BY <2>2, <4>4 DEF Pending, IsIn
      <4> QED  BY <4>1, <4>2, <4>3, <4>4
    <3> QED  BY <2>2, <3>1 DEF Stable, DiskCurrent
  <2> QED  BY <2>1, <2>2
<1>2. Stable = [b \in Home |-> Stable[b]] /\ latest = [b \in Home |-> latest[b]]
  BY DEF Stable, TypeOK
<1> QED  BY <1>1, <1>2

\* The same of the next state.
LEMMA StableIsLatestNext == (IInv /\ CommittedOrQuiet => Stable = latest)'
BY StableIsLatest, PTL

\* In an operation a restart finds the home blocks as they are on the disk.
LEMMA StableInOperation == IInv /\ pc = "run" => Stable = [b \in Home |-> disk[b]]
<1> SUFFICES ASSUME IInv, pc = "run" PROVE Stable = [b \in Home |-> disk[b]]
  OBVIOUS
<1>1. diskHead = <<>> /\ Len(diskHead) = 0
  BY DEF IInv, HeadersAgree
<1> QED  BY <1>1 DEF Stable, IsIn

\* Only the write of the log block is seen on the disk.
LEMMA LoggingIsInvisible ==
  ASSUME IInv, IInv', pc = "run", pc' = "run", NEW i \in Nat, 0 < i, i < NLog, NEW v,
         disk' = [disk EXCEPT ![InstallSlot(i)] = v]
  PROVE  Stable' = Stable
<1>1. InstallSlot(i) \notin Home
  BY SlotFacts
<1>2. \A b \in Home : disk'[b] = disk[b]
  BY <1>1, ConstantFacts DEF IInv, TypeOK
<1>3. Stable = [b \in Home |-> disk[b]]
  BY StableInOperation
<1>4. diskHead' = <<>> /\ Len(diskHead') = 0
  BY DEF IInv, HeadersAgree
<1>5. Stable' = [b \in Home |-> disk'[b]]
  BY <1>4 DEF Stable, IsIn
<1> QED  BY <1>2, <1>3, <1>5

\* On a disk that keeps its contents, log.c implements writes that become
\* permanent together: every crash leaves all or nothing of a transaction.
THEOREM Refinement ==
  ASSUME KeepDisk
  PROVE  Spec => ImplementsAtomicDisk
<1>1. Init => AD!ADInit
  <2> SUFFICES ASSUME Init PROVE AD!ADInit
    OBVIOUS
  <2>1. Len(diskHead) = 0
    BY DEF Init
  <2>2. Stable = [b \in Home |-> Zero]
    BY <2>1, ConstantFacts DEF Init, Stable, IsIn
  <2> QED  BY <2>2 DEF Init, AD!ADInit
<1>2. IInv /\ IInv' /\ [Next]_vars => [AD!ADNext]_(AD!advars)
  <2> SUFFICES ASSUME IInv, IInv', [Next]_vars PROVE [AD!ADNext]_(AD!advars)
    OBVIOUS
  <2> USE DEF AD!ADNext, AD!advars
  <2>1. ASSUME UNCHANGED <<disk, diskHead, latest, outstanding>>
        PROVE  UNCHANGED AD!advars
    BY <2>1 DEF Stable
  <2>2. ASSUME NEW b \in Home, Bread(b) \/ Brelse(b) PROVE UNCHANGED AD!advars
    BY <2>1, <2>2 DEF Bread, Brelse
  <2>3. ASSUME NEW b \in Home, NEW v \in Data, BwriteRaw(b, v) PROVE AD!Write(b, v)
    <3>1. Stable' = latest'
      BY <2>3, StableIsLatestNext DEF BwriteRaw, CommittedOrQuiet
    <3> QED  BY <2>3, <3>1 DEF BwriteRaw, AD!Write
  <2>4. ASSUME NEW b \in Home, NEW v \in Data, BwriteAbsorb(b, v) PROVE AD!Write(b, v)
    <3> DEFINE i == Index(lh, b)
    <3>1. i \in 1..Len(lh) /\ Len(lh) \in Nat /\ Len(lh) <= MaxTxn
      BY <2>4, IndexFacts, LenProperties DEF BwriteAbsorb, IInv, TypeOK, HeadersAgree
    <3>2. disk' = [disk EXCEPT ![InstallSlot(i)] = v] /\ pc = "run" /\ pc' = "run"
      BY <2>4 DEF BwriteAbsorb
    <3> HIDE DEF i
    <3>3. i \in Nat /\ 0 < i /\ i < NLog
      BY <3>1, ConstantFacts
    <3>4. Stable' = Stable
      BY <3>2, <3>3, LoggingIsInvisible
    <3> QED  BY <2>4, <3>4 DEF BwriteAbsorb, AD!Write, IInv, TypeOK
  <2>5. ASSUME NEW b \in Home, NEW v \in Data, BwriteNew(b, v) PROVE AD!Write(b, v)
    <3>1. pc' # "panic" /\ Len(lh) \in Nat /\ Len(lh) <= MaxTxn
      BY LenProperties DEF IInv, NeverPanics, TypeOK, HeadersAgree
    <3>2. Len(lh) < NLog
      BY <2>5, <3>1 DEF BwriteNew
    <3> DEFINE n == Len(lh)
               i == n + 1
    <3>3. /\ disk' = [disk EXCEPT ![InstallSlot(i)] = v]
          /\ latest' = [latest EXCEPT ![b] = v]
          /\ pc = "run" /\ pc' = "run" /\ outstanding > 0 /\ outstanding' = outstanding
          /\ lh' = Append(lh, b)
      BY <2>5, <3>2 DEF BwriteNew
    <3>4. Len(lh') = i /\ Len(lh') <= MaxTxn
      BY <3>3, AppendProperties DEF IInv, TypeOK, HeadersAgree
    <3> HIDE DEF n
    <3>5. i \in Nat /\ 0 < i /\ i < NLog
      BY <3>1, <3>4, ConstantFacts DEF n
    <3>6. Stable' = Stable
      <4> HIDE DEF i
      <4> QED  BY <3>3, <3>5, LoggingIsInvisible
    <3> QED  BY <3>3, <3>6 DEF AD!Write, IInv, TypeOK
  <2>6. CASE BeginOp
    <3>1. Stable' = Stable
      BY <2>6 DEF BeginOp, Stable
    <3> QED  BY <2>6, <3>1 DEF BeginOp, AD!Begin
  <2>7. CASE EndOp
    <3>1. Stable' = Stable
      BY <2>7 DEF EndOp, Stable
    <3> QED  BY <2>7, <3>1 DEF EndOp, AD!End
  <2>8. CASE WriteHead
    <3>1. Stable' = latest'
      BY <2>8, StableIsLatestNext DEF WriteHead, CommittedOrQuiet
    <3>2. outstanding = 0
      BY <2>8 DEF WriteHead, IInv, HeadersAgree
    <3> QED  BY <2>8, <3>1, <3>2 DEF WriteHead, AD!Commit
  <2>9. CASE Install
    <3>1. pc = "install" /\ pc' \in {"install", "clear"}
      BY <2>9 DEF Install
    <3>2. Stable = latest /\ Stable' = latest'
      BY <3>1, StableIsLatest, StableIsLatestNext DEF CommittedOrQuiet
    <3> QED  BY <2>9, <3>2 DEF Install
  <2>10. CASE ClearHead
    <3>1. pc = "clear" /\ pc' = "run" /\ outstanding' = 0 /\ latest' = latest
          /\ outstanding' = outstanding
      BY <2>10 DEF ClearHead, IInv, HeadersAgree
    <3>2. Stable = latest /\ Stable' = latest'
      BY <3>1, StableIsLatest, StableIsLatestNext DEF CommittedOrQuiet
    <3> QED  BY <3>1, <3>2
  <2>11. CASE Restart
    <3>1. Stable' = Stable
      BY <2>11 DEF Restart, Stable
    <3>2. latest' = Stable' /\ outstanding' = 0
      BY <2>11 DEF Restart
    <3> QED  BY <3>1, <3>2 DEF AD!Crash
  <2>12. CASE InitLog
    BY <2>1, <2>12 DEF InitLog
  <2>13. CASE UNCHANGED vars
    BY <2>1, <2>13 DEF vars
  <2> QED
    BY <2>2, <2>3, <2>4, <2>5, <2>6, <2>7, <2>8, <2>9, <2>10, <2>11, <2>12, <2>13
    DEF Next
<1> QED  BY <1>1, <1>2, Invariance, PTL DEF Spec, AD!ADSpec, ImplementsAtomicDisk
=============================================================================
