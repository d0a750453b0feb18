--------------------------- MODULE PageTableProofs --------------------------
(***************************************************************************)
(* The page tables for every page size, fan-out and size of the memory.    *)
(***************************************************************************)
EXTENDS PageTable, SequenceTheorems, TLAPS

-----------------------------------------------------------------------------
(* Addresses.                                                              *)

LEMMA Division ==
  ASSUME NEW b \in Nat \ {0}, NEW x \in Nat
  PROVE  /\ x \div b \in Nat /\ x % b \in 0..(b - 1)
         /\ x = b * (x \div b) + (x % b)
OBVIOUS

LEMMA Quotient ==
  ASSUME NEW b \in Nat \ {0}, NEW x \in Nat, NEW l \in Nat
  PROVE  /\ b * l <= x => l <= x \div b
         /\ x < b * l => x \div b < l
<1>1. b * l <= x => l <= x \div b
  OBVIOUS
<1>2. x < b * l => x \div b < l
  OBVIOUS
<1> QED  BY <1>1, <1>2

\* Dividing by one number after the other.
LEMMA DivideTwice ==
  ASSUME NEW a \in Nat \ {0}, NEW b \in Nat \ {0}, NEW x \in Nat
  PROVE  x \div (a * b) = (x \div a) \div b
<1> DEFINE y == x \div a
           q == y \div b
<1>1. y \in Nat /\ a * y <= x /\ x < a * (y + 1)
  <2>1. y \in Nat /\ x % a \in 0..(a - 1) /\ x = a * y + (x % a)
    BY Division
  <2> HIDE DEF y
  <2>2. a * y \in Nat /\ a * (y + 1) = a * y + a
    BY <2>1
  <2> QED  BY <2>1, <2>2
<1> HIDE DEF y
<1>2. q \in Nat /\ b * q <= y /\ y + 1 <= b * (q + 1)
  <2>1. q \in Nat /\ y % b \in 0..(b - 1) /\ y = b * q + (y % b)
    BY <1>1, Division
  <2> HIDE DEF q
  <2>2. b * q \in Nat /\ b * (q + 1) = b * q + b
    BY <2>1
  <2> QED  BY <1>1, <2>1, <2>2
<1> HIDE DEF q
<1>3. a * b \in Nat \ {0}
  OBVIOUS
<1>4. (a * b) * q <= x
  <2>1. (a * b) * q = a * (b * q) /\ b * q \in Nat
    BY <1>2
  <2>2. a * (b * q) <= a * y
    BY <1>1, <1>2, <2>1
  <2> QED  BY <1>1, <1>3, <2>1, <2>2
<1>5. x < (a * b) * (q + 1)
  <2>1. (a * b) * (q + 1) = a * (b * (q + 1)) /\ b * (q + 1) \in Nat
    BY <1>2
  <2>2. a * (y + 1) <= a * (b * (q + 1))
    BY <1>1, <1>2, <2>1
  <2> QED  BY <1>1, <1>3, <2>1, <2>2
<1>6. q <= x \div (a * b) /\ x \div (a * b) < q + 1
  <2>1. q + 1 \in Nat
    BY <1>2
  <2> QED  BY <1>2, <1>3, <1>4, <1>5, <2>1, Quotient
<1>7. x \div (a * b) \in Nat
  BY <1>3, Division
<1> QED  BY <1>2, <1>6, <1>7 DEF q, y

LEMMA ConstantFacts ==
  /\ PGSIZE \in Nat \ {0} /\ FANOUT \in Nat \ {0} /\ MAXVA \in Nat
  /\ KERNBASE \in Nat \ {0} /\ PHYSTOP \in Nat /\ UART0 \in Nat /\ kernel_end \in Nat
  /\ KERNBASE <= kernel_end /\ kernel_end < PHYSTOP /\ PHYSTOP <= MAXVA /\ UART0 < MAXVA
  /\ Aligned(KERNBASE) /\ Aligned(PHYSTOP) /\ Aligned(UART0) /\ Aligned(kernel_end)
  /\ UART0 \notin KERNBASE..(PHYSTOP - 1)
<1>1. PGSIZE \in Nat \ {0} /\ FANOUT \in Nat \ {0}
  BY PageTableAssumption
<1>2. MAXVA \in Nat
  <2> DEFINE x == FANOUT * FANOUT * FANOUT * PGSIZE
  <2>1. x \in Nat
    BY <1>1
  <2> HIDE DEF x
  <2>2. x \div 2 \in Nat
    BY <2>1
  <2> QED  BY <2>2 DEF MAXVA, x
<1>3. /\ KERNBASE \in 1..MAXVA /\ PHYSTOP \in 1..MAXVA /\ UART0 \in 1..MAXVA
      /\ Aligned(KERNBASE) /\ Aligned(PHYSTOP) /\ Aligned(UART0)
      /\ kernel_end \in PagesOf(KERNBASE, PHYSTOP)
      /\ UART0 \notin KERNBASE..(PHYSTOP - 1) /\ UART0 < MAXVA
  BY PageTableAssumption
<1>4. kernel_end \in KERNBASE..(PHYSTOP - 1) /\ Aligned(kernel_end)
  BY <1>3 DEF PagesOf
<1> QED  BY <1>1, <1>2, <1>3, <1>4

LEMMA PageFacts ==
  /\ Page \subseteq Nat \ {0} /\ 0 \notin Page
  /\ \A p \in Page : Aligned(p) /\ p < MAXVA
  /\ kernel_end \in Page
BY ConstantFacts DEF Page, PagesOf

\* The number of a page.
LEMMA Number ==
  ASSUME NEW a \in Nat, Aligned(a)
  PROVE  a = PGSIZE * (a \div PGSIZE) /\ a \div PGSIZE \in Nat
BY ConstantFacts, Division DEF Aligned

LEMMA MultipleAligned ==
  ASSUME NEW k \in Nat
  PROVE  Aligned(PGSIZE * k) /\ PGSIZE * k \in Nat
<1>1. PGSIZE \in Nat \ {0}
  BY ConstantFacts
<1>2. (PGSIZE * k) % PGSIZE = 0
  BY <1>1
<1> QED  BY <1>1, <1>2 DEF Aligned

\* The three indices of walk identify a page.
LEMMA PxOf ==
  ASSUME NEW va \in VPage
  PROVE  LET n == va \div PGSIZE
         IN  /\ n \in Nat /\ va = PGSIZE * n
             /\ n < FANOUT * FANOUT * FANOUT
             /\ Px(0, va) = n % FANOUT
             /\ Px(1, va) = (n \div FANOUT) % FANOUT
             /\ Px(2, va) = ((n \div FANOUT) \div FANOUT) % FANOUT
<1> DEFINE n == va \div PGSIZE
<1>1. PGSIZE \in Nat \ {0} /\ FANOUT \in Nat \ {0} /\ va \in Nat /\ va < MAXVA /\ Aligned(va)
  BY ConstantFacts DEF VPage, PagesOf
<1>2. n \in Nat /\ va = PGSIZE * n
  BY <1>1, Number
<1>3. n < FANOUT * FANOUT * FANOUT
  <2> DEFINE f == FANOUT * FANOUT * FANOUT
  <2>1. f \in Nat
    BY <1>1
  <2>2. MAXVA = (f * PGSIZE) \div 2
    BY DEF MAXVA
  <2> HIDE DEF f
  <2>3. f * PGSIZE \in Nat /\ MAXVA <= f * PGSIZE
    BY <1>1, <2>1, <2>2
  <2>4. va < PGSIZE * f
    BY <1>1, <2>1, <2>3, ConstantFacts
  <2>5. n < f
    BY <1>1, <2>1, <2>4, Quotient
  <2> QED  BY <2>5 DEF f
<1>4. Px(0, va) = n % FANOUT
  BY <1>1 DEF Px
<1>5. Px(1, va) = (n \div FANOUT) % FANOUT
  <2>1. va \div (PGSIZE * FANOUT) = n \div FANOUT
    BY <1>1, DivideTwice
  <2> QED  BY <2>1 DEF Px
<1>6. Px(2, va) = ((n \div FANOUT) \div FANOUT) % FANOUT
  <2>1. FANOUT * FANOUT \in Nat \ {0}
    BY <1>1
  <2>2. va \div (PGSIZE * (FANOUT * FANOUT)) = n \div (FANOUT * FANOUT)
    BY <1>1, <2>1, DivideTwice
  <2>3. n \div (FANOUT * FANOUT) = (n \div FANOUT) \div FANOUT
    BY <1>1, <1>2, DivideTwice
  <2> QED  BY <2>2, <2>3 DEF Px
<1> QED  BY <1>2, <1>3, <1>4, <1>5, <1>6

LEMMA PxInIdx ==
  ASSUME NEW va \in VPage, NEW level \in 0..2
  PROVE  Px(level, va) \in Idx
<1>1. FANOUT \in Nat \ {0}
  BY ConstantFacts
<1> DEFINE n == va \div PGSIZE
           m == n \div FANOUT
           l == m \div FANOUT
<1>2. n \in Nat /\ m \in Nat /\ l \in Nat
  BY <1>1, PxOf, Division
<1>3. n % FANOUT \in Idx /\ m % FANOUT \in Idx /\ l % FANOUT \in Idx
  BY <1>1, <1>2, Division DEF Idx
<1>4. Px(0, va) = n % FANOUT /\ Px(1, va) = m % FANOUT /\ Px(2, va) = l % FANOUT
  BY PxOf
<1> QED  BY <1>3, <1>4

LEMMA PxInjective ==
  ASSUME NEW v \in VPage, NEW w \in VPage,
         Px(0, v) = Px(0, w), Px(1, v) = Px(1, w), Px(2, v) = Px(2, w)
  PROVE  v = w
<1>1. FANOUT \in Nat \ {0}
  BY ConstantFacts
<1> DEFINE n(x) == x \div PGSIZE
           m(x) == n(x) \div FANOUT
           l(x) == m(x) \div FANOUT
<1>2. ASSUME NEW x \in VPage
      PROVE  /\ n(x) \in Nat /\ x = PGSIZE * n(x)
             /\ m(x) \in Nat /\ n(x) = FANOUT * m(x) + Px(0, x)
             /\ l(x) \in Nat /\ m(x) = FANOUT * l(x) + Px(1, x)
             /\ l(x) = Px(2, x)
  <2>1. /\ n(x) \in Nat /\ x = PGSIZE * n(x) /\ n(x) < FANOUT * FANOUT * FANOUT
        /\ Px(0, x) = n(x) % FANOUT /\ Px(1, x) = m(x) % FANOUT /\ Px(2, x) = l(x) % FANOUT
    BY PxOf
  <2>2. m(x) \in Nat /\ n(x) = FANOUT * m(x) + (n(x) % FANOUT)
    BY <1>1, <2>1, Division
  <2>3. l(x) \in Nat /\ m(x) = FANOUT * l(x) + (m(x) % FANOUT)
    BY <1>1, <2>2, Division
  <2>4. m(x) < FANOUT * FANOUT
    <3>1. FANOUT * FANOUT \in Nat /\ n(x) < FANOUT * (FANOUT * FANOUT)
      BY <1>1, <2>1
    <3> QED  BY <1>1, <2>1, <3>1, Quotient
  <2>5. l(x) < FANOUT
    BY <1>1, <2>2, <2>4, Quotient
  <2>6. l(x) % FANOUT = l(x)
    <3> DEFINE y == l(x)
    <3>1. y \in Nat /\ y < FANOUT
      BY <2>3, <2>5
    <3> HIDE DEF y
    <3>2. y % FANOUT = y
      BY <1>1, <3>1
    <3> QED  BY <3>2 DEF y
  <2> QED  BY <2>1, <2>2, <2>3, <2>6
<1>3. l(v) = l(w)
  BY <1>2
<1>4. m(v) = m(w)
  BY <1>2, <1>3
<1>5. n(v) = n(w)
  BY <1>2, <1>4
<1> QED  BY <1>2, <1>5
-----------------------------------------------------------------------------
(* The tree.  A are the tables of level 1, B those of level 0; r is the root. *)

PteSet == [valid : BOOLEAN, pa : {a \in Nat : Aligned(a)}, perm : SUBSET RWX]
Memory == [Page -> [Idx -> PteSet]]

Tree(m, r, A, B) ==
  /\ r \in Page /\ A \subseteq Page /\ B \subseteq Page
  /\ r \notin A /\ r \notin B /\ A \cap B = {}
  /\ \A i \in Idx : m[r][i].valid => m[r][i].pa \in A
  /\ \A p \in A : \E i \in Idx : m[r][i].valid /\ m[r][i].pa = p
  /\ \A t \in A, i \in Idx : m[t][i].valid => m[t][i].pa \in B
  /\ \A p \in B : \E t \in A, i \in Idx : m[t][i].valid /\ m[t][i].pa = p
  /\ \A i, j \in Idx :
       m[r][i].valid /\ m[r][j].valid /\ m[r][i].pa = m[r][j].pa => i = j
  /\ \A t, u \in A, i, j \in Idx :
       m[t][i].valid /\ m[u][j].valid /\ m[t][i].pa = m[u][j].pa => t = u /\ i = j
  /\ \A i \in Idx : m[r][i].perm = {}
  /\ \A t \in A, i \in Idx : m[t][i].perm = {}
  /\ \A t \in B, i \in Idx : m[t][i].valid <=> m[t][i].perm # {}

\* Free pages, pages of others and tables T are all pages.
Pool(f, h, T) ==
  /\ f \in Seq(Page)
  /\ \A k, l \in 1..Len(f) : f[k] = f[l] => k = l
  /\ h \subseteq Page /\ T \subseteq Page /\ h \cap T = {}
  /\ \A k \in 1..Len(f) : f[k] \notin h /\ f[k] \notin T
  /\ \A p \in Page : p \in h \/ p \in T \/ \E k \in 1..Len(f) : f[k] = p

\* Translate, in memory m from root r.
Look(m, r, va) ==
  IF ~m[r][Px(2, va)].valid THEN NoPte
  ELSE IF ~m[m[r][Px(2, va)].pa][Px(1, va)].valid THEN NoPte
  ELSE m[m[m[r][Px(2, va)].pa][Px(1, va)].pa][Px(0, va)]

LEMMA NoPteFact == NoPte \in PteSet /\ ~NoPte.valid /\ NoPte.perm = {}
<1>1. Aligned(0)
  BY ConstantFacts DEF Aligned
<1> QED  BY <1>1 DEF NoPte, PteSet

LEMMA ZeroFact == ZeroTable \in [Idx -> PteSet] /\ \A i \in Idx : ZeroTable[i] = NoPte
BY NoPteFact DEF ZeroTable

LEMMA PteFact ==
  ASSUME NEW pa \in Nat, Aligned(pa), NEW perm \in SUBSET RWX
  PROVE  /\ Pte(pa, perm) \in PteSet
         /\ Pte(pa, perm).valid /\ Pte(pa, perm).pa = pa /\ Pte(pa, perm).perm = perm
BY DEF Pte, PteSet

LEMMA LitterFact == Litter \in [Idx -> PteSet]
<1> DEFINE q == CHOOSE p \in Page : TRUE
<1>1. q \in Page
  BY PageFacts
<1>2. q \in Nat /\ Aligned(q)
  BY <1>1, PageFacts
<1> HIDE DEF q
<1>3. Pte(q, {"R"}) \in PteSet
  BY <1>2, PteFact DEF RWX
<1>4. Litter = [i \in Idx |-> IF i = 0 THEN NoPte ELSE Pte(q, {"R"})]
  BY DEF Litter, q
<1> QED  BY <1>3, <1>4, NoPteFact

\* The memory after the table p got a new table n for its entry i.
Grown(m, p, i, n) == [m EXCEPT ![n] = ZeroTable, ![p][i] = Pte(n, {})]

LEMMA NewTable ==
  ASSUME NEW m \in Memory, NEW p \in Page, NEW n \in Page, n # p, NEW i \in Idx,
         NEW d, d = Grown(m, p, i, n)
  PROVE  /\ d \in Memory
         /\ \A j \in Idx : d[n][j] = NoPte
         /\ d[p][i] = Pte(n, {})
         /\ \A j \in Idx : j # i => d[p][j] = m[p][j]
         /\ \A q \in Page : q # n /\ q # p => d[q] = m[q]
<1> DEFINE e == [m EXCEPT ![n] = ZeroTable]
<1>1. e \in Memory /\ e[n] = ZeroTable /\ \A q \in Page : q # n => e[q] = m[q]
  BY ZeroFact DEF Memory
<1>2. d = [e EXCEPT ![p][i] = Pte(n, {})]
  BY DEF Grown
<1>3. Pte(n, {}) \in PteSet
  BY PageFacts, PteFact
<1> HIDE DEF e
<1>4. d = [e EXCEPT ![p] = [e[p] EXCEPT ![i] = Pte(n, {})]]
  BY <1>2
<1>5. e[p] \in [Idx -> PteSet] /\ e[p] = m[p]
  BY <1>1 DEF Memory
<1>6. /\ [e[p] EXCEPT ![i] = Pte(n, {})] \in [Idx -> PteSet]
      /\ [e[p] EXCEPT ![i] = Pte(n, {})][i] = Pte(n, {})
      /\ \A j \in Idx : j # i => [e[p] EXCEPT ![i] = Pte(n, {})][j] = m[p][j]
  BY <1>3, <1>5
<1> DEFINE row == [e[p] EXCEPT ![i] = Pte(n, {})]
<1>7. /\ row \in [Idx -> PteSet] /\ row[i] = Pte(n, {})
      /\ \A j \in Idx : j # i => row[j] = m[p][j]
      /\ d = [e EXCEPT ![p] = row]
  BY <1>4, <1>6
<1> HIDE DEF row
<1>8. d \in Memory
  BY <1>1, <1>7 DEF Memory
<1>9. d[p] = row /\ \A q \in Page : q # p => d[q] = e[q]
  BY <1>1, <1>7 DEF Memory
<1> QED  BY <1>1, <1>7, <1>8, <1>9, ZeroFact
-----------------------------------------------------------------------------
(* The free list.                                                          *)

LEMMA PoolTake ==
  ASSUME NEW f, NEW h, NEW T, Pool(f, h, T), f # <<>>
  PROVE  /\ Head(f) \in Page /\ Head(f) \notin h /\ Head(f) \notin T
         /\ Pool(Tail(f), h, T \cup {Head(f)})
         /\ Pool(Tail(f), h \cup {Head(f)}, T)
<1> DEFINE n == Head(f)
           g == Tail(f)
<1>1. f \in Seq(Page) /\ Len(f) \in Nat /\ Len(f) > 0 /\ n = f[1] /\ n \in Page /\ 1 \in 1..Len(f)
  BY DEF Pool
<1>2. /\ g \in Seq(Page) /\ Len(g) = Len(f) - 1
      /\ \A k \in 1..Len(g) : g[k] = f[k + 1] /\ k + 1 \in 1..Len(f)
  BY <1>1, HeadTailProperties
<1> HIDE DEF n, g
<1>3. n \notin h /\ n \notin T
  BY <1>1 DEF Pool
<1>4. \A k, l \in 1..Len(g) : g[k] = g[l] => k = l
  <2> SUFFICES ASSUME NEW k \in 1..Len(g), NEW l \in 1..Len(g), g[k] = g[l]
               PROVE  k = l
    OBVIOUS
  <2>1. k + 1 = l + 1
    BY <1>2 DEF Pool
  <2> QED  BY <2>1, <1>1, <1>2
<1>5. \A k \in 1..Len(g) : g[k] \notin h /\ g[k] \notin T /\ g[k] # n
  <2> SUFFICES ASSUME NEW k \in 1..Len(g)
               PROVE  g[k] \notin h /\ g[k] \notin T /\ g[k] # n
    OBVIOUS
  <2>1. k + 1 \in 1..Len(f) /\ k + 1 # 1 /\ g[k] = f[k + 1]
    BY <1>1, <1>2
  <2> QED  BY <2>1, <1>1 DEF Pool
<1>6. \A p \in Page : p \in h \/ p \in T \/ p = n \/ \E k \in 1..Len(g) : g[k] = p
  <2> SUFFICES ASSUME NEW p \in Page, p \notin h, p \notin T, p # n
               PROVE  \E k \in 1..Len(g) : g[k] = p
    OBVIOUS
  <2>1. PICK l \in 1..Len(f) : f[l] = p
    BY DEF Pool
  <2>2. l - 1 \in 1..Len(g) /\ (l - 1) + 1 = l
    BY <2>1, <1>1, <1>2
  <2>3. g[l - 1] = p
    BY <2>1, <2>2, <1>2
  <2> QED  BY <2>2, <2>3
<1>7. h \subseteq Page /\ T \subseteq Page /\ h \cap T = {}
  BY DEF Pool
<1>8. Pool(g, h, T \cup {n}) /\ Pool(g, h \cup {n}, T)
  BY <1>1, <1>2, <1>3, <1>4, <1>5, <1>6, <1>7 DEF Pool
<1> QED  BY <1>1, <1>3, <1>8 DEF n, g

LEMMA PoolGive ==
  ASSUME NEW f, NEW h, NEW T, Pool(f, h, T), NEW p \in h
  PROVE  Pool(<<p>> \o f, h \ {p}, T)
<1> DEFINE g == <<p>> \o f
<1>1. f \in Seq(Page) /\ Len(f) \in Nat /\ p \in Page /\ p \notin T /\ h \subseteq Page /\ T \subseteq Page
  BY DEF Pool
<1>2. /\ g \in Seq(Page) /\ Len(g) = Len(f) + 1
      /\ g[1] = p
      /\ \A k \in 1..Len(f) : g[k + 1] = f[k]
  BY <1>1
<1> HIDE DEF g
<1>3. \A k \in 1..Len(g) : k = 1 \/ (k - 1 \in 1..Len(f) /\ g[k] = f[k - 1])
  BY <1>1, <1>2
<1>4. \A k, l \in 1..Len(g) : g[k] = g[l] => k = l
  <2> SUFFICES ASSUME NEW k \in 1..Len(g), NEW l \in 1..Len(g), g[k] = g[l]
               PROVE  k = l
    OBVIOUS
  <2>1. CASE k = 1 \/ l = 1
    BY <2>1, <1>2, <1>3 DEF Pool
  <2>2. CASE k # 1 /\ l # 1
    <3>1. k - 1 \in 1..Len(f) /\ l - 1 \in 1..Len(f) /\ f[k - 1] = f[l - 1]
      BY <2>2, <1>3
    <3>2. k - 1 = l - 1
      BY <3>1 DEF Pool
    <3> QED  BY <3>2, <1>1, <1>2
  <2> QED  BY <2>1, <2>2
<1>5. \A k \in 1..Len(g) : g[k] \notin h \ {p} /\ g[k] \notin T
  BY <1>1, <1>2, <1>3 DEF Pool
<1>6. \A q \in Page : q \in h \ {p} \/ q \in T \/ \E k \in 1..Len(g) : g[k] = q
  <2> SUFFICES ASSUME NEW q \in Page, q \notin h \ {p}, q \notin T
               PROVE  \E k \in 1..Len(g) : g[k] = q
    OBVIOUS
  <2>1. CASE q = p
    BY <2>1, <1>1, <1>2
  <2>2. CASE q # p
    <3>1. PICK l \in 1..Len(f) : f[l] = q
      BY <2>2 DEF Pool
    <3>2. l + 1 \in 1..Len(g) /\ g[l + 1] = q
      BY <3>1, <1>1, <1>2
    <3> QED  BY <3>2
  <2> QED  BY <2>1, <2>2
<1>7. Pool(g, h \ {p}, T)
  BY <1>1, <1>2, <1>4, <1>5, <1>6 DEF Pool
<1> QED  BY <1>7 DEF g

-----------------------------------------------------------------------------
(* Growing the tree.                                                       *)

\* A new table of level 1 leaves every translation as it is.
LEMMA GrowTop ==
  ASSUME NEW m \in Memory, NEW r, NEW A, NEW B, Tree(m, r, A, B),
         NEW i \in Idx, ~m[r][i].valid,
         NEW n \in Page, n # r, n \notin A, n \notin B,
         NEW d, d = Grown(m, r, i, n)
  PROVE  /\ d \in Memory /\ Tree(d, r, A \cup {n}, B)
         /\ d[r][i].valid /\ d[r][i].pa = n
         /\ \A v \in VPage : Look(d, r, v) = Look(m, r, v)
<1>1. r \in Page /\ A \subseteq Page /\ B \subseteq Page /\ r \notin A /\ r \notin B
  BY DEF Tree
<1>2. /\ d \in Memory
      /\ \A j \in Idx : d[n][j] = NoPte
      /\ d[r][i] = Pte(n, {})
      /\ \A j \in Idx : j # i => d[r][j] = m[r][j]
      /\ \A q \in Page : q # n /\ q # r => d[q] = m[q]
  BY <1>1, NewTable
<1>3. d[r][i].valid /\ d[r][i].pa = n /\ d[r][i].perm = {}
  BY <1>2 DEF Pte
<1>4. \A j \in Idx : ~d[n][j].valid /\ d[n][j].perm = {}
  BY <1>2, NoPteFact
<1>5. \A t \in A \cup B : d[t] = m[t]
  BY <1>1, <1>2
<1>6. \A j \in Idx : j # i => d[r][j] = m[r][j]
  BY <1>2
<1>7. Tree(d, r, A \cup {n}, B)
  <2>1. /\ \A j \in Idx : d[r][j].valid => d[r][j].pa \in A \cup {n}
        /\ \A p \in A \cup {n} : \E j \in Idx : d[r][j].valid /\ d[r][j].pa = p
        /\ \A j \in Idx : d[r][j].perm = {}
    BY <1>3, <1>6 DEF Tree
  <2>2. \A j, k \in Idx :
          d[r][j].valid /\ d[r][k].valid /\ d[r][j].pa = d[r][k].pa => j = k
    BY <1>3, <1>6 DEF Tree
  <2>3. /\ \A t \in A \cup {n}, j \in Idx : d[t][j].valid => d[t][j].pa \in B
        /\ \A p \in B : \E t \in A \cup {n}, j \in Idx : d[t][j].valid /\ d[t][j].pa = p
        /\ \A t \in A \cup {n}, j \in Idx : d[t][j].perm = {}
        /\ \A t \in B, j \in Idx : d[t][j].valid <=> d[t][j].perm # {}
    BY <1>4, <1>5 DEF Tree
  <2>4. \A t, u \in A \cup {n}, j, k \in Idx :
          d[t][j].valid /\ d[u][k].valid /\ d[t][j].pa = d[u][k].pa => t = u /\ j = k
    BY <1>4, <1>5 DEF Tree
  <2>5. A \cup {n} \subseteq Page /\ r \notin A \cup {n} /\ (A \cup {n}) \cap B = {}
    BY <1>1 DEF Tree
  <2> QED  BY <1>1, <2>1, <2>2, <2>3, <2>4, <2>5 DEF Tree
<1>8. ASSUME NEW v \in VPage
      PROVE  Look(d, r, v) = Look(m, r, v)
  <2>1. Px(0, v) \in Idx /\ Px(1, v) \in Idx /\ Px(2, v) \in Idx
    BY PxInIdx
  <2>2. CASE Px(2, v) = i
    <3>1. Look(m, r, v) = NoPte
      BY <2>2 DEF Look
    <3>2. Look(d, r, v) = NoPte
      BY <2>1, <2>2, <1>3, <1>4 DEF Look
    <3> QED  BY <3>1, <3>2
  <2>3. CASE Px(2, v) # i /\ ~m[r][Px(2, v)].valid
    BY <2>1, <2>3, <1>6 DEF Look
  <2>4. CASE Px(2, v) # i /\ m[r][Px(2, v)].valid
    <3> DEFINE t == m[r][Px(2, v)].pa
    <3>1. d[r][Px(2, v)] = m[r][Px(2, v)] /\ t \in A /\ d[t] = m[t]
      BY <2>1, <2>4, <1>5, <1>6 DEF Tree
    <3> HIDE DEF t
    <3>2. CASE ~m[t][Px(1, v)].valid
      BY <2>4, <3>1, <3>2 DEF Look, t
    <3>3. CASE m[t][Px(1, v)].valid
      <4>1. m[t][Px(1, v)].pa \in B
        BY <2>1, <3>1, <3>3 DEF Tree
      <4>2. d[m[t][Px(1, v)].pa] = m[m[t][Px(1, v)].pa]
        BY <4>1, <1>5
      <4> QED  BY <2>4, <3>1, <3>3, <4>2 DEF Look, t
    <3> QED  BY <3>2, <3>3
  <2> QED  BY <2>2, <2>3, <2>4
<1> QED  BY <1>2, <1>3, <1>7, <1>8

\* And so does a new table of level 0.
LEMMA GrowMiddle ==
  ASSUME NEW m \in Memory, NEW r, NEW A, NEW B, Tree(m, r, A, B),
         NEW p \in A, NEW i \in Idx, ~m[p][i].valid,
         NEW n \in Page, n # r, n \notin A, n \notin B,
         NEW d, d = Grown(m, p, i, n)
  PROVE  /\ d \in Memory /\ Tree(d, r, A, B \cup {n})
         /\ d[p][i].valid /\ d[p][i].pa = n
         /\ d[r] = m[r]
         /\ \A v \in VPage : Look(d, r, v) = Look(m, r, v)
<1>1. /\ r \in Page /\ A \subseteq Page /\ B \subseteq Page /\ r \notin A /\ r \notin B
      /\ p # r /\ p \notin B
  BY DEF Tree
<1> p \in Page /\ n # p
  BY <1>1
<1>2. /\ d \in Memory
      /\ \A j \in Idx : d[n][j] = NoPte
      /\ d[p][i] = Pte(n, {})
      /\ \A j \in Idx : j # i => d[p][j] = m[p][j]
      /\ \A q \in Page : q # n /\ q # p => d[q] = m[q]
  BY NewTable
<1>3. d[p][i].valid /\ d[p][i].pa = n /\ d[p][i].perm = {}
  BY <1>2 DEF Pte
<1>4. \A j \in Idx : ~d[n][j].valid /\ d[n][j].perm = {}
  BY <1>2, NoPteFact
<1>5. d[r] = m[r] /\ (\A t \in B : d[t] = m[t]) /\ \A t \in A : t # p => d[t] = m[t]
  BY <1>1, <1>2
<1>6. \A t \in A, j \in Idx : t # p \/ j # i => d[t][j] = m[t][j]
  BY <1>2, <1>5
<1>7. Tree(d, r, A, B \cup {n})
  <2>1. /\ \A j \in Idx : d[r][j].valid => d[r][j].pa \in A
        /\ \A q \in A : \E j \in Idx : d[r][j].valid /\ d[r][j].pa = q
        /\ \A j \in Idx : d[r][j].perm = {}
        /\ \A j, k \in Idx :
             d[r][j].valid /\ d[r][k].valid /\ d[r][j].pa = d[r][k].pa => j = k
    BY <1>5 DEF Tree
  <2>2. /\ \A t \in A, j \in Idx : d[t][j].valid => d[t][j].pa \in B \cup {n}
        /\ \A t \in A, j \in Idx : d[t][j].perm = {}
    BY <1>3, <1>6 DEF Tree
  <2>3. \A q \in B \cup {n} : \E t \in A, j \in Idx : d[t][j].valid /\ d[t][j].pa = q
    <3> SUFFICES ASSUME NEW q \in B \cup {n}
                 PROVE  \E t \in A, j \in Idx : d[t][j].valid /\ d[t][j].pa = q
      OBVIOUS
    <3>1. CASE q = n
      BY <3>1, <1>3
    <3>2. CASE q \in B
      <4>1. PICK t \in A, j \in Idx : m[t][j].valid /\ m[t][j].pa = q
        BY <3>2 DEF Tree
      <4>2. d[t][j] = m[t][j]
        BY <4>1, <1>6
      <4> QED  BY <4>1, <4>2
    <3> QED  BY <3>1, <3>2
  <2>4. \A t \in B \cup {n}, j \in Idx : d[t][j].valid <=> d[t][j].perm # {}
    BY <1>4, <1>5 DEF Tree
  <2>5. \A t, u \in A, j, k \in Idx :
          d[t][j].valid /\ d[u][k].valid /\ d[t][j].pa = d[u][k].pa => t = u /\ j = k
    <3> SUFFICES ASSUME NEW t \in A, NEW u \in A, NEW j \in Idx, NEW k \in Idx,
                        d[t][j].valid, d[u][k].valid, d[t][j].pa = d[u][k].pa
                 PROVE  t = u /\ j = k
      OBVIOUS
    <3>1. \A x \in A, l \in Idx : (x # p \/ l # i) /\ d[x][l].valid => d[x][l].pa # n
      BY <1>6 DEF Tree
    <3>2. CASE (t = p /\ j = i) \/ (u = p /\ k = i)
      BY <3>1, <3>2, <1>3
    <3>3. CASE (t # p \/ j # i) /\ (u # p \/ k # i)
      <4>1. d[t][j] = m[t][j] /\ d[u][k] = m[u][k]
        BY <3>3, <1>6
      <4> QED  BY <4>1 DEF Tree
    <3> QED  BY <3>2, <3>3
  <2>6. B \cup {n} \subseteq Page /\ r \notin B \cup {n} /\ A \cap (B \cup {n}) = {}
    BY <1>1 DEF Tree
  <2> QED  BY <1>1, <2>1, <2>2, <2>3, <2>4, <2>5, <2>6 DEF Tree
<1>8. ASSUME NEW v \in VPage
      PROVE  Look(d, r, v) = Look(m, r, v)
  <2>1. Px(0, v) \in Idx /\ Px(1, v) \in Idx /\ Px(2, v) \in Idx
    BY PxInIdx
  <2> DEFINE t == m[r][Px(2, v)].pa
  <2>2. CASE ~m[r][Px(2, v)].valid
    BY <2>2, <1>5 DEF Look
  <2>3. CASE m[r][Px(2, v)].valid
    <3>1. t \in A
      BY <2>1, <2>3 DEF Tree
    <3> HIDE DEF t
    <3>2. CASE t = p /\ Px(1, v) = i
      <4>1. Look(m, r, v) = NoPte
        BY <2>3, <3>2 DEF Look, t
      <4>2. Look(d, r, v) = NoPte
        BY <2>1, <2>3, <3>2, <1>2, <1>3, <1>5 DEF Look, t
      <4> QED  BY <4>1, <4>2
    <3>3. CASE t # p \/ Px(1, v) # i
      <4>1. d[t][Px(1, v)] = m[t][Px(1, v)]
        BY <2>1, <3>1, <3>3, <1>6
      <4>2. CASE ~m[t][Px(1, v)].valid
        BY <2>3, <4>1, <4>2, <1>5 DEF Look, t
      <4>3. CASE m[t][Px(1, v)].valid
        <5>1. d[m[t][Px(1, v)].pa] = m[m[t][Px(1, v)].pa]
          BY <2>1, <3>1, <4>3, <1>5 DEF Tree
        <5> QED  BY <2>3, <4>1, <4>3, <5>1, <1>5 DEF Look, t
      <4> QED  BY <4>2, <4>3
    <3> QED  BY <3>2, <3>3
  <2> QED  BY <2>2, <2>3
<1> QED  BY <1>2, <1>3, <1>5, <1>7, <1>8
-----------------------------------------------------------------------------
(* walk.                                                                   *)

Sound(m, f, h, r, A, B) ==
  m \in Memory /\ Tree(m, r, A, B) /\ Pool(f, h, {r} \cup A \cup B)

SameLook(m, n, r) == \A v \in VPage : Look(m, r, v) = Look(n, r, v)

At(m, f, pt) == [mem |-> m, free |-> f, pt |-> pt]

LEMMA DescendIs ==
  ASSUME NEW m, NEW f, NEW pt, NEW level, NEW va
  PROVE  LET i == Px(level, va)
         IN  /\ pt = 0 => Descend(At(m, f, pt), level, va) = At(m, f, 0)
             /\ pt # 0 /\ m[pt][i].valid =>
                  Descend(At(m, f, pt), level, va) = At(m, f, m[pt][i].pa)
             /\ pt # 0 /\ ~m[pt][i].valid /\ f = <<>> =>
                  Descend(At(m, f, pt), level, va) = At(m, f, 0)
             /\ pt # 0 /\ ~m[pt][i].valid /\ f # <<>> =>
                  Descend(At(m, f, pt), level, va)
                    = At(Grown(m, pt, i, Head(f)), Tail(f), Head(f))
<1> DEFINE w == At(m, f, pt)
           i == Px(level, va)
<1>1. w.mem = m /\ w.free = f /\ w.pt = pt
  BY DEF At
<1>2. [w EXCEPT !.pt = 0] = At(m, f, 0) /\ [w EXCEPT !.pt = m[pt][i].pa] = At(m, f, m[pt][i].pa)
  BY DEF At
<1>3. Descend(w, level, va) =
        CASE w.pt = 0 -> w
          [] w.pt # 0 /\ w.mem[w.pt][i].valid -> [w EXCEPT !.pt = w.mem[w.pt][i].pa]
          [] OTHER ->
               IF w.free = <<>> THEN [w EXCEPT !.pt = 0]
               ELSE At(Grown(w.mem, w.pt, i, Head(w.free)), Tail(w.free), Head(w.free))
  BY DEF Descend, At, Grown
<1> HIDE DEF w, i
<1>4. pt = 0 => Descend(w, level, va) = w
  BY <1>1, <1>3
<1>5. pt # 0 /\ m[pt][i].valid => Descend(w, level, va) = [w EXCEPT !.pt = m[pt][i].pa]
  BY <1>1, <1>3
<1>6. pt # 0 /\ ~m[pt][i].valid /\ f = <<>> => Descend(w, level, va) = [w EXCEPT !.pt = 0]
  BY <1>1, <1>3
<1>7. pt # 0 /\ ~m[pt][i].valid /\ f # <<>> =>
        Descend(w, level, va) = At(Grown(m, pt, i, Head(f)), Tail(f), Head(f))
  BY <1>1, <1>3
<1> QED  BY <1>2, <1>4, <1>5, <1>6, <1>7 DEF w, i

\* From the root to level 1.
LEMMA DescendTop ==
  ASSUME NEW m, NEW f, NEW h, NEW r, NEW A, NEW B, Sound(m, f, h, r, A, B),
         NEW va \in VPage
  PROVE  \E m2, f2, pt, A2 :
           /\ Descend(At(m, f, r), 2, va) = At(m2, f2, pt)
           /\ Sound(m2, f2, h, r, A2, B) /\ SameLook(m2, m, r)
           /\ \/ pt = 0 /\ f2 = <<>>
              \/ pt \in A2 /\ m2[r][Px(2, va)].valid /\ m2[r][Px(2, va)].pa = pt
<1> DEFINE i == Px(2, va)
           n == Head(f)
           P(m2, f2, pt, A2) ==
             /\ Descend(At(m, f, r), 2, va) = At(m2, f2, pt)
             /\ Sound(m2, f2, h, r, A2, B) /\ SameLook(m2, m, r)
             /\ \/ pt = 0 /\ f2 = <<>>
                \/ pt \in A2 /\ m2[r][Px(2, va)].valid /\ m2[r][Px(2, va)].pa = pt
<1>1. /\ i \in Idx /\ r # 0 /\ r \in Page /\ m \in Memory
      /\ Tree(m, r, A, B) /\ Pool(f, h, {r} \cup A \cup B)
  BY PxInIdx, PageFacts DEF Sound, Tree
<1>2. CASE m[r][i].valid
  <2>1. m[r][i].pa \in A
    BY <1>1, <1>2 DEF Tree
  <2>2. Descend(At(m, f, r), 2, va) = At(m, f, m[r][i].pa)
    BY <1>1, <1>2, DescendIs
  <2>3. P(m, f, m[r][i].pa, A)
    BY <1>2, <2>1, <2>2 DEF SameLook
  <2> QED  BY <2>3
<1>3. CASE ~m[r][i].valid /\ f = <<>>
  <2>1. Descend(At(m, f, r), 2, va) = At(m, f, 0)
    BY <1>1, <1>3, DescendIs
  <2>2. P(m, f, 0, A)
    BY <1>3, <2>1 DEF SameLook
  <2> QED  BY <2>2
<1>4. CASE ~m[r][i].valid /\ f # <<>>
  <2> DEFINE d == Grown(m, r, i, n)
  <2>1. Descend(At(m, f, r), 2, va) = At(d, Tail(f), n)
    BY <1>1, <1>4, DescendIs
  <2>2. n \in Page /\ n \notin {r} \cup A \cup B /\ Pool(Tail(f), h, ({r} \cup A \cup B) \cup {n})
    BY <1>1, <1>4, PoolTake
  <2>3. ({r} \cup A \cup B) \cup {n} = {r} \cup (A \cup {n}) \cup B
    OBVIOUS
  <2> HIDE DEF d, n
  <2>4. n # r /\ n \notin A /\ n \notin B
    BY <2>2
  <2>5. d = Grown(m, r, i, n)
    BY DEF d
  <2> HIDE DEF i
  <2>6. /\ d \in Memory /\ Tree(d, r, A \cup {n}, B)
        /\ d[r][i].valid /\ d[r][i].pa = n
        /\ \A v \in VPage : Look(d, r, v) = Look(m, r, v)
    BY <1>1, <1>4, <2>2, <2>4, <2>5, GrowTop
  <2>7. Pool(Tail(f), h, {r} \cup (A \cup {n}) \cup B)
    BY <2>2, <2>3
  <2>8. Sound(d, Tail(f), h, r, A \cup {n}, B) /\ SameLook(d, m, r)
    BY <2>6, <2>7 DEF Sound, SameLook
  <2>9. P(d, Tail(f), n, A \cup {n})
    BY <2>1, <2>6, <2>8 DEF i
  <2> QED  BY <2>9
<1> QED  BY <1>2, <1>3, <1>4

\* From a table of level 1 to level 0.
LEMMA DescendMiddle ==
  ASSUME NEW m, NEW f, NEW h, NEW r, NEW A, NEW B, Sound(m, f, h, r, A, B),
         NEW va \in VPage, NEW p \in A
  PROVE  \E m2, f2, pt, B2 :
           /\ Descend(At(m, f, p), 1, va) = At(m2, f2, pt)
           /\ Sound(m2, f2, h, r, A, B2) /\ SameLook(m2, m, r)
           /\ m2[r] = m[r]
           /\ \/ pt = 0 /\ f2 = <<>>
              \/ pt \in B2 /\ m2[p][Px(1, va)].valid /\ m2[p][Px(1, va)].pa = pt
<1> DEFINE i == Px(1, va)
           n == Head(f)
           P(m2, f2, pt, B2) ==
             /\ Descend(At(m, f, p), 1, va) = At(m2, f2, pt)
             /\ Sound(m2, f2, h, r, A, B2) /\ SameLook(m2, m, r)
             /\ m2[r] = m[r]
             /\ \/ pt = 0 /\ f2 = <<>>
                \/ pt \in B2 /\ m2[p][Px(1, va)].valid /\ m2[p][Px(1, va)].pa = pt
<1>1. /\ i \in Idx /\ p # 0 /\ p \in Page /\ m \in Memory
      /\ Tree(m, r, A, B) /\ Pool(f, h, {r} \cup A \cup B)
  BY PxInIdx, PageFacts DEF Sound, Tree
<1>2. CASE m[p][i].valid
  <2>1. m[p][i].pa \in B
    BY <1>1, <1>2 DEF Tree
  <2>2. Descend(At(m, f, p), 1, va) = At(m, f, m[p][i].pa)
    BY <1>1, <1>2, DescendIs
  <2>3. P(m, f, m[p][i].pa, B)
    BY <1>2, <2>1, <2>2 DEF SameLook
  <2> QED  BY <2>3
<1>3. CASE ~m[p][i].valid /\ f = <<>>
  <2>1. Descend(At(m, f, p), 1, va) = At(m, f, 0)
    BY <1>1, <1>3, DescendIs
  <2>2. P(m, f, 0, B)
    BY <1>3, <2>1 DEF SameLook
  <2> QED  BY <2>2
<1>4. CASE ~m[p][i].valid /\ f # <<>>
  <2> DEFINE d == Grown(m, p, i, n)
  <2>1. Descend(At(m, f, p), 1, va) = At(d, Tail(f), n)
    BY <1>1, <1>4, DescendIs
  <2>2. n \in Page /\ n \notin {r} \cup A \cup B /\ Pool(Tail(f), h, ({r} \cup A \cup B) \cup {n})
    BY <1>1, <1>4, PoolTake
  <2>3. ({r} \cup A \cup B) \cup {n} = {r} \cup A \cup (B \cup {n})
    OBVIOUS
  <2> HIDE DEF d, n
  <2>4. n # r /\ n \notin A /\ n \notin B
    BY <2>2
  <2>5. d = Grown(m, p, i, n)
    BY DEF d
  <2> HIDE DEF i
  <2>6. /\ d \in Memory /\ Tree(d, r, A, B \cup {n})
        /\ d[p][i].valid /\ d[p][i].pa = n
        /\ d[r] = m[r]
        /\ \A v \in VPage : Look(d, r, v) = Look(m, r, v)
    BY <1>1, <1>4, <2>2, <2>4, <2>5, GrowMiddle
  <2>7. Pool(Tail(f), h, {r} \cup A \cup (B \cup {n}))
    BY <2>2, <2>3
  <2>8. Sound(d, Tail(f), h, r, A, B \cup {n}) /\ SameLook(d, m, r)
    BY <2>6, <2>7 DEF Sound, SameLook
  <2>9. P(d, Tail(f), n, B \cup {n})
    BY <2>1, <2>6, <2>8 DEF i
  <2> QED  BY <2>9
<1> QED  BY <1>2, <1>3, <1>4

\* pt is the table of level 0 that va is looked up in.
Leads(m, r, va, pt) ==
  /\ m[r][Px(2, va)].valid
  /\ m[m[r][Px(2, va)].pa][Px(1, va)].valid
  /\ m[m[r][Px(2, va)].pa][Px(1, va)].pa = pt

\* walk allocates what is missing, changes no translation, and fails only when
\* no page is left.
LEMMA Walked ==
  ASSUME NEW m, NEW f, NEW h, NEW r, NEW A, NEW B, Sound(m, f, h, r, A, B),
         NEW va \in VPage
  PROVE  \E m2, f2, pt, A2, B2 :
           /\ Descend(Descend(At(m, f, r), 2, va), 1, va) = At(m2, f2, pt)
           /\ Sound(m2, f2, h, r, A2, B2) /\ SameLook(m2, m, r)
           /\ \/ pt = 0 /\ f2 = <<>>
              \/ pt \in B2 /\ Leads(m2, r, va, pt)
<1>1. PICK m1, f1, p, A2 :
        /\ Descend(At(m, f, r), 2, va) = At(m1, f1, p)
        /\ Sound(m1, f1, h, r, A2, B) /\ SameLook(m1, m, r)
        /\ \/ p = 0 /\ f1 = <<>>
           \/ p \in A2 /\ m1[r][Px(2, va)].valid /\ m1[r][Px(2, va)].pa = p
  BY DescendTop
<1>2. CASE p = 0
  <2>1. f1 = <<>>
    BY <1>1, <1>2, PageFacts DEF Sound, Tree
  <2>2. Descend(At(m1, f1, p), 1, va) = At(m1, f1, 0)
    BY <1>2, DescendIs
  <2> QED  BY <1>1, <2>1, <2>2
<1>3. CASE p # 0
  <2>1. p \in A2 /\ m1[r][Px(2, va)].valid /\ m1[r][Px(2, va)].pa = p
    BY <1>1, <1>3
  <2>2. PICK m2, f2, pt, B2 :
          /\ Descend(At(m1, f1, p), 1, va) = At(m2, f2, pt)
          /\ Sound(m2, f2, h, r, A2, B2) /\ SameLook(m2, m1, r)
          /\ m2[r] = m1[r]
          /\ \/ pt = 0 /\ f2 = <<>>
             \/ pt \in B2 /\ m2[p][Px(1, va)].valid /\ m2[p][Px(1, va)].pa = pt
    BY <1>1, <2>1, DescendMiddle
  <2>3. SameLook(m2, m, r)
    BY <1>1, <2>2 DEF SameLook
  <2>4. pt \in B2 /\ m2[p][Px(1, va)].valid /\ m2[p][Px(1, va)].pa = pt => Leads(m2, r, va, pt)
    BY <2>1, <2>2 DEF Leads
  <2> QED  BY <1>1, <2>2, <2>3, <2>4
<1> QED  BY <1>2, <1>3
-----------------------------------------------------------------------------
(* mappage.                                                                *)

Filled(m, p, i, e) == [m EXCEPT ![p][i] = e]

LEMMA FilledIs ==
  ASSUME NEW m \in Memory, NEW p \in Page, NEW i \in Idx, NEW e \in PteSet
  PROVE  /\ Filled(m, p, i, e) \in Memory
         /\ Filled(m, p, i, e)[p][i] = e
         /\ \A j \in Idx : j # i => Filled(m, p, i, e)[p][j] = m[p][j]
         /\ \A q \in Page : q # p => Filled(m, p, i, e)[q] = m[q]
<1> DEFINE row == [m[p] EXCEPT ![i] = e]
           d == Filled(m, p, i, e)
<1>1. d = [m EXCEPT ![p] = row]
  BY DEF Filled
<1>2. /\ row \in [Idx -> PteSet] /\ row[i] = e
      /\ \A j \in Idx : j # i => row[j] = m[p][j]
  BY DEF Memory
<1> HIDE DEF row, d
<1>3. d \in Memory
  BY <1>1, <1>2 DEF Memory
<1>4. d[p] = row /\ \A q \in Page : q # p => d[q] = m[q]
  BY <1>1 DEF Memory
<1> QED  BY <1>2, <1>3, <1>4 DEF d

\* An entry that was empty is filled: va has a translation, and nothing else
\* is different.
LEMMA SetLeaf ==
  ASSUME NEW m, NEW f, NEW h, NEW r, NEW A, NEW B, Sound(m, f, h, r, A, B),
         NEW va \in VPage, NEW pt \in B, Leads(m, r, va, pt),
         NEW pa \in Nat, Aligned(pa), NEW perm \in SUBSET RWX, perm # {},
         NEW d, d = Filled(m, pt, Px(0, va), Pte(pa, perm))
  PROVE  /\ Sound(d, f, h, r, A, B)
         /\ Look(m, r, va) = m[pt][Px(0, va)]
         /\ Look(d, r, va) = Pte(pa, perm)
         /\ \A v \in VPage : v # va => Look(d, r, v) = Look(m, r, v)
<1> DEFINE e == Pte(pa, perm)
           i == Px(0, va)
<1>1. e \in PteSet /\ e.valid /\ e.perm = perm
  BY PteFact
<1>2. /\ m \in Memory /\ Tree(m, r, A, B) /\ Pool(f, h, {r} \cup A \cup B)
      /\ i \in Idx /\ pt \in Page /\ pt # r /\ pt \notin A /\ A \subseteq Page /\ B \subseteq Page /\ r \in Page
  BY PxInIdx DEF Sound, Tree
<1>3. /\ d \in Memory
      /\ d[pt][i] = e
      /\ \A j \in Idx : j # i => d[pt][j] = m[pt][j]
      /\ \A q \in Page : q # pt => d[q] = m[q]
  BY <1>1, <1>2, FilledIs
<1> HIDE DEF e
<1>4. d[r] = m[r] /\ (\A t \in A : d[t] = m[t]) /\ \A t \in B : t # pt => d[t] = m[t]
  BY <1>2, <1>3
<1>5. \A t \in B, j \in Idx : d[t][j].valid <=> d[t][j].perm # {}
  <2> SUFFICES ASSUME NEW t \in B, NEW j \in Idx
               PROVE  d[t][j].valid <=> d[t][j].perm # {}
    OBVIOUS
  <2>1. CASE t = pt /\ j = i
    BY <2>1, <1>1, <1>3
  <2>2. CASE t # pt \/ j # i
    <3>1. d[t][j] = m[t][j]
      BY <2>2, <1>3, <1>4
    <3> QED  BY <3>1, <1>2 DEF Tree
  <2> QED  BY <2>1, <2>2
<1>6. Tree(d, r, A, B)
  BY <1>2, <1>4, <1>5 DEF Tree
<1>7. Look(m, r, va) = m[pt][i] /\ Look(d, r, va) = e
  <2>1. Px(2, va) \in Idx /\ m[r][Px(2, va)].pa \in A
    BY <1>2, PxInIdx DEF Leads, Tree
  <2> HIDE DEF i
  <2>2. d[m[r][Px(2, va)].pa] = m[m[r][Px(2, va)].pa]
    BY <2>1, <1>4
  <2>3. Leads(d, r, va, pt)
    BY <2>2, <1>4 DEF Leads
  <2>4. Look(m, r, va) = m[pt][Px(0, va)]
    BY DEF Leads, Look
  <2>5. Look(d, r, va) = d[pt][Px(0, va)]
    BY <2>3 DEF Leads, Look
  <2> QED  BY <2>4, <2>5, <1>3 DEF i
<1>8. ASSUME NEW v \in VPage, v # va
      PROVE  Look(d, r, v) = Look(m, r, v)
  <2>1. Px(0, v) \in Idx /\ Px(1, v) \in Idx /\ Px(2, v) \in Idx
    BY PxInIdx
  <2>2. Px(1, va) \in Idx /\ Px(2, va) \in Idx
    BY PxInIdx
  <2> DEFINE t == m[r][Px(2, v)].pa
             q == m[t][Px(1, v)].pa
  <2>3. CASE ~m[r][Px(2, v)].valid
    BY <2>3, <1>4 DEF Look
  <2>4. CASE m[r][Px(2, v)].valid /\ ~m[t][Px(1, v)].valid
    <3>1. t \in A
      BY <2>1, <2>4, <1>2 DEF Tree
    <3>2. d[t] = m[t]
      BY <3>1, <1>4
    <3> QED  BY <2>4, <3>2, <1>4 DEF Look
  <2>5. CASE m[r][Px(2, v)].valid /\ m[t][Px(1, v)].valid
    <3>1. t \in A
      BY <2>1, <2>5, <1>2 DEF Tree
    <3>2. q \in B
      BY <2>1, <2>5, <3>1, <1>2 DEF Tree
    <3>3. Look(m, r, v) = m[q][Px(0, v)]
      BY <2>5 DEF Look
    <3>4. Look(d, r, v) = d[q][Px(0, v)]
      <4>1. d[t] = m[t] /\ d[r] = m[r]
        BY <3>1, <1>4
      <4> QED  BY <2>5, <4>1 DEF Look
    <3>5. q = pt /\ Px(0, v) = i => FALSE
      <4> SUFFICES ASSUME q = pt, Px(0, v) = i
                   PROVE  FALSE
        OBVIOUS
      <4>1. /\ m[r][Px(2, va)].valid
            /\ m[m[r][Px(2, va)].pa][Px(1, va)].valid
            /\ m[m[r][Px(2, va)].pa][Px(1, va)].pa = q
        BY DEF Leads
      <4>2. m[r][Px(2, va)].pa \in A
        BY <2>2, <4>1, <1>2 DEF Tree
      <4> DEFINE s == m[r][Px(2, va)].pa
      <4>3. /\ s \in A /\ t \in A /\ m[s][Px(1, va)].valid /\ m[t][Px(1, v)].valid
            /\ m[s][Px(1, va)].pa = m[t][Px(1, v)].pa
        BY <2>5, <3>1, <4>1, <4>2
      <4> HIDE DEF t, s
      <4>4. s = t /\ Px(1, va) = Px(1, v)
        BY <2>1, <2>2, <4>3, <1>2 DEF Tree
      <4>5. Px(2, va) = Px(2, v)
        BY <2>1, <2>2, <2>5, <4>1, <4>4, <1>2 DEF Tree, s, t
      <4>6. v = va
        BY <4>4, <4>5, PxInjective
      <4> QED  BY <4>6, <1>8
    <3> HIDE DEF q, t, i
    <3>6. d[q][Px(0, v)] = m[q][Px(0, v)]
      BY <2>1, <3>2, <3>5, <1>3, <1>4
    <3> QED  BY <3>3, <3>4, <3>6
  <2> QED  BY <2>3, <2>4, <2>5
<1>9. Sound(d, f, h, r, A, B)
  BY <1>2, <1>3, <1>6 DEF Sound
<1> QED  BY <1>7, <1>8, <1>9 DEF e

\* What mappage does: it maps one page that was not mapped, or changes no
\* translation; it fails for want of a page and panics for an address only.
LEMMA MappageDoes ==
  ASSUME NEW A, NEW B, Sound(mem, freelist, held, root, A, B),
         NEW va \in Nat, NEW pa \in Nat, NEW perm \in SUBSET RWX, perm # {},
         NEW ret, Mappage(va, pa, perm, ret)
  PROVE  /\ ret \in {"ok", "fail", "panic"}
         /\ \E A2, B2 : Sound(mem', freelist', held, root, A2, B2)
         /\ ret = "ok" =>
              /\ va \in VPage /\ Aligned(pa) /\ ~Look(mem, root, va).valid
              /\ Look(mem', root, va) = Pte(pa, perm)
              /\ \A v \in VPage : v # va => Look(mem', root, v) = Look(mem, root, v)
         /\ ret # "ok" => SameLook(mem', mem, root)
         /\ ret = "fail" => freelist' = <<>>
         /\ ret = "panic" =>
              \/ ~Aligned(va) \/ ~Aligned(pa) \/ va >= MAXVA
              \/ Look(mem, root, va).valid
<1>1. CASE ~Aligned(va) \/ ~Aligned(pa) \/ va >= MAXVA
  <2>1. ret = "panic" /\ mem' = mem /\ freelist' = freelist
    BY <1>1 DEF Mappage
  <2> QED  BY <1>1, <2>1 DEF SameLook
<1>2. CASE ~(~Aligned(va) \/ ~Aligned(pa) \/ va >= MAXVA)
  <2>1. va \in VPage /\ Aligned(pa)
    BY <1>2, ConstantFacts DEF VPage, PagesOf
  <2>2. PICK m2, f2, pt, A2, B2 :
          /\ Descend(Descend(At(mem, freelist, root), 2, va), 1, va) = At(m2, f2, pt)
          /\ Sound(m2, f2, held, root, A2, B2) /\ SameLook(m2, mem, root)
          /\ \/ pt = 0 /\ f2 = <<>>
             \/ pt \in B2 /\ Leads(m2, root, va, pt)
    BY <2>1, Walked
  <2>3. Walk(va).mem = m2 /\ Walk(va).free = f2 /\ Walk(va).pt = pt
    BY <2>2 DEF Walk, At
  <2>4. /\ freelist' = f2
        /\ IF pt = 0 THEN ret = "fail" /\ mem' = m2
           ELSE IF m2[pt][Px(0, va)].valid THEN ret = "panic" /\ mem' = m2
           ELSE ret = "ok" /\ mem' = Filled(m2, pt, Px(0, va), Pte(pa, perm))
    BY <1>2, <2>3 DEF Mappage, Filled
  <2>5. CASE pt = 0
    <3>1. f2 = <<>>
      BY <2>2, <2>5, PageFacts DEF Sound, Tree
    <3> QED  BY <2>2, <2>4, <2>5, <3>1
  <2>6. CASE pt # 0
    <3>1. pt \in B2 /\ Leads(m2, root, va, pt)
      BY <2>2, <2>6
    <3>2. Look(m2, root, va) = m2[pt][Px(0, va)]
      BY <3>1 DEF Leads, Look
    <3>3. Look(mem, root, va) = m2[pt][Px(0, va)]
      BY <2>1, <2>2, <3>2 DEF SameLook
    <3>4. CASE m2[pt][Px(0, va)].valid
      BY <2>2, <2>4, <2>6, <3>3, <3>4
    <3>5. CASE ~m2[pt][Px(0, va)].valid
      <4>1. ret = "ok" /\ mem' = Filled(m2, pt, Px(0, va), Pte(pa, perm))
        BY <2>4, <2>6, <3>5
      <4>2. /\ Sound(mem', f2, held, root, A2, B2)
            /\ Look(mem', root, va) = Pte(pa, perm)
            /\ \A v \in VPage : v # va => Look(mem', root, v) = Look(m2, root, v)
        <5> DEFINE d == Filled(m2, pt, Px(0, va), Pte(pa, perm))
        <5>1. d = Filled(m2, pt, Px(0, va), Pte(pa, perm)) /\ mem' = d
          BY <4>1
        <5> HIDE DEF d
        <5>2. /\ Sound(d, f2, held, root, A2, B2)
              /\ Look(d, root, va) = Pte(pa, perm)
              /\ \A v \in VPage : v # va => Look(d, root, v) = Look(m2, root, v)
          BY <2>1, <2>2, <3>1, <5>1, SetLeaf
        <5> QED  BY <5>1, <5>2
      <4>3. \A v \in VPage : v # va => Look(mem', root, v) = Look(mem, root, v)
        BY <2>2, <4>2 DEF SameLook
      <4> QED  BY <2>1, <2>4, <3>3, <3>5, <4>1, <4>2, <4>3
    <3> QED  BY <3>4, <3>5
  <2> QED  BY <2>5, <2>6
<1> QED  BY <1>1, <1>2
-----------------------------------------------------------------------------
(* The inductive invariant.                                                *)

Ram == PagesOf(KERNBASE, PHYSTOP)
Identity(va) == Pte(va, IF va = UART0 THEN RW ELSE RWX)

\* what the processor finds for va, with the table r of memory m
Meaning(m, r, va) == IF r = 0 THEN NoPte ELSE Look(m, r, va)

Maps(S) == \A v \in S : Meaning(mem, root, v) = Identity(v)
MapsOnly(S) == \A v \in VPage : v \notin S => ~Meaning(mem, root, v).valid

JobOK ==
  /\ job \in [a : Nat, last : Int, pa : Nat, perm : SUBSET RWX]
  /\ Aligned(job.a) /\ Aligned(job.pa)

Trees ==
  /\ mem \in Memory
  /\ root = 0 => Pool(freelist, held, {}) /\ pc \in {"start", "panic"}
  /\ root # 0 => \E A, B : Sound(mem, freelist, held, root, A, B)

\* How far kvminit is: it maps one page after the other, and nothing else.
Progress ==
  /\ pc \in {"start", "kernel", "uart", "ready", "panic"}
  /\ pc = "start" => root = 0
  /\ pc = "kernel" =>
       /\ job.a \in Ram /\ job.pa = job.a /\ job.last = PHYSTOP - PGSIZE /\ job.perm = RWX
       /\ Maps(PagesOf(KERNBASE, job.a)) /\ MapsOnly(PagesOf(KERNBASE, job.a))
  /\ pc = "uart" =>
       /\ job = Job(UART0, PGSIZE, RW)
       /\ Maps(Ram) /\ MapsOnly(Ram)
  /\ pc = "ready" => Maps(Ram \cup {UART0})

Paging ==
  /\ satp \in {0, root}
  /\ satp # 0 => Maps(Ram \cup {UART0})

IInv == JobOK /\ Trees /\ Progress /\ Paging

LEMMA MeaningIs == \A v : Translate(v) = Meaning(mem, root, v)
BY DEF Translate, Meaning, Look

LEMMA PageAfter ==
  ASSUME NEW e \in Nat, Aligned(e), NEW a \in PagesOf(KERNBASE, e)
  PROVE  /\ a \in Nat /\ a + PGSIZE \in Nat /\ Aligned(a + PGSIZE) /\ a + PGSIZE <= e
         /\ PagesOf(KERNBASE, a + PGSIZE) = PagesOf(KERNBASE, a) \cup {a}
<1>1. KERNBASE \in Nat /\ PGSIZE \in Nat \ {0} /\ a \in Nat /\ KERNBASE <= a /\ a < e /\ Aligned(a)
  BY ConstantFacts DEF PagesOf
<1> DEFINE k == a \div PGSIZE
           l == e \div PGSIZE
<1>2. k \in Nat /\ a = PGSIZE * k /\ l \in Nat /\ e = PGSIZE * l
  BY <1>1, Number
<1> HIDE DEF k, l
<1>3. a + PGSIZE = PGSIZE * (k + 1) /\ k + 1 \in Nat
  BY <1>1, <1>2
<1>4. Aligned(a + PGSIZE) /\ a + PGSIZE \in Nat
  BY <1>1, <1>3, MultipleAligned
<1>5. a + PGSIZE <= e
  <2>1. k < l
    BY <1>1, <1>2
  <2>2. PGSIZE * (k + 1) <= PGSIZE * l
    BY <1>1, <1>2, <2>1
  <2> QED  BY <1>2, <1>3, <2>2
<1>6. ASSUME NEW x \in PagesOf(KERNBASE, a + PGSIZE)
      PROVE  x \in PagesOf(KERNBASE, a) \/ x = a
  <2>1. x \in Nat /\ KERNBASE <= x /\ x < a + PGSIZE /\ Aligned(x)
    BY <1>1, <1>4 DEF PagesOf
  <2> DEFINE j == x \div PGSIZE
  <2>2. j \in Nat /\ x = PGSIZE * j
    BY <2>1, Number
  <2> HIDE DEF j
  <2>3. j < k + 1
    BY <1>1, <1>2, <1>3, <2>1, <2>2
  <2>4. j = k \/ j < k
    BY <1>2, <2>2, <2>3
  <2>5. x = a \/ x < a
    <3>1. j < k => PGSIZE * j < PGSIZE * k
      BY <1>1, <1>2, <2>2
    <3> QED  BY <1>2, <2>2, <2>4, <3>1
  <2> QED  BY <1>1, <2>1, <2>5 DEF PagesOf
<1>7. ASSUME NEW x \in PagesOf(KERNBASE, a) \cup {a}
      PROVE  x \in PagesOf(KERNBASE, a + PGSIZE)
  BY <1>1, <1>4 DEF PagesOf
<1> QED  BY <1>1, <1>4, <1>5, <1>6, <1>7

\* A page is aligned: the UART is no memory.
LEMMA RamFacts ==
  /\ Ram \subseteq VPage /\ UART0 \in VPage /\ UART0 \notin Ram /\ KERNBASE \in Ram
  /\ PagesOf(KERNBASE, KERNBASE) = {}
  /\ PHYSTOP - PGSIZE \in Nat
  /\ Identity(UART0) = Pte(UART0, RW)
  /\ \A v \in Ram : Identity(v) = Pte(v, RWX)
  /\ \A v \in VPage : Identity(v).valid /\ v \in Nat /\ Aligned(v) /\ v < MAXVA
<1>1. Ram \subseteq VPage /\ UART0 \in VPage /\ UART0 \notin Ram /\ KERNBASE \in Ram
  BY ConstantFacts DEF Ram, VPage, PagesOf
<1>2. PagesOf(KERNBASE, KERNBASE) = {}
  BY ConstantFacts DEF PagesOf
<1>3. PHYSTOP - PGSIZE \in Nat
  <2>1. kernel_end \in PagesOf(KERNBASE, PHYSTOP)
    BY ConstantFacts DEF PagesOf
  <2>2. kernel_end + PGSIZE <= PHYSTOP
    BY <2>1, PageAfter, ConstantFacts
  <2> QED  BY <2>2, ConstantFacts
<1>4. Identity(UART0) = Pte(UART0, RW) /\ \A v \in Ram : Identity(v) = Pte(v, RWX)
  BY <1>1 DEF Identity
<1>5. \A v \in VPage : Identity(v).valid
  BY DEF Identity, Pte
<1>6. \A v \in VPage : v \in Nat /\ Aligned(v) /\ v < MAXVA
  BY ConstantFacts DEF VPage, PagesOf
<1> QED  BY <1>1, <1>2, <1>3, <1>4, <1>5, <1>6

\* pmm_init gives the allocator every page once.
LEMMA InitPool ==
  ASSUME NEW f, f = [n \in 1..NPage |-> PHYSTOP - n * PGSIZE]
  PROVE  Pool(f, {}, {})
<1>1. /\ PGSIZE \in Nat \ {0} /\ PHYSTOP \in Nat /\ kernel_end \in Nat /\ kernel_end < PHYSTOP
      /\ Aligned(PHYSTOP) /\ Aligned(kernel_end)
  BY ConstantFacts
<1> DEFINE H == PHYSTOP \div PGSIZE
           K == kernel_end \div PGSIZE
<1>2. H \in Nat /\ PHYSTOP = PGSIZE * H /\ K \in Nat /\ kernel_end = PGSIZE * K
  BY <1>1, Number
<1> HIDE DEF H, K
<1>3. K < H
  BY <1>1, <1>2
<1>4. NPage \in Nat /\ NPage = H - K
  <2>1. H - K \in Nat /\ PHYSTOP - kernel_end = PGSIZE * (H - K)
    BY <1>1, <1>2, <1>3
  <2>2. (PGSIZE * (H - K)) \div PGSIZE = H - K
    BY <1>1, <2>1
  <2> QED  BY <2>1, <2>2 DEF NPage
<1> HIDE DEF NPage
<1>5. ASSUME NEW n \in 1..NPage
      PROVE  f[n] = PGSIZE * (H - n) /\ f[n] \in Page /\ H - n \in Nat
  <2>1. f[n] = PGSIZE * H - n * PGSIZE /\ n \in Nat /\ n <= H - K /\ 1 <= n
    BY <1>2, <1>4
  <2>2. f[n] = PGSIZE * (H - n) /\ H - n \in Nat /\ K <= H - n /\ H - n < H
    BY <1>1, <1>2, <1>4, <2>1
  <2>3. PGSIZE * K <= PGSIZE * (H - n) /\ PGSIZE * (H - n) < PGSIZE * H
    BY <1>1, <1>2, <2>2
  <2>4. Aligned(PGSIZE * (H - n)) /\ PGSIZE * (H - n) \in Nat
    BY <2>2, MultipleAligned
  <2> QED  BY <1>1, <1>2, <2>2, <2>3, <2>4 DEF Page, PagesOf
<1>6. f \in Seq(Page) /\ Len(f) = NPage
  BY <1>4, <1>5
<1>7. \A k, l \in 1..Len(f) : f[k] = f[l] => k = l
  <2> SUFFICES ASSUME NEW k \in 1..NPage, NEW l \in 1..NPage, f[k] = f[l]
               PROVE  k = l
    BY <1>6
  <2>1. PGSIZE * (H - k) = PGSIZE * (H - l) /\ H - k \in Nat /\ H - l \in Nat
    BY <1>5
  <2>2. H - k = H - l
    BY <1>1, <2>1
  <2> QED  BY <1>2, <1>4, <2>2
<1>8. \A p \in Page : \E k \in 1..Len(f) : f[k] = p
  <2> SUFFICES ASSUME NEW p \in Page
               PROVE  \E k \in 1..NPage : f[k] = p
    BY <1>6
  <2>1. p \in Nat /\ kernel_end <= p /\ p < PHYSTOP /\ Aligned(p)
    BY <1>1 DEF Page, PagesOf
  <2> DEFINE j == p \div PGSIZE
  <2>2. j \in Nat /\ p = PGSIZE * j
    BY <2>1, Number
  <2> HIDE DEF j
  <2>3. K <= j /\ j < H
    <3>1. PGSIZE * K <= PGSIZE * j /\ PGSIZE * j < PGSIZE * H
      BY <1>2, <2>1, <2>2
    <3> QED  BY <1>1, <1>2, <2>2, <3>1
  <2>4. H - j \in 1..NPage /\ H - (H - j) = j
    BY <1>2, <1>4, <2>2, <2>3
  <2>5. f[H - j] = p
    BY <1>5, <2>2, <2>4
  <2> QED  BY <2>4, <2>5
<1> QED  BY <1>6, <1>7, <1>8 DEF Pool
-----------------------------------------------------------------------------
(* The steps.                                                              *)

Keeps == \A v \in VPage : Meaning(mem, root, v)' = Meaning(mem, root, v)
Adds(va, pa, perm) ==
  /\ va \in VPage /\ ~Meaning(mem, root, va).valid
  /\ Meaning(mem, root, va)' = Pte(pa, perm)
  /\ \A v \in VPage : v # va => Meaning(mem, root, v)' = Meaning(mem, root, v)

LEMMA KeepsMaps ==
  ASSUME NEW S \in SUBSET VPage, Keeps
  PROVE  (Maps(S) => Maps(S)') /\ (MapsOnly(S) => MapsOnly(S)')
BY DEF Keeps, Maps, MapsOnly

LEMMA AddsMaps ==
  ASSUME NEW S \in SUBSET VPage, NEW va, NEW pa, NEW perm, Adds(va, pa, perm)
  PROVE  /\ Maps(S) => Maps(S)'
         /\ Maps(S) /\ Pte(pa, perm) = Identity(va) => Maps(S \cup {va})'
         /\ MapsOnly(S) => MapsOnly(S \cup {va})'
<1>1. \A v \in S : Identity(v).valid
  BY RamFacts
<1>2. Maps(S) => va \notin S
  BY <1>1 DEF Adds, Maps
<1>3. Maps(S) => Maps(S)'
  BY <1>2 DEF Adds, Maps
<1>4. Maps(S) /\ Pte(pa, perm) = Identity(va) => Maps(S \cup {va})'
  BY <1>2 DEF Adds, Maps
<1>5. MapsOnly(S) => MapsOnly(S \cup {va})'
  BY DEF Adds, MapsOnly
<1> QED  BY <1>3, <1>4, <1>5

LEMMA SameMemory ==
  ASSUME mem' = mem, root' = root
  PROVE  Keeps
BY DEF Keeps, Meaning

LEMMA MappageStep ==
  ASSUME Trees, root # 0, held' = held, root' = root,
         NEW va \in Nat, NEW pa \in Nat, NEW perm \in SUBSET RWX, perm # {},
         NEW ret, Mappage(va, pa, perm, ret)
  PROVE  /\ ret \in {"ok", "fail", "panic"}
         /\ Trees'
         /\ ret = "ok" => Aligned(pa) /\ Adds(va, pa, perm)
         /\ ret # "ok" => Keeps
         /\ ret = "fail" => freelist' = <<>>
         /\ ret = "panic" =>
              \/ ~Aligned(va) \/ ~Aligned(pa) \/ va >= MAXVA
              \/ Meaning(mem, root, va).valid
<1>1. PICK A, B : Sound(mem, freelist, held, root, A, B)
  BY DEF Trees
<1>2. /\ ret \in {"ok", "fail", "panic"}
      /\ \E A2, B2 : Sound(mem', freelist', held, root, A2, B2)
      /\ ret = "ok" =>
           /\ va \in VPage /\ Aligned(pa) /\ ~Look(mem, root, va).valid
           /\ Look(mem', root, va) = Pte(pa, perm)
           /\ \A v \in VPage : v # va => Look(mem', root, v) = Look(mem, root, v)
      /\ ret # "ok" => SameLook(mem', mem, root)
      /\ ret = "fail" => freelist' = <<>>
      /\ ret = "panic" =>
           \/ ~Aligned(va) \/ ~Aligned(pa) \/ va >= MAXVA
           \/ Look(mem, root, va).valid
  BY <1>1, MappageDoes
<1>3. /\ \A v : Meaning(mem, root, v) = Look(mem, root, v)
      /\ \A v : Meaning(mem, root, v)' = Look(mem', root, v)
  BY DEF Meaning
<1>4. Trees'
  <2>1. PICK A2, B2 : Sound(mem', freelist', held, root, A2, B2)
    BY <1>2
  <2>2. mem' \in Memory
    BY <2>1 DEF Sound
  <2> QED  BY <2>1, <2>2 DEF Trees
<1>5. ret = "ok" => Adds(va, pa, perm)
  BY <1>2, <1>3 DEF Adds
<1>6. ret # "ok" => Keeps
  BY <1>2, <1>3 DEF Keeps, SameLook
<1> QED  BY <1>2, <1>3, <1>4, <1>5, <1>6

LEMMA InitInv == Init => IInv
<1> SUFFICES ASSUME Init
             PROVE  IInv
  OBVIOUS
<1>1. JobOK
  <2>1. job = [a |-> KERNBASE, last |-> KERNBASE + PGSIZE - PGSIZE, pa |-> KERNBASE, perm |-> {}]
    BY DEF Init, Job
  <2> QED  BY <2>1, ConstantFacts DEF JobOK
<1>2. mem \in Memory
  BY ZeroFact DEF Init, Memory
<1>3. Trees
  BY <1>2, InitPool DEF Init, Trees
<1>4. Progress /\ Paging
  BY DEF Init, Progress, Paging
<1> QED  BY <1>1, <1>3, <1>4 DEF IInv

LEMMA AllocPageInv ==
  ASSUME IInv, AllocPage
  PROVE  IInv' /\ Keeps
<1>1. /\ freelist # <<>> /\ held' = held \cup {Head(freelist)} /\ freelist' = Tail(freelist)
      /\ mem' = mem /\ root' = root /\ satp' = satp /\ pc' = pc /\ job' = job
  BY DEF AllocPage, vars
<1>2. Keeps
  BY <1>1, SameMemory
<1>3. Trees'
  <2>1. CASE root = 0
    <3>1. Pool(freelist', held', {}) /\ pc \in {"start", "panic"} /\ mem \in Memory
      BY <1>1, <2>1, PoolTake DEF IInv, Trees
    <3> QED  BY <1>1, <2>1, <3>1 DEF Trees
  <2>2. CASE root # 0
    <3>1. PICK A, B : Sound(mem, freelist, held, root, A, B)
      BY <2>2 DEF IInv, Trees
    <3>2. Sound(mem, freelist', held', root, A, B)
      BY <1>1, <3>1, PoolTake DEF Sound
    <3> QED  BY <1>1, <2>2, <3>1, <3>2 DEF IInv, Trees
  <2> QED  BY <2>1, <2>2
<1>4. Progress' /\ Paging' /\ JobOK'
  BY <1>1 DEF IInv, Progress, Paging, JobOK, Maps, MapsOnly, Meaning
<1> QED  BY <1>2, <1>3, <1>4 DEF IInv

\* A page that other code gives back is not in the tree: what it wrote into it
\* is no table.
LEMMA FreePageInv ==
  ASSUME IInv, NEW p \in held, FreePage(p)
  PROVE  IInv' /\ Keeps
<1>1. /\ held' = held \ {p} /\ mem' = [mem EXCEPT ![p] = Litter] /\ freelist' = <<p>> \o freelist
      /\ root' = root /\ satp' = satp /\ pc' = pc /\ job' = job
  BY DEF FreePage, vars
<1>2. mem \in Memory /\ mem' \in Memory /\ \A q \in Page : q # p => mem'[q] = mem[q]
  BY <1>1, LitterFact DEF IInv, Trees, Memory
<1>3. Trees' /\ Keeps
  <2>1. CASE root = 0
    <3>1. Pool(freelist', held', {}) /\ pc \in {"start", "panic"}
      BY <1>1, <2>1, PoolGive DEF IInv, Trees
    <3>2. Trees'
      BY <1>1, <1>2, <2>1, <3>1 DEF Trees
    <3>3. Keeps
      BY <1>1, <2>1 DEF Keeps, Meaning
    <3> QED  BY <3>2, <3>3
  <2>2. CASE root # 0
    <3>1. PICK A, B : Sound(mem, freelist, held, root, A, B)
      BY <2>2 DEF IInv, Trees
    <3> DEFINE T == {root} \cup A \cup B
    <3>2. Pool(freelist, held, T) /\ Tree(mem, root, A, B)
      BY <3>1 DEF Sound
    <3>3. Pool(freelist', held', T)
      <4> HIDE DEF T
      <4> QED  BY <1>1, <3>2, PoolGive
    <3>4. \A t \in T : mem'[t] = mem[t]
      BY <1>2, <3>2 DEF Pool
    <3>5. mem'[root] = mem[root] /\ \A t \in A \cup B : mem'[t] = mem[t]
      BY <3>4
    <3>6. Tree(mem', root, A, B)
      BY <3>2, <3>5 DEF Tree
    <3>7. Trees'
      BY <1>1, <1>2, <2>2, <3>3, <3>6 DEF Trees, Sound
    <3>8. ASSUME NEW v \in VPage
          PROVE  Look(mem', root, v) = Look(mem, root, v)
      <4>1. Px(0, v) \in Idx /\ Px(1, v) \in Idx /\ Px(2, v) \in Idx
        BY PxInIdx
      <4> DEFINE t == mem[root][Px(2, v)].pa
      <4>2. mem[root][Px(2, v)].valid => t \in A
        BY <3>2, <4>1 DEF Tree
      <4>3. mem[root][Px(2, v)].valid /\ mem[t][Px(1, v)].valid => mem[t][Px(1, v)].pa \in B
        BY <3>2, <4>1, <4>2 DEF Tree
      <4> QED  BY <3>5, <4>2, <4>3 DEF Look
    <3>9. Keeps
      BY <1>1, <2>2, <3>8 DEF Keeps, Meaning
    <3> QED  BY <3>7, <3>9
  <2> QED  BY <2>1, <2>2
<1>4. Ram \cup {UART0} \subseteq VPage
  BY RamFacts
<1>5. Maps(Ram \cup {UART0}) => Maps(Ram \cup {UART0})'
  BY <1>3, <1>4, KeepsMaps
<1>6. Progress' /\ Paging' /\ JobOK'
  <2>1. pc \in {"start", "ready"}
    BY DEF FreePage
  <2>2. Progress'
    BY <1>1, <1>5, <2>1 DEF IInv, Progress
  <2>3. Paging'
    BY <1>1, <1>5 DEF IInv, Paging
  <2>4. JobOK'
    BY <1>1 DEF IInv, JobOK
  <2> QED  BY <2>2, <2>3, <2>4
<1> QED  BY <1>3, <1>6 DEF IInv
\* create_pagetable: the root is cleared, so nothing is mapped.
LEMMA KvminitInv ==
  ASSUME IInv, Kvminit
  PROVE  IInv' /\ Keeps /\ (pc' = "panic" => freelist' = <<>>) /\ pc' # "ready" /\ pc = "start"
<1>1. pc = "start" /\ root = 0 /\ satp = 0 /\ held' = held /\ satp' = satp /\ mem \in Memory
      /\ Pool(freelist, held, {})
  BY DEF Kvminit, IInv, Progress, Paging, Trees
<1>2. CASE freelist = <<>>
  <2>1. pc' = "panic" /\ mem' = mem /\ freelist' = freelist /\ root' = root /\ job' = job
    BY <1>2 DEF Kvminit
  <2>2. Trees' /\ Progress' /\ Paging' /\ JobOK'
    BY <1>1, <2>1 DEF IInv, Trees, Progress, Paging, JobOK
  <2>3. Keeps
    BY <2>1, SameMemory
  <2> QED  BY <1>1, <1>2, <2>1, <2>2, <2>3 DEF IInv
<1>3. CASE freelist # <<>>
  <2> DEFINE n == Head(freelist)
  <2>1. /\ root' = n /\ freelist' = Tail(freelist) /\ mem' = [mem EXCEPT ![n] = ZeroTable]
        /\ job' = Job(KERNBASE, PHYSTOP - KERNBASE, RWX) /\ pc' = "kernel"
    BY <1>3 DEF Kvminit
  <2>2. n \in Page /\ n # 0 /\ Pool(Tail(freelist), held, {} \cup {n})
    BY <1>1, <1>3, PoolTake, PageFacts
  <2>3. {} \cup {n} = {n} \cup {} \cup {}
    OBVIOUS
  <2> HIDE DEF n
  <2>4. mem' \in Memory /\ mem'[n] = ZeroTable
    BY <1>1, <2>1, <2>2, ZeroFact DEF Memory
  <2>5. \A i \in Idx : ~mem'[n][i].valid /\ mem'[n][i].perm = {}
    BY <2>4, ZeroFact, NoPteFact
  <2>6. Tree(mem', n, {}, {})
    BY <2>2, <2>5 DEF Tree
  <2>7. Sound(mem', freelist', held', root', {}, {})
    BY <1>1, <2>1, <2>2, <2>3, <2>4, <2>6 DEF Sound
  <2>8. Trees'
    BY <2>1, <2>2, <2>4, <2>7 DEF Trees
  <2>9. \A v \in VPage : Meaning(mem, root, v)' = NoPte
    <3> SUFFICES ASSUME NEW v \in VPage
                 PROVE  Meaning(mem', root', v) = NoPte
      OBVIOUS
    <3>1. Px(2, v) \in Idx
      BY PxInIdx
    <3> QED  BY <2>1, <2>2, <2>5, <3>1 DEF Meaning, Look
  <2>10. Keeps
    BY <1>1, <2>9 DEF Keeps, Meaning
  <2>11. /\ job' = [a |-> KERNBASE, last |-> PHYSTOP - PGSIZE, pa |-> KERNBASE, perm |-> RWX]
         /\ PHYSTOP - PGSIZE \in Nat
    <3>1. KERNBASE + (PHYSTOP - KERNBASE) - PGSIZE = PHYSTOP - PGSIZE
      BY ConstantFacts
    <3> QED  BY <2>1, <3>1, RamFacts DEF Job
  <2>12. JobOK'
    BY <2>11, ConstantFacts DEF JobOK, RWX
  <2>13. Maps(PagesOf(KERNBASE, KERNBASE))' /\ MapsOnly(PagesOf(KERNBASE, KERNBASE))'
    BY <2>9, NoPteFact, RamFacts DEF Maps, MapsOnly
  <2>14. Progress'
    <3>1. /\ job'.a = KERNBASE /\ job'.pa = KERNBASE /\ job'.last = PHYSTOP - PGSIZE /\ job'.perm = RWX
      BY <2>11
    <3> QED  BY <2>1, <2>13, <3>1, RamFacts DEF Progress
  <2>15. Paging'
    BY <1>1 DEF Paging
  <2> QED  BY <1>1, <2>1, <2>8, <2>10, <2>12, <2>14, <2>15 DEF IInv
<1> QED  BY <1>2, <1>3

LEMMA KvminithartInv ==
  ASSUME IInv, Kvminithart
  PROVE  IInv' /\ Keeps
<1>1. /\ pc = "ready" /\ satp' = root /\ mem' = mem /\ freelist' = freelist /\ held' = held
      /\ root' = root /\ pc' = pc /\ job' = job
  BY DEF Kvminithart
<1>2. Trees' /\ Progress' /\ JobOK'
  BY <1>1 DEF IInv, Trees, Progress, JobOK, Maps, MapsOnly, Meaning
<1>3. Maps(Ram \cup {UART0})
  BY <1>1 DEF IInv, Progress
<1>4. Paging'
  BY <1>1, <1>3 DEF Paging, Maps, Meaning
<1>5. Keeps
  BY <1>1, SameMemory
<1> QED  BY <1>2, <1>4, <1>5 DEF IInv

LEMMA MapPageInv ==
  ASSUME IInv, NEW va \in CallVA, NEW pa \in CallPA, MapPage(va, pa, RW)
  PROVE  /\ IInv'
         /\ Keeps \/ (Aligned(pa) /\ Adds(va, pa, RW))
         /\ pc = "ready"
<1>1. /\ pc = "ready" /\ held' = held /\ root' = root /\ satp' = satp /\ job' = job
      /\ pc' \in {"ready", "panic"}
      /\ \E ret \in {"ok", "fail", "panic"} : Mappage(va, pa, RW, ret)
  BY DEF MapPage
<1>2. va \in Nat /\ pa \in Nat /\ RW \in SUBSET RWX /\ RW # {} /\ root # 0
  BY <1>1, PageTableAssumption DEF RW, RWX, IInv, Trees
<1>3. PICK ret \in {"ok", "fail", "panic"} : Mappage(va, pa, RW, ret)
  BY <1>1
<1>4. Trees' /\ (Keeps \/ (Aligned(pa) /\ Adds(va, pa, RW)))
  BY <1>1, <1>2, <1>3, MappageStep DEF IInv
<1>5. Maps(Ram \cup {UART0}) => Maps(Ram \cup {UART0})'
  BY <1>4, KeepsMaps, AddsMaps, RamFacts
<1>6. Progress' /\ Paging' /\ JobOK'
  BY <1>1, <1>5 DEF IInv, Progress, Paging, JobOK
<1> QED  BY <1>1, <1>4, <1>6 DEF IInv

\* One round of kvmmap: the next page is mapped, until the last one is.
LEMMA KvmmapInv ==
  ASSUME IInv, Kvmmap
  PROVE  /\ IInv'
         /\ Keeps \/ \E va \in VPage, perm \in {RW, RWX} : Adds(va, va, perm)
         /\ pc = "uart" /\ pc' = "ready" =>
              Maps(Ram \cup {UART0})' /\ MapsOnly(Ram \cup {UART0})'
         /\ pc' = "panic" => freelist' = <<>>
         /\ pc \in {"kernel", "uart"}
<1>0. PICK va, perm : va = job.a /\ perm = job.perm
  OBVIOUS
<1>1. /\ pc \in {"kernel", "uart"} /\ held' = held /\ root' = root /\ satp' = satp /\ root # 0
  BY DEF Kvmmap, IInv, Trees
<1>2. /\ va \in VPage /\ job.pa = va /\ perm \in {RW, RWX}
      /\ Pte(va, perm) = Identity(va)
      /\ ~Meaning(mem, root, va).valid
  <2>1. CASE pc = "kernel"
    <3>1. va \in Ram /\ job.pa = va /\ perm = RWX /\ MapsOnly(PagesOf(KERNBASE, va))
      BY <1>0, <2>1 DEF IInv, Progress
    <3>2. va \in VPage /\ va \in Nat
      BY <3>1, RamFacts
    <3>3. va \notin PagesOf(KERNBASE, va)
      BY <3>2, ConstantFacts DEF PagesOf
    <3> QED  BY <3>1, <3>2, <3>3, RamFacts DEF MapsOnly
  <2>2. CASE pc = "uart"
    <3>1. va = UART0 /\ job.pa = UART0 /\ perm = RW /\ MapsOnly(Ram)
      BY <1>0, <2>2 DEF IInv, Progress, Job
    <3> QED  BY <3>1, RamFacts DEF MapsOnly
  <2> QED  BY <1>1, <2>1, <2>2
<1>3. /\ va \in Nat /\ Aligned(va) /\ va < MAXVA /\ ~(va >= MAXVA)
      /\ perm \in SUBSET RWX /\ perm # {}
  BY <1>2, RamFacts, ConstantFacts DEF RW, RWX
<1>4. ASSUME NEW ret, Mappage(job.a, job.pa, job.perm, ret)
      PROVE  /\ ret \in {"ok", "fail", "panic"} /\ Trees'
             /\ ret = "ok" => Adds(va, va, perm)
             /\ ret # "ok" => Keeps
             /\ ret = "fail" => freelist' = <<>>
             /\ ret # "panic"
  <2>1. Mappage(va, va, perm, ret) /\ Trees
    BY <1>0, <1>2, <1>4 DEF IInv
  <2>2. /\ ret \in {"ok", "fail", "panic"} /\ Trees'
        /\ ret = "ok" => Adds(va, va, perm)
        /\ ret # "ok" => Keeps
        /\ ret = "fail" => freelist' = <<>>
        /\ ret = "panic" =>
              \/ ~Aligned(va) \/ ~Aligned(va) \/ va >= MAXVA
              \/ Meaning(mem, root, va).valid
    <3> USE <1>1, <1>3, <2>1
    <3>1. va \in Nat /\ perm \in SUBSET RWX /\ perm # {} /\ root # 0 /\ held' = held /\ root' = root
      OBVIOUS
    <3> QED  BY <3>1, MappageStep
  <2> QED  BY <1>2, <1>3, <2>2
<1>5. CASE Mappage(job.a, job.pa, job.perm, "ok")
           /\ (IF job.a # job.last
                 THEN job' = [job EXCEPT !.a = @ + PGSIZE, !.pa = @ + PGSIZE] /\ UNCHANGED pc
                 ELSE IF pc = "kernel" THEN pc' = "uart" /\ job' = Job(UART0, PGSIZE, RW)
                 ELSE pc' = "ready" /\ UNCHANGED job)
  <2>1. Trees' /\ Adds(va, va, perm)
    BY <1>4, <1>5
  <2>2. satp = 0 \/ Maps(Ram \cup {UART0})
    BY DEF IInv, Paging
  <2>3. Ram \cup {UART0} \subseteq VPage
    BY RamFacts
  <2>4. Paging'
    BY <1>1, <2>1, <2>2, <2>3, AddsMaps DEF IInv, Paging
  <2>5. CASE pc = "kernel" /\ job.a # job.last
    <3> DEFINE S == PagesOf(KERNBASE, va)
    <3>1. va \in Ram /\ job.pa = va /\ job.last = PHYSTOP - PGSIZE /\ perm = RWX
          /\ Maps(S) /\ MapsOnly(S) /\ va # PHYSTOP - PGSIZE
      BY <1>0, <2>5 DEF IInv, Progress
    <3>2. /\ va \in Nat /\ va + PGSIZE \in Nat /\ Aligned(va + PGSIZE) /\ va + PGSIZE <= PHYSTOP
          /\ PagesOf(KERNBASE, va + PGSIZE) = S \cup {va}
      BY <3>1, PageAfter, ConstantFacts DEF Ram
    <3>3. va + PGSIZE \in Ram
      <4>1. va >= KERNBASE /\ va + PGSIZE # PHYSTOP
        BY <3>1, <3>2, ConstantFacts DEF Ram, PagesOf
      <4> QED  BY <3>2, <4>1, ConstantFacts DEF Ram, PagesOf
    <3>4. S \subseteq VPage
      BY <3>1, ConstantFacts DEF Ram, PagesOf, VPage
    <3> HIDE DEF S
    <3>5. Maps(S \cup {va})' /\ MapsOnly(S \cup {va})'
      BY <1>2, <2>1, <3>1, <3>4, AddsMaps
    <3>6. job' = [job EXCEPT !.a = va + PGSIZE, !.pa = va + PGSIZE] /\ pc' = pc
      BY <1>0, <1>5, <1>2, <2>5
    <3>7. /\ job'.a = va + PGSIZE /\ job'.pa = va + PGSIZE /\ job'.last = PHYSTOP - PGSIZE /\ job'.perm = RWX
          /\ job' \in [a : Nat, last : Int, pa : Nat, perm : SUBSET RWX]
      BY <1>0, <3>1, <3>2, <3>6 DEF IInv, JobOK
    <3>8. JobOK'
      BY <3>2, <3>7 DEF JobOK
    <3>9. Progress'
      BY <1>0, <2>5, <3>1, <3>2, <3>3, <3>5, <3>6, <3>7 DEF Progress
    <3> QED  BY <1>1, <1>2, <2>1, <2>4, <2>5, <3>6, <3>8, <3>9 DEF IInv
  <2>6. CASE pc = "kernel" /\ job.a = job.last
    <3> DEFINE S == PagesOf(KERNBASE, va)
    <3>1. va \in Ram /\ va = PHYSTOP - PGSIZE /\ perm = RWX /\ Maps(S) /\ MapsOnly(S)
      BY <1>0, <2>6 DEF IInv, Progress
    <3>2. va + PGSIZE = PHYSTOP /\ va \in Nat
      BY <3>1, ConstantFacts, RamFacts
    <3>3. Ram = S \cup {va}
      BY <3>1, <3>2, PageAfter, ConstantFacts DEF Ram
    <3>4. S \subseteq VPage
      BY <3>1, <3>3, RamFacts
    <3> HIDE DEF S
    <3>5. Maps(Ram)' /\ MapsOnly(Ram)'
      BY <1>2, <2>1, <3>1, <3>3, <3>4, AddsMaps
    <3>6. job' = Job(UART0, PGSIZE, RW) /\ pc' = "uart"
      BY <1>5, <2>6
    <3>7. JobOK'
      <4>1. job' = [a |-> UART0, last |-> UART0 + PGSIZE - PGSIZE, pa |-> UART0, perm |-> RW]
        BY <3>6 DEF Job
      <4> QED  BY <4>1, ConstantFacts DEF JobOK, RW, RWX
    <3>8. Progress'
      BY <3>5, <3>6 DEF Progress
    <3> QED  BY <1>1, <1>2, <2>1, <2>4, <2>6, <3>6, <3>7, <3>8 DEF IInv
  <2>7. CASE pc = "uart"
    <3>1. job = Job(UART0, PGSIZE, RW) /\ Maps(Ram) /\ MapsOnly(Ram)
      BY <2>7 DEF IInv, Progress
    <3>2. va = UART0 /\ job.a = UART0 /\ job.last = UART0 + PGSIZE - PGSIZE
      BY <1>0, <3>1 DEF Job
    <3>3. job.a = job.last
      BY <3>2, ConstantFacts
    <3>4. pc' = "ready" /\ job' = job
      BY <1>5, <2>7, <3>3
    <3>5. Maps(Ram \cup {UART0})' /\ MapsOnly(Ram \cup {UART0})'
      BY <1>2, <2>1, <3>1, <3>2, RamFacts, AddsMaps
    <3>6. Progress' /\ JobOK'
      BY <3>4, <3>5 DEF IInv, Progress, JobOK
    <3> QED  BY <1>1, <1>2, <2>1, <2>4, <3>4, <3>5, <3>6 DEF IInv
  <2> QED  BY <1>1, <2>5, <2>6, <2>7
<1>6. CASE (\E ret \in {"fail", "panic"} : Mappage(job.a, job.pa, job.perm, ret))
           /\ pc' = "panic" /\ UNCHANGED job
  <2>1. Trees' /\ Keeps /\ freelist' = <<>>
    BY <1>4, <1>6
  <2>2. Ram \cup {UART0} \subseteq VPage
    BY RamFacts
  <2>3. Progress' /\ Paging' /\ JobOK'
    BY <1>1, <1>6, <2>1, <2>2, KeepsMaps DEF IInv, Progress, Paging, JobOK
  <2> QED  BY <1>1, <1>6, <2>1, <2>3 DEF IInv
<1> QED  BY <1>5, <1>6 DEF Kvmmap
Busy == pc \in {"kernel", "uart"}

\* What a step does: the invariant for the theorems below.
LEMMA StepDoes ==
  ASSUME IInv, [Next]_vars
  PROVE  /\ IInv'
         /\ \/ Keeps
            \/ \E va \in VPage, pa \in VPage \cup CallPA, perm \in {RW, RWX} : Adds(va, pa, perm)
         /\ pc = "uart" /\ pc' = "ready" =>
              Maps(Ram \cup {UART0})' /\ MapsOnly(Ram \cup {UART0})'
         /\ pc # "ready" /\ pc' = "panic" => freelist' = <<>> \/ UNCHANGED vars
<1>1. CASE AllocPage
  <2>1. pc' = pc /\ pc \in {"start", "ready"}
    BY <1>1 DEF AllocPage
  <2> QED  BY <1>1, <2>1, AllocPageInv
<1>2. ASSUME NEW p \in held, FreePage(p)
      PROVE  IInv' /\ Keeps /\ pc' = pc /\ pc \in {"start", "ready"}
  <2>1. pc' = pc /\ pc \in {"start", "ready"}
    BY <1>2 DEF FreePage
  <2> QED  BY <1>2, <2>1, FreePageInv
<1>3. CASE Kvminit
  BY <1>3, KvminitInv
<1>4. CASE Kvmmap
  <2>1. \A va \in VPage : va \in VPage \cup CallPA
    OBVIOUS
  <2> QED  BY <1>4, <2>1, KvmmapInv
<1>5. CASE Kvminithart
  <2>1. pc' = pc /\ pc = "ready"
    BY <1>5 DEF Kvminithart
  <2> QED  BY <1>5, <2>1, KvminithartInv
<1>6. ASSUME NEW va \in CallVA, NEW pa \in CallPA, MapPage(va, pa, RW)
      PROVE  /\ IInv' /\ pc = "ready"
             /\ Keeps \/ \E v \in VPage, p \in VPage \cup CallPA, perm \in {RW, RWX} : Adds(v, p, perm)
  <2>1. IInv' /\ pc = "ready" /\ (Keeps \/ Adds(va, pa, RW))
    BY <1>6, MapPageInv
  <2>2. Adds(va, pa, RW) => va \in VPage
    BY DEF Adds
  <2> QED  BY <2>1, <2>2
<1>7. CASE UNCHANGED vars
  <2>1. /\ mem' = mem /\ freelist' = freelist /\ held' = held /\ root' = root
        /\ satp' = satp /\ pc' = pc /\ job' = job
    BY <1>7 DEF vars
  <2>2. IInv'
    BY <2>1 DEF IInv, JobOK, Trees, Progress, Paging, Maps, MapsOnly, Meaning
  <2>3. Keeps
    BY <2>1, SameMemory
  <2> QED  BY <1>7, <2>1, <2>2, <2>3
<1>8. CASE Panicked
  BY <1>7, <1>8 DEF Panicked
<1> QED  BY <1>1, <1>2, <1>3, <1>4, <1>5, <1>6, <1>7, <1>8 DEF Next

LEMMA Invariance == Spec => []IInv
<1>1. Init => IInv
  BY InitInv
<1>2. IInv /\ [Next]_vars => IInv'
  BY StepDoes
<1> QED  BY <1>1, <1>2, PTL DEF Spec

-----------------------------------------------------------------------------
(* The theorems.                                                           *)

LEMMA LevelsAre ==
  ASSUME NEW A, NEW B, Tree(mem, root, A, B)
  PROVE  /\ root # 0 /\ Level2 = {root} /\ Level1 = A /\ Level0 = B
<1>1. root # 0 /\ Level2 = {root}
  BY PageFacts DEF Tree, Level2
<1>2. Level1 = A
  <2>1. ASSUME NEW x \in Below({root})
        PROVE  x \in A
    BY DEF Below, Entries, Tree
  <2>2. ASSUME NEW x \in A
        PROVE  x \in Below({root})
    <3>1. PICK i \in Idx : mem[root][i].valid /\ mem[root][i].pa = x
      BY DEF Tree
    <3>2. <<root, i>> \in Entries({root})
      BY <3>1 DEF Entries
    <3> QED  BY <3>1, <3>2 DEF Below
  <2> QED  BY <1>1, <2>1, <2>2 DEF Level1
<1>3. Level0 = B
  <2>1. ASSUME NEW x \in Below(A)
        PROVE  x \in B
    BY DEF Below, Entries, Tree
  <2>2. ASSUME NEW x \in B
        PROVE  x \in Below(A)
    <3>1. PICK t \in A, i \in Idx : mem[t][i].valid /\ mem[t][i].pa = x
      BY DEF Tree
    <3>2. <<t, i>> \in Entries(A)
      BY <3>1 DEF Entries
    <3> QED  BY <3>1, <3>2 DEF Below
  <2> QED  BY <1>2, <2>1, <2>2 DEF Level0
<1> QED  BY <1>1, <1>2, <1>3

LEMMA TreesAreSound ==
  ASSUME IInv
  PROVE  TreeSound
<1>1. TypeOK
  <2>1. \A p \in Page, i \in Idx : mem[p][i] \in PteSet
    BY DEF IInv, Trees, Memory
  <2>2. \A p \in Page, i \in Idx :
          /\ mem[p][i].valid \in BOOLEAN
          /\ Aligned(mem[p][i].pa)
          /\ mem[p][i].perm \subseteq RWX
    BY <2>1 DEF PteSet
  <2>3. freelist \in Seq(Page) /\ held \subseteq Page /\ root \in Page \cup {0}
    BY DEF IInv, Trees, Sound, Tree, Pool
  <2> QED  BY <2>2, <2>3 DEF TypeOK, IInv, Paging, Progress, JobOK
<1>2. CASE root = 0
  <2>1. Level2 = {} /\ Level1 = {} /\ Level0 = {}
    BY <1>2 DEF Level2, Level1, Level0, Below, Entries
  <2>2. Pool(freelist, held, {})
    BY <1>2 DEF IInv, Trees
  <2>3. Tables = {} /\ Entries(Level2 \cup Level1) = {}
    BY <2>1 DEF Tables, Entries
  <2>4. FreePages \subseteq Page
    BY <2>2 DEF FreePages, Pool
  <2>5. PagesAccounted
    <3>1. FreePages \cap held = {} /\ FreePages \cup held = Page
      BY <2>2, <2>4 DEF FreePages, Pool
    <3>2. \A m, n \in 1..Len(freelist) : freelist[m] = freelist[n] => m = n
      BY <2>2 DEF Pool
    <3> QED  BY <2>3, <3>1, <3>2 DEF PagesAccounted
  <2>6. LevelsDiffer
    BY <2>1 DEF LevelsDiffer
  <2> QED  BY <1>1, <2>5, <2>6 DEF TreeSound
<1>3. CASE root # 0
  <2>1. PICK A, B : Sound(mem, freelist, held, root, A, B)
    BY <1>3 DEF IInv, Trees
  <2> DEFINE T == {root} \cup A \cup B
  <2>2. Tree(mem, root, A, B) /\ Pool(freelist, held, T)
    BY <2>1 DEF Sound
  <2>3. Level2 = {root} /\ Level1 = A /\ Level0 = B /\ Tables = T
    BY <2>2, LevelsAre DEF Tables
  <2> HIDE DEF T
  <2>4. FreePages \subseteq Page
    BY <2>2 DEF FreePages, Pool
  <2>5. /\ \A m, n \in 1..Len(freelist) : freelist[m] = freelist[n] => m = n
        /\ FreePages \cap held = {} /\ FreePages \cap Tables = {} /\ held \cap Tables = {}
        /\ FreePages \cup held \cup Tables = Page
    BY <2>2, <2>3, <2>4 DEF FreePages, Pool
  <2>6. \A m, n \in Entries({root} \cup A) :
          mem[m[1]][m[2]].pa = mem[n[1]][n[2]].pa => m = n
    <3> SUFFICES ASSUME NEW t \in {root} \cup A, NEW i \in Idx, mem[t][i].valid,
                        NEW u \in {root} \cup A, NEW j \in Idx, mem[u][j].valid,
                        mem[t][i].pa = mem[u][j].pa
                 PROVE  t = u /\ i = j
      BY DEF Entries
    <3>1. CASE t = root /\ u = root
      BY <2>2, <3>1 DEF Tree
    <3>2. CASE t \in A /\ u \in A
      BY <2>2, <3>2 DEF Tree
    <3>3. CASE t = root /\ u \in A
      BY <2>2, <3>3 DEF Tree
    <3>4. CASE t \in A /\ u = root
      BY <2>2, <3>4 DEF Tree
    <3> QED  BY <3>1, <3>2, <3>3, <3>4
  <2>7. PagesAccounted
    BY <2>3, <2>5, <2>6 DEF PagesAccounted
  <2>8. LevelsDiffer
    BY <2>2, <2>3 DEF LevelsDiffer, Tree
  <2> QED  BY <1>1, <2>7, <2>8 DEF TreeSound
<1> QED  BY <1>2, <1>3

\* TreeSound: for every page size, fan-out and amount of memory each page the
\* allocator manages is free, in other use or at one place of the tree, however
\* allocations run out inside walk and whatever other code leaves in its pages.
THEOREM TablesAreATree == Spec => []TreeSound
<1>1. IInv => TreeSound
  BY TreesAreSound
<1> QED  BY <1>1, Invariance, PTL

LEMMA SpaceIs ==
  /\ DOMAIN Space = {v \in VPage : Meaning(mem, root, v).valid}
  /\ \A v \in DOMAIN Space :
       Space[v] = [pa |-> Meaning(mem, root, v).pa, perm |-> Meaning(mem, root, v).perm]
BY MeaningIs DEF Space

LEMMA KernelMapIs ==
  /\ DOMAIN KernelMap = Ram \cup {UART0}
  /\ \A v \in Ram \cup {UART0} :
       KernelMap[v] = [pa |-> Identity(v).pa, perm |-> Identity(v).perm]
BY DEF KernelMap, Ram, Identity, Pte

LEMMA MapsSpace ==
  ASSUME Maps(Ram \cup {UART0})
  PROVE  \A va \in DOMAIN KernelMap : va \in DOMAIN Space /\ Space[va] = KernelMap[va]
<1> SUFFICES ASSUME NEW va \in Ram \cup {UART0}
             PROVE  va \in DOMAIN Space /\ Space[va] = KernelMap[va]
  BY KernelMapIs
<1>1. va \in VPage /\ Identity(va).valid /\ Meaning(mem, root, va) = Identity(va)
  BY RamFacts DEF Maps
<1> QED  BY <1>1, SpaceIs, KernelMapIs

\* KernelMapped: from the end of kvminit on, and as long as paging is on, memory
\* and UART are mapped to themselves, whatever map_page does.
THEOREM KernelStaysMapped == Spec => []KernelMapped
<1>1. IInv => KernelMapped
  BY MapsSpace DEF IInv, Progress, Paging, KernelMapped
<1> QED  BY <1>1, Invariance, PTL

LEMMA MapsSpaceOnly ==
  ASSUME Maps(Ram \cup {UART0}), MapsOnly(Ram \cup {UART0})
  PROVE  Space = KernelMap
<1>1. DOMAIN Space = Ram \cup {UART0}
  <2>1. \A v \in Ram \cup {UART0} : v \in VPage /\ Meaning(mem, root, v).valid
    BY RamFacts DEF Maps
  <2> QED  BY <2>1, SpaceIs DEF MapsOnly
<1>2. \A v \in Ram \cup {UART0} : Space[v] = KernelMap[v]
  BY MapsSpace, KernelMapIs
<1>3. DOMAIN Space = DOMAIN KernelMap
  BY <1>1, KernelMapIs
<1>4. Space = [v \in DOMAIN Space |-> Space[v]] /\ KernelMap = [v \in DOMAIN KernelMap |-> KernelMap[v]]
  BY DEF Space, KernelMap
<1> QED  BY <1>1, <1>2, <1>3, <1>4

\* KvminitExact: kvminit maps memory and UART and nothing else, and panics for
\* want of a page only: never because its loops come to a mapped page.
THEOREM KvminitMapsExactly == Spec => KvminitExact
<1>1. IInv /\ [Next]_vars =>
        [/\ pc = "uart" /\ pc' = "ready" => Space' = KernelMap
         /\ pc # "ready" /\ pc' = "panic" => freelist' = <<>>]_vars
  <2> SUFFICES ASSUME IInv, [Next]_vars, ~UNCHANGED vars
               PROVE  /\ pc = "uart" /\ pc' = "ready" => Space' = KernelMap
                      /\ pc # "ready" /\ pc' = "panic" => freelist' = <<>>
    OBVIOUS
  <2>1. /\ pc = "uart" /\ pc' = "ready" =>
              Maps(Ram \cup {UART0})' /\ MapsOnly(Ram \cup {UART0})'
        /\ pc # "ready" /\ pc' = "panic" => freelist' = <<>>
    BY StepDoes
  <2>2. (Maps(Ram \cup {UART0}) /\ MapsOnly(Ram \cup {UART0}) => Space = KernelMap)'
    BY MapsSpaceOnly, PTL
  <2>3. KernelMap' = KernelMap
    BY DEF KernelMap, PagesOf, Aligned, RW, RWX
  <2> QED  BY <2>1, <2>2, <2>3
<1> QED  BY <1>1, Invariance, PTL DEF KvminitExact, Spec
\* ImplementsAddressSpace: a step of the tree is invisible in the address space,
\* or it maps one page that was not mapped.
THEOREM TablesImplementAddressSpace == Spec => ImplementsAddressSpace
<1>1. Init => AS!ASInit
  <2> SUFFICES ASSUME Init
               PROVE  AS!ASInit
    OBVIOUS
  <2>1. \A v \in VPage : ~Meaning(mem, root, v).valid
    BY NoPteFact DEF Init, Meaning
  <2>2. DOMAIN Space = {}
    BY <2>1, SpaceIs
  <2>3. Space = [v \in DOMAIN Space |-> Space[v]]
    BY DEF Space
  <2>4. Space = [v \in {} |-> 0]
    BY <2>2, <2>3
  <2> QED  BY <2>4 DEF AS!ASInit
<1>2. IInv /\ [Next]_vars => [AS!ASNext]_Space
  <2> SUFFICES ASSUME IInv, [Next]_vars
               PROVE  AS!ASNext \/ Space' = Space
    OBVIOUS
  <2>1. /\ DOMAIN Space' = {v \in VPage : Meaning(mem, root, v)'.valid}
        /\ \A v \in DOMAIN Space' :
             Space'[v] = [pa |-> Meaning(mem, root, v)'.pa, perm |-> Meaning(mem, root, v)'.perm]
    <3>1. (/\ DOMAIN Space = {v \in VPage : Meaning(mem, root, v).valid}
           /\ \A v \in DOMAIN Space :
                Space[v] = [pa |-> Meaning(mem, root, v).pa, perm |-> Meaning(mem, root, v).perm])'
      BY SpaceIs, PTL
    <3>2. VPage' = VPage
      BY DEF VPage
    <3> QED  BY <3>1, <3>2
  <2>2. CASE Keeps
    <3>1. DOMAIN Space' = DOMAIN Space
      BY <2>1, <2>2, SpaceIs DEF Keeps
    <3>2. \A v \in DOMAIN Space : Space'[v] = Space[v]
      BY <2>1, <2>2, <3>1, SpaceIs DEF Keeps
    <3>3. Space = [v \in DOMAIN Space |-> Space[v]] /\ Space' = [v \in DOMAIN Space' |-> Space'[v]]
      BY DEF Space
    <3> QED  BY <3>1, <3>2, <3>3
  <2>3. ASSUME NEW va \in VPage, NEW pa \in VPage \cup CallPA, NEW perm \in {RW, RWX},
               Adds(va, pa, perm)
        PROVE  AS!ASNext
    <3>1. va \in VPage \ DOMAIN Space
      BY <2>3, SpaceIs DEF Adds
    <3>2. Meaning(mem, root, va)' = Pte(pa, perm)
      BY <2>3 DEF Adds
    <3>3. DOMAIN Space' = DOMAIN Space \cup {va}
      BY <2>1, <2>3, <3>2, SpaceIs DEF Adds, Pte
    <3>4. Space'[va] = [pa |-> pa, perm |-> perm]
      <4>1. va \in DOMAIN Space'
        BY <3>3
      <4>2. Space'[va] = [pa |-> Meaning(mem, root, va)'.pa, perm |-> Meaning(mem, root, va)'.perm]
        BY <2>1, <4>1
      <4>3. Meaning(mem, root, va)'.pa = pa /\ Meaning(mem, root, va)'.perm = perm
        BY <3>2 DEF Pte
      <4> QED  BY <4>2, <4>3
    <3>5. \A v \in DOMAIN Space : Space'[v] = Space[v]
      BY <2>1, <2>3, <3>1, <3>3, SpaceIs DEF Adds
    <3>6. AS!Map(va)
      BY <3>3, <3>4, <3>5 DEF AS!Map, AS!Mapping
    <3> QED  BY <3>1, <3>6 DEF AS!ASNext
  <2> QED  BY <2>2, <2>3, StepDoes
<1> QED  BY <1>1, <1>2, Invariance, PTL DEF Spec, ImplementsAddressSpace, AS!ASSpec
=============================================================================
