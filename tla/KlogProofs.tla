----------------------------- MODULE KlogProofs -----------------------------
(***************************************************************************)
(* Proofs about Klog for every ring size: the inductive invariant IInv and *)
(* what klog_dump prints.                                                  *)
(***************************************************************************)
EXTENDS Klog, TLAPS

\* The modulo of klog.c is never of more than one turn of the ring.
LEMMA RingModulo ==
  ASSUME NEW x \in 0..(2 * KLOG_NENTRY - 1)
  PROVE  x % KLOG_NENTRY = IF x < KLOG_NENTRY THEN x ELSE x - KLOG_NENTRY
BY KlogAssumption, SMTT(30)

\* What is k - 1 slots behind head is k behind the next head.
LEMMA OneFurther ==
  ASSUME NEW head \in 0..(KLOG_NENTRY - 1), NEW k \in 2..KLOG_NENTRY,
         NEW next, next = IF head + 1 < KLOG_NENTRY THEN head + 1 ELSE 0
  PROVE  (IF k <= next THEN next - k ELSE next + KLOG_NENTRY - k)
           = (IF k - 1 <= head THEN head - (k - 1) ELSE head + KLOG_NENTRY - (k - 1))
<1>1. KLOG_NENTRY \in Nat \ {0}
  BY KlogAssumption
<1>2. CASE head + 1 < KLOG_NENTRY
  BY <1>1, <1>2
<1>3. CASE head + 1 = KLOG_NENTRY
  BY <1>1, <1>3
<1>4. QED
  BY <1>1, <1>2, <1>3

\* The slot just behind the head after a write is the one the write filled.
LEMMA JustBehind ==
  ASSUME NEW head \in 0..(KLOG_NENTRY - 1),
         NEW next, next = IF head + 1 < KLOG_NENTRY THEN head + 1 ELSE 0
  PROVE  (IF 1 <= next THEN next - 1 ELSE next + KLOG_NENTRY - 1) = head
<1>1. KLOG_NENTRY \in Nat \ {0}
  BY KlogAssumption
<1>2. CASE head + 1 < KLOG_NENTRY
  BY <1>1, <1>2
<1>3. CASE head + 1 = KLOG_NENTRY
  BY <1>1, <1>3
<1>4. QED
  BY <1>1, <1>2, <1>3

\* The i-th slot of a walk over the last `lines' records that starts `lines'
\* slots behind head.
LEMMA Walk ==
  ASSUME NEW head \in 0..(KLOG_NENTRY - 1), NEW lines \in 0..KLOG_NENTRY,
         NEW i \in 1..lines,
         NEW tail, tail = (head + KLOG_NENTRY - lines) % KLOG_NENTRY
  PROVE  (tail + (i - 1)) % KLOG_NENTRY
           = IF lines - i + 1 <= head THEN head - (lines - i + 1)
                                      ELSE head + KLOG_NENTRY - (lines - i + 1)
<1>1. KLOG_NENTRY \in Nat \ {0} /\ lines > 0
  BY KlogAssumption
<1>2. head + KLOG_NENTRY - lines \in 0..(2 * KLOG_NENTRY - 1)
  BY <1>1
<1>3. CASE head + KLOG_NENTRY - lines < KLOG_NENTRY
  <2>1. tail = head + KLOG_NENTRY - lines
    BY <1>2, <1>3, RingModulo
  <2>2. tail + (i - 1) \in 0..(2 * KLOG_NENTRY - 1)
    BY <1>1, <1>3, <2>1
  <2>3. (tail + (i - 1)) % KLOG_NENTRY
          = IF tail + (i - 1) < KLOG_NENTRY THEN tail + (i - 1)
                                            ELSE (tail + (i - 1)) - KLOG_NENTRY
    BY <2>2, RingModulo, Zenon
  <2>4. CASE tail + (i - 1) < KLOG_NENTRY
    <3>1. (tail + (i - 1)) % KLOG_NENTRY = tail + (i - 1)
      BY <2>3, <2>4, Zenon
    <3>2. tail + (i - 1) = head + KLOG_NENTRY - (lines - i + 1) /\ ~(lines - i + 1 <= head)
      <4>1. (head + KLOG_NENTRY - lines) + (i - 1) < KLOG_NENTRY
        BY <2>1, <2>4, Zenon
      <4>2. (head + KLOG_NENTRY - lines) + (i - 1)
              = head + KLOG_NENTRY - (lines - i + 1)
        BY <1>1
      <4>3. ~(lines - i + 1 <= head)
        BY <1>1, <4>1
      <4>4. QED
        BY <2>1, <4>2, <4>3, Zenon
    <3>3. QED
      BY <3>1, <3>2, Zenon
  <2>5. CASE tail + (i - 1) >= KLOG_NENTRY
    BY <1>1, <1>3, <2>1, <2>3, <2>5
  <2>6. QED
    BY <1>1, <1>3, <2>1, <2>4, <2>5
<1>4. CASE head + KLOG_NENTRY - lines >= KLOG_NENTRY
  <2>1. tail = head - lines
    <3>1. tail = head + KLOG_NENTRY - lines - KLOG_NENTRY
      BY <1>1, <1>2, <1>4, RingModulo
    <3>2. QED
      BY <1>1, <3>1
  <2>2. tail + (i - 1) \in 0..(2 * KLOG_NENTRY - 1) /\ tail + (i - 1) < KLOG_NENTRY
    BY <1>1, <1>4, <2>1
  <2>3. (tail + (i - 1)) % KLOG_NENTRY = tail + (i - 1)
    BY <2>2, RingModulo
  <2>4. QED
    BY <1>1, <1>4, <2>1, <2>3
<1>5. QED
  BY <1>1, <1>2, <1>3, <1>4

\* The values `ks' takes in the type invariant.
KsType ==
  [inited: BOOLEAN, level_threshold: DEBUG..FATAL, console_on: BOOLEAN,
   ring: [Slot -> Entry], head: Slot, count: 0..KLOG_NENTRY,
   total_written: Nat, overwritten: Nat, filtered: Nat]

\* The static state at boot and the one klog_init makes have the type.
LEMMA ZeroedType == Zeroed \in KsType /\ Fresh \in KsType
<1>1. Blank \in Entry
  BY DEF Blank, Entry
<1>2. [k \in Slot |-> Blank] \in [Slot -> Entry]
  BY <1>1
<1>3. 0 \in Slot /\ 0 \in 0..KLOG_NENTRY /\ 0 \in DEBUG..FATAL
  BY KlogAssumption DEF Slot, DEBUG, FATAL
<1>4. Zeroed \in KsType
  BY <1>2, <1>3 DEF Zeroed, KsType
<1>5. QED
  <2>1. Fresh \in KsType
    BY <1>3, <1>4 DEF Fresh, KsType, DEBUG, FATAL
  <2>2. QED
    BY <1>4, <2>1

\* Nothing has been written at boot.
LEMMA InitIInv == Init => IInv
<1> SUFFICES ASSUME Init PROVE IInv
  OBVIOUS
<1>1. TypeOK
  BY ZeroedType DEF Init, TypeOK, KsType
<1>2. CountersAddUp
  BY KlogAssumption DEF Init, CountersAddUp, Zeroed
<1>3. RingHolds
  BY DEF Init, RingHolds, Zeroed
<1>4. NothingBeforeInit
  BY DEF Init, NothingBeforeInit
<1>5. QED
  BY <1>1, <1>2, <1>3, <1>4 DEF IInv

\* The first call initialises; a state with nothing in it satisfies all that
\* the invariant says of the one it replaces.
LEMMA ReadyProperties ==
  ASSUME IInv
  PROVE  /\ Ready \in KsType
         /\ Ready.inited
         /\ Ready.count = IF Len(hist) < KLOG_NENTRY THEN Len(hist) ELSE KLOG_NENTRY
         /\ Ready.total_written = Ready.count + Ready.overwritten + cleared
         /\ \A k \in 1..Ready.count :
              Ready.ring[IF k <= Ready.head THEN Ready.head - k
                                            ELSE Ready.head + KLOG_NENTRY - k]
                = hist[Len(hist) - k + 1]
<1>1. CASE ks.inited
  BY <1>1 DEF IInv, TypeOK, KsType, Ready, CountersAddUp, RingHolds
<1>2. CASE ~ks.inited
  <2>1. Ready = Fresh /\ hist = <<>> /\ cleared = 0
    BY <1>2 DEF IInv, NothingBeforeInit, Ready
  <2>2. Fresh.inited /\ Fresh.count = 0 /\ Fresh.total_written = 0 /\ Fresh.overwritten = 0
    BY DEF Fresh, Zeroed
  <2>3. QED
    BY <2>1, <2>2, ZeroedType, KlogAssumption
<1>3. QED
  BY <1>1, <1>2

\* A call that keeps the ring, its counters and the history keeps the invariant.
LEMMA QuietStep ==
  ASSUME IInv, ks' \in KsType, ks'.inited, UNCHANGED <<hist, cleared>>,
         ks'.ring = Ready.ring, ks'.head = Ready.head, ks'.count = Ready.count,
         ks'.total_written = Ready.total_written, ks'.overwritten = Ready.overwritten
  PROVE  IInv'
<1>1. TypeOK'
  BY DEF IInv, TypeOK, KsType
<1>2. CountersAddUp'
  BY ReadyProperties DEF CountersAddUp
<1>3. RingHolds'
  BY ReadyProperties DEF RingHolds
<1>4. NothingBeforeInit'
  BY DEF NothingBeforeInit
<1>5. QED
  BY <1>1, <1>2, <1>3, <1>4 DEF IInv

\* The record goes to the slot at head, which becomes the slot behind head; the
\* others are one further away, and the one that was KLOG_NENTRY away is gone.
LEMMA WriteStep ==
  ASSUME IInv, NEW level \in Level, NEW msg \in Msg, Write(level, msg)
  PROVE  IInv'
<1> DEFINE s == Ready
           e == [level |-> level % 256, msg |-> msg]
           N == KLOG_NENTRY
<1>1. /\ s \in KsType /\ s.inited
      /\ e \in Entry
      /\ hist \in Seq(Entry) /\ cleared \in Nat /\ N \in Nat \ {0}
  <2>1. level % 256 \in Int
    BY KlogAssumption
  <2>2. QED
    BY <2>1, ReadyProperties, KlogAssumption DEF IInv, TypeOK, Entry
<1>2. /\ s.head \in 0..(N - 1) /\ s.count \in 0..N
      /\ s.ring \in [Slot -> Entry]
      /\ s.overwritten \in Nat /\ s.total_written \in Nat
  BY <1>1 DEF KsType, Slot
<1>3. ks' = [s EXCEPT !.ring[s.head] = e, !.head = (s.head + 1) % N,
                      !.count = IF s.count = N THEN s.count ELSE s.count + 1,
                      !.overwritten = IF s.count = N THEN @ + 1 ELSE @,
                      !.total_written = @ + 1]
      /\ hist' = Append(hist, e) /\ cleared' = cleared
  BY DEF Write
<1>4. (s.head + 1) % N = IF s.head + 1 < N THEN s.head + 1 ELSE 0
  <2>1. s.head + 1 \in 0..(2 * N - 1)
    BY <1>1, <1>2
  <2>2. (s.head + 1) % N = IF s.head + 1 < N THEN s.head + 1 ELSE (s.head + 1) - N
    BY <2>1, RingModulo
  <2>3. QED
    BY <2>2, <1>1, <1>2
<1>5. /\ ks'.inited
      /\ ks'.ring = [s.ring EXCEPT ![s.head] = e]
      /\ ks'.head = IF s.head + 1 < N THEN s.head + 1 ELSE 0
      /\ ks'.count = IF s.count = N THEN s.count ELSE s.count + 1
      /\ ks'.overwritten = IF s.count = N THEN s.overwritten + 1 ELSE s.overwritten
      /\ ks'.total_written = s.total_written + 1
  BY <1>1, <1>3, <1>4 DEF KsType
<1>a. N \in Nat \ {0} /\ s.head \in 0..(N - 1) /\ s.count \in 0..N
  BY <1>1, <1>2
<1>b. ks'.head = IF s.head + 1 < N THEN s.head + 1 ELSE 0
  BY <1>5
<1>c. ks'.count = IF s.count = N THEN s.count ELSE s.count + 1
  BY <1>5
<1>6. ks' \in KsType
  <2> HIDE DEF e
  <2>1. ks'.ring \in [Slot -> Entry]
    BY <1>1, <1>2, <1>5
  <2>2. ks'.head \in Slot /\ ks'.count \in 0..N /\ ks'.overwritten \in Nat
        /\ ks'.total_written \in Nat
    <3> HIDE DEF s, N
    <3>1. ks'.head \in 0..(N - 1)
      BY <1>a, <1>b
    <3>2. ks'.count \in 0..N
      BY <1>a, <1>c
    <3>3. ks'.overwritten \in Nat /\ ks'.total_written \in Nat
      BY <1>2, <1>5
    <3>4. QED
      BY <3>1, <3>2, <3>3 DEF Slot, N
  <2>3. QED
    BY <1>1, <1>3, <2>1, <2>2 DEF KsType
<1>7. TypeOK'
  <2>1. hist' \in Seq(Entry)
    BY <1>1, <1>3
  <2>2. QED
    BY <2>1, <1>1, <1>3, <1>6 DEF TypeOK, KsType
<1>8. Len(hist') = Len(hist) + 1
  BY <1>1, <1>3
<1>9. CountersAddUp'
  <2>1. s.count = IF Len(hist) < N THEN Len(hist) ELSE N
    BY ReadyProperties
  <2>2. s.total_written = s.count + s.overwritten + cleared
    BY ReadyProperties
  <2>3. Len(hist) \in Nat
    BY <1>1
  <2>4. ks'.count = IF Len(hist') < N THEN Len(hist') ELSE N
    <3> HIDE DEF s, N
    <3>1. QED
      BY <1>a, <1>c, <1>8, <2>1, <2>3
  <2>5. ks'.total_written = ks'.count + ks'.overwritten + cleared'
    <3> HIDE DEF s, e
    <3>1. CASE s.count = N
      BY <3>1, <1>1, <1>2, <1>3, <1>5, <2>2
    <3>2. CASE s.count # N
      <4>1. ks'.count = s.count + 1 /\ ks'.overwritten = s.overwritten
        BY <3>2, <1>5
      <4>2. ks'.total_written = s.total_written + 1
        BY <1>5
      <4>3. cleared' = cleared /\ cleared \in Nat
        BY <1>1, <1>3
      <4>4. QED
        BY <4>1, <4>2, <4>3, <1>2, <2>2
    <3>3. QED
      BY <3>1, <3>2
  <2>6. QED
    BY <2>4, <2>5 DEF CountersAddUp
<1>10. RingHolds'
  <2> SUFFICES ASSUME NEW k \in 1..ks'.count
               PROVE  ks'.ring[IF k <= ks'.head THEN ks'.head - k ELSE ks'.head + N - k]
                        = hist'[Len(hist') - k + 1]
    BY DEF RingHolds
  <2>1. CASE k = 1
    <3>1. (IF k <= ks'.head THEN ks'.head - k ELSE ks'.head + N - k) = s.head
      <4>1. (IF 1 <= ks'.head THEN ks'.head - 1 ELSE ks'.head + N - 1) = s.head
        BY <1>a, <1>b, JustBehind
      <4> HIDE DEF s, N
      <4>2. QED
        BY <2>1, <4>1
    <3>2. ks'.ring[s.head] = e
      BY <1>2, <1>5 DEF Slot
    <3>3. hist'[Len(hist') - k + 1] = e
      BY <2>1, <1>1, <1>3, <1>8
    <3>4. QED
      BY <3>1, <3>2, <3>3
  <2>2. CASE k > 1
    <3> DEFINE j == k - 1
               p == IF j <= s.head THEN s.head - j ELSE s.head + N - j
    <3>1. j \in 1..s.count /\ j < N
      BY <2>2, <1>a, <1>c
    <3>2. (IF k <= ks'.head THEN ks'.head - k ELSE ks'.head + N - k) = p
      <4>1. k \in 2..N
        BY <2>2, <1>a, <1>c
      <4>2. QED
        BY <4>1, <1>a, <1>b, OneFurther
    <3>3. p \in Slot /\ p # s.head
      BY <3>1, <1>a DEF Slot
    <3>4. ks'.ring[p] = s.ring[p]
      BY <3>3, <1>2, <1>5
    <3>5. s.ring[p] = hist[Len(hist) - j + 1]
      BY <3>1, ReadyProperties
    <3>6. Len(hist') - k + 1 = Len(hist) - j + 1 /\ Len(hist) - j + 1 \in 1..Len(hist)
      BY <3>1, <1>1, <1>2, <1>8, ReadyProperties
    <3>7. hist'[Len(hist) - j + 1] = hist[Len(hist) - j + 1]
      BY <3>6, <1>1, <1>3
    <3>8. QED
      BY <3>2, <3>4, <3>5, <3>6, <3>7
  <2>3. QED
    BY <2>1, <2>2, <1>2, <1>5
<1>11. NothingBeforeInit'
  BY <1>5 DEF NothingBeforeInit
<1>12. QED
  BY <1>7, <1>9, <1>10, <1>11 DEF IInv

\* Every call keeps the invariant.
LEMMA NextIInv == IInv /\ [Next]_vars => IInv'
<1> SUFFICES ASSUME IInv, [Next]_vars PROVE IInv'
  OBVIOUS
<1>1. Ready \in KsType /\ Ready.inited
  BY ReadyProperties
<1>2. CASE KlogInit
  <2>1. Fresh.inited /\ Fresh.count = 0 /\ Fresh.total_written = 0 /\ Fresh.overwritten = 0
    BY DEF Fresh, Zeroed
  <2>2. TypeOK'
    BY <1>2, ZeroedType DEF KlogInit, TypeOK, KsType
  <2>3. CountersAddUp' /\ RingHolds' /\ NothingBeforeInit'
    BY <1>2, <2>1, KlogAssumption DEF KlogInit, CountersAddUp, RingHolds, NothingBeforeInit
  <2>4. QED
    BY <2>2, <2>3 DEF IInv
<1>3. CASE KlogClear
  <2>1. /\ ks'.inited /\ ks'.count = 0
        /\ ks'.total_written = Ready.total_written /\ ks'.overwritten = Ready.overwritten
        /\ cleared' = cleared + Ready.count /\ hist' = <<>>
    BY <1>1, <1>3 DEF KlogClear, KsType
  <2>2. ks' \in KsType
    BY <1>1, <1>3, KlogAssumption DEF KlogClear, KsType, Slot
  <2>3. TypeOK'
    BY <1>1, <2>1, <2>2 DEF TypeOK, KsType, IInv
  <2>4. CountersAddUp' /\ RingHolds' /\ NothingBeforeInit'
    BY <1>1, <2>1, ReadyProperties, KlogAssumption
    DEF CountersAddUp, RingHolds, NothingBeforeInit, KsType, IInv, TypeOK
  <2>5. QED
    BY <2>3, <2>4 DEF IInv
<1>4. CASE KlogGet
  BY <1>1, <1>4, QuietStep DEF KlogGet
<1>5. ASSUME NEW level \in Level, KlogSetLevel(level) PROVE IInv'
  <2>1. Clamp(level) \in DEBUG..FATAL
    BY KlogAssumption DEF Clamp, DEBUG, FATAL
  <2>2. ks' \in KsType
    BY <1>1, <1>5, <2>1 DEF KlogSetLevel, KsType
  <2>3. QED
    BY <1>1, <1>5, <2>2, QuietStep DEF KlogSetLevel, KsType
<1>6. ASSUME NEW level \in Level, Filter(level) PROVE IInv'
  <2>1. ks' \in KsType
    BY <1>1, <1>6 DEF Filter, KsType
  <2>2. QED
    BY <1>1, <1>6, <2>1, QuietStep DEF Filter, KsType
<1>7. ASSUME NEW on \in BOOLEAN, KlogEnableConsole(on) PROVE IInv'
  <2>1. ks' \in KsType
    BY <1>1, <1>7 DEF KlogEnableConsole, KsType
  <2>2. QED
    BY <1>1, <1>7, <2>1, QuietStep DEF KlogEnableConsole, KsType
<1>8. ASSUME NEW n \in MaxLines, KlogDump(n) PROVE IInv'
  BY <1>1, <1>8, QuietStep DEF KlogDump
<1>9. CASE UNCHANGED vars
  BY <1>9 DEF vars, IInv, TypeOK, CountersAddUp, RingHolds, NothingBeforeInit, Zeroed, Blank
<1>10. QED
  BY <1>2, <1>3, <1>4, <1>5, <1>6, <1>7, <1>8, <1>9, WriteStep DEF Next

\* The slots klog_dump walks are those of the last records, oldest first.
LEMMA PrintedIsRecent == IInv => DumpIsRecent
<1> SUFFICES ASSUME IInv, NEW n \in MaxLines
             PROVE  Printed(Ready, n)
                      = Recent(IF n <= 0 \/ n > Ready.count THEN Ready.count ELSE n)
  BY DEF DumpIsRecent
<1> DEFINE N == KLOG_NENTRY
           s == Ready
           lines == IF n <= 0 \/ n > s.count THEN s.count ELSE n
           oldest == (s.head + N - s.count) % N
           tail == IF lines < s.count THEN (s.head + N - lines) % N ELSE oldest
<1>1. /\ s.head \in 0..(N - 1) /\ s.count \in 0..N /\ N \in Nat \ {0} /\ n \in Int
      /\ hist \in Seq(Entry)
  BY ReadyProperties, KlogAssumption DEF KsType, Slot, IInv, TypeOK
<1>2. lines \in 0..s.count /\ lines \in 0..N
  <2> HIDE DEF s
  <2>1. QED
    BY <1>1
<1>3. tail = (s.head + N - lines) % N
  <2>1. CASE lines < s.count
    BY <2>1
  <2>2. CASE lines = s.count
    BY <2>2, <1>1
  <2>3. QED
    BY <2>1, <2>2, <1>1, <1>2
<1> HIDE DEF s, lines, tail
<1>4. ASSUME NEW i \in 1..lines
      PROVE  s.ring[(tail + (i - 1)) % N] = hist[Len(hist) - lines + i]
  <2> DEFINE k == lines - i + 1
  <2>1. (tail + (i - 1)) % N = IF k <= s.head THEN s.head - k ELSE s.head + N - k
    BY <1>1, <1>2, <1>3, Walk
  <2>2. k \in 1..s.count
    BY <1>1, <1>2
  <2>3. s.ring[IF k <= s.head THEN s.head - k ELSE s.head + N - k] = hist[Len(hist) - k + 1]
    BY <2>2, ReadyProperties DEF s
  <2>4. Len(hist) - k + 1 = Len(hist) - lines + i
    BY <1>1, <1>2
  <2>5. QED
    BY <2>1, <2>3, <2>4
<1>5. Printed(s, n) = [i \in 1..lines |-> s.ring[(tail + (i - 1)) % N]]
  BY DEF Printed, s, lines, tail, oldest
<1>6. QED
  BY <1>4, <1>5 DEF Recent, s, lines

\* The invariant holds in every state.
THEOREM KlogInvariance == Spec => []IInv
BY InitIInv, NextIInv, PTL DEF Spec

\* The ring and the counters account for every record that was written.
THEOREM CountersHold == Spec => []CountersAddUp
<1>1. IInv => CountersAddUp
  BY DEF IInv
<1>2. QED
  BY <1>1, KlogInvariance, PTL

\* klog_dump always prints the last records, oldest first.
THEOREM DumpIsRecentHolds == Spec => []DumpIsRecent
BY PrintedIsRecent, KlogInvariance, PTL
=============================================================================
