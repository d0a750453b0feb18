----------------------------- MODULE ProcProofs -----------------------------
(***************************************************************************)
(* The invariants of Proc and ProdCons for every number of slots and pages *)
(* and every number of items.                                              *)
(***************************************************************************)
EXTENDS ProdCons, SequenceTheorems, WellFoundedInduction, TLAPS
-----------------------------------------------------------------------------
(* Lists of pages.                                                         *)

Elems(s) == {s[n] : n \in 1..Len(s)}
NoDup(s) == \A m, n \in 1..Len(s) : s[m] = s[n] => m = n

\* free_page: a page that is not on a list becomes its first element.
LEMMA PushFacts ==
  ASSUME NEW S, NEW s \in Seq(S), NEW p \in S, NoDup(s), p \notin Elems(s)
  PROVE  /\ <<p>> \o s \in Seq(S) /\ <<p>> \o s # <<>> /\ Head(<<p>> \o s) = p
         /\ NoDup(<<p>> \o s) /\ Elems(<<p>> \o s) = Elems(s) \cup {p}
<1> DEFINE t == <<p>> \o s
<1>1. t \in Seq(S) /\ Len(t) = Len(s) + 1 /\ Len(s) \in Nat
  OBVIOUS
<1>2. \A n \in 1..Len(t) : t[n] = IF n = 1 THEN p ELSE s[n - 1]
  OBVIOUS
<1>3. t # <<>> /\ Head(t) = p
  BY <1>1, <1>2
<1> HIDE DEF t
<1>4. NoDup(t)
  <2> SUFFICES ASSUME NEW m \in 1..Len(t), NEW n \in 1..Len(t), t[m] = t[n] PROVE m = n
    BY DEF NoDup
  <2>1. \A k \in 1..Len(s) : s[k] # p
    BY DEF Elems
  <2>2. CASE m = 1 \/ n = 1
    BY <1>1, <1>2, <2>1, <2>2
  <2>3. CASE m # 1 /\ n # 1
    <3>1. m - 1 \in 1..Len(s) /\ n - 1 \in 1..Len(s) /\ s[m - 1] = s[n - 1]
      BY <1>1, <1>2, <2>3
    <3> QED  BY <3>1 DEF NoDup
  <2> QED  BY <2>2, <2>3
<1>5. Elems(t) = Elems(s) \cup {p}
  <2>1. ASSUME NEW x \in Elems(t) PROVE x \in Elems(s) \cup {p}
    BY <1>1, <1>2 DEF Elems
  <2>2. ASSUME NEW x \in Elems(s) PROVE x \in Elems(t)
    <3>1. PICK n \in 1..Len(s) : x = s[n]
      BY DEF Elems
    <3>2. n + 1 \in 1..Len(t) /\ t[n + 1] = x
      BY <1>1, <1>2, <3>1
    <3> QED  BY <3>2 DEF Elems
  <2>3. p \in Elems(t)
    <3>1. 1 \in 1..Len(t) /\ t[1] = p
      BY <1>1, <1>2
    <3> QED  BY <3>1 DEF Elems
  <2> QED  BY <2>1, <2>2, <2>3
<1> QED  BY <1>1, <1>3, <1>4, <1>5 DEF t

\* alloc_page: the first element leaves the list.
LEMMA PopFacts ==
  ASSUME NEW S, NEW s \in Seq(S), s # <<>>, NoDup(s)
  PROVE  /\ Head(s) \in S /\ Tail(s) \in Seq(S) /\ NoDup(Tail(s))
         /\ Head(s) \in Elems(s) /\ Elems(Tail(s)) = Elems(s) \ {Head(s)}
<1> DEFINE t == Tail(s)
<1>1. t \in Seq(S) /\ Len(t) = Len(s) - 1 /\ Len(s) \in Nat /\ Len(s) > 0
  OBVIOUS
<1>2. \A n \in 1..Len(t) : t[n] = s[n + 1]
  OBVIOUS
<1>3. Head(s) = s[1] /\ s[1] \in S
  OBVIOUS
<1> HIDE DEF t
<1>4. NoDup(t)
  BY <1>1, <1>2 DEF NoDup
<1>5. Elems(t) = Elems(s) \ {s[1]}
  <2>1. ASSUME NEW x \in Elems(t) PROVE x \in Elems(s) \ {s[1]}
    BY <1>1, <1>2 DEF Elems, NoDup
  <2>2. ASSUME NEW x \in Elems(s) \ {s[1]} PROVE x \in Elems(t)
    <3>1. PICK n \in 1..Len(s) : x = s[n]
      BY DEF Elems
    <3>2. n - 1 \in 1..Len(t) /\ t[n - 1] = x
      BY <1>1, <1>2, <3>1
    <3> QED  BY <3>2 DEF Elems
  <2> QED  BY <2>1, <2>2
<1>6. s[1] \in Elems(s)
  BY <1>1 DEF Elems
<1> QED  BY <1>1, <1>3, <1>4, <1>5, <1>6 DEF t

\* kproc_create's search ends at the first unused slot.
LEMMA FirstUnused ==
  ASSUME UnusedIdx # {}
  PROVE  /\ Min(UnusedIdx) \in UnusedIdx
         /\ \A k \in UnusedIdx : Min(UnusedIdx) <= k
<1> DEFINE R == {pair \in Nat \X Nat : pair[1] < pair[2]}
<1>1. IsWellFoundedOn(R, Nat)
  BY NatLessThanWellFounded DEF OpToRel
<1>2. \E x \in UnusedIdx : \A y \in UnusedIdx : ~ (<<y, x>> \in R)
  <2>1. UnusedIdx \subseteq Nat
    BY DEF UnusedIdx, Idx
  <2> HIDE DEF R
  <2> QED  BY <1>1, <2>1, WFMin
<1>3. PICK x \in UnusedIdx : \A y \in UnusedIdx : ~ (<<y, x>> \in R)
  BY <1>2
<1>4. ASSUME NEW y \in UnusedIdx PROVE x <= y
  <2>1. x \in Nat /\ y \in Nat
    BY <1>3 DEF UnusedIdx, Idx
  <2>2. y < x => <<y, x>> \in R
    BY <2>1
  <2> HIDE DEF R
  <2>3. ~ (y < x)
    BY <1>3, <2>2
  <2> QED  BY <2>1, <2>3
<1> QED  BY <1>3, <1>4 DEF Min
-----------------------------------------------------------------------------
(* Kernel threads.                                                         *)

State == {"UNUSED", "RUNNABLE", "RUNNING", "ZOMBIE"}

\* TypeOK with the shape of the table, and the loop of scheduler_run: a thread runs
\* in the round of its slot, and a round that has switched to nobody has found
\* nobody to switch to.
Shape ==
  /\ procs \in [Idx -> [pid : Nat, state : State, kstack : Page \cup {0}]]
  /\ TypeOK
  /\ \A k \in Idx : procs[k].pid < next_pid
  /\ flow \in {"thread", "exit"} => current = i /\ current \in Idx /\ runnable
  /\ flow = "exit" => procs[current].state = "ZOMBIE"
  /\ flow = "sched" /\ ~runnable =>
       \A k \in Idx : k < i => procs[k].state # "RUNNABLE"

\* The inductive invariant.
IInv == Shape /\ OneRunning /\ PidsDiffer /\ EveryPageOnce /\ StacksAlive

LEMMA ConstantFacts ==
  NPROC \in Nat /\ NPROC > 0 /\ MaxPid \in Nat /\ MaxPid > 0 /\ NPAGE \in Nat
BY ProcAssumption

\* EveryPageOnce in the words of the lemmas about lists.
LEMMA PagesAsList ==
  EveryPageOnce <=>
    /\ NoDup(freelist)
    /\ \A j, k \in Idx : procs[j].kstack = procs[k].kstack /\ procs[j].kstack # 0 => j = k
    /\ Elems(freelist) \cap Stacks = {} /\ Elems(freelist) \cap held = {}
    /\ Stacks \cap held = {}
    /\ Elems(freelist) \cup Stacks \cup held = Page
BY DEF EveryPageOnce, NoDup, Elems, FreePages

LEMMA PagesAsListNext ==
  ASSUME /\ NoDup(freelist')
         /\ \A j, k \in Idx : procs'[j].kstack = procs'[k].kstack /\ procs'[j].kstack # 0 => j = k
         /\ Elems(freelist') \cap Stacks' = {} /\ Elems(freelist') \cap held' = {}
         /\ Stacks' \cap held' = {}
         /\ Elems(freelist') \cup Stacks' \cup held' = Page
  PROVE  EveryPageOnce'
BY DEF EveryPageOnce, NoDup, Elems, FreePages

LEMMA InitInv == Init => IInv
<1> SUFFICES ASSUME Init PROVE IInv
  OBVIOUS
<1>1. freelist \in Seq(Page) /\ Len(freelist) = NPAGE
  BY ProcAssumption DEF Init, Page
<1>2. Shape
  <2>1. procs \in [Idx -> [pid : Nat, state : State, kstack : Page \cup {0}]]
    BY DEF Init, State, NoProc
  <2>2. TypeOK
    <3>1. \A k \in Idx : procs[k] = NoProc
      BY DEF Init
    <3>2. next_pid \in 1..MaxPid /\ i \in 1..(NPROC + 1)
      BY ConstantFacts DEF Init
    <3> QED  BY <1>1, <3>1, <3>2 DEF Init, TypeOK, NoProc, Flow
  <2> QED  BY <2>1, <2>2 DEF Init, Shape, NoProc
<1>3. OneRunning /\ PidsDiffer /\ StacksAlive
  BY DEF Init, OneRunning, PidsDiffer, StacksAlive, NoProc, Idx
<1>4. EveryPageOnce
  <2>1. NoDup(freelist)
    BY <1>1, ProcAssumption DEF Init, NoDup, Page
  <2>2. Elems(freelist) = Page
    <3>1. ASSUME NEW p \in Page PROVE p \in Elems(freelist)
      <4>1. NPAGE + 1 - p \in 1..Len(freelist) /\ freelist[NPAGE + 1 - p] = p
        BY <1>1, ProcAssumption DEF Init, Page
      <4> QED  BY <4>1 DEF Elems
    <3>2. \A n \in 1..Len(freelist) : freelist[n] \in Page
      BY <1>1
    <3> QED  BY <3>1, <3>2 DEF Elems
  <2>3. Stacks = {} /\ held = {}
    BY DEF Init, Stacks, NoProc
  <2>4. \A j \in Idx : procs[j].kstack = 0
    BY DEF Init, NoProc
  <2> QED  BY <2>1, <2>2, <2>3, <2>4, PagesAsList
<1> QED  BY <1>2, <1>3, <1>4 DEF IInv

\* A step that leaves every stack where it is and allocates nothing.
LEMMA SameStacks ==
  ASSUME EveryPageOnce, UNCHANGED <<freelist, held>>,
         \A k \in Idx : procs'[k].kstack = procs[k].kstack
  PROVE  EveryPageOnce'
<1>1. Stacks' = Stacks
  BY DEF Stacks
<1>2. FreePages' = FreePages
  BY DEF FreePages
<1> QED  BY <1>1, <1>2 DEF EveryPageOnce

\* An unused slot has no stack.
LEMMA UnusedHasNoStack ==
  ASSUME StacksAlive, NEW k \in Idx, procs[k].state \in {"UNUSED", "ZOMBIE"}
  PROVE  procs[k].kstack = 0
BY DEF StacksAlive

LEMMA ProcInitInv ==
  ASSUME IInv, ProcInit
  PROVE  IInv'
<1>1. \A k \in Idx : procs'[k] = NoProc
  BY DEF ProcInit
<1>2. Shape'
  <2>1. procs' \in [Idx -> [pid : Nat, state : State, kstack : Page \cup {0}]]
    BY DEF ProcInit, NoProc, State
  <2>2. next_pid' \in 1..MaxPid /\ next_pid' = 1
    BY ConstantFacts DEF ProcInit
  <2> QED  BY <1>1, <2>1, <2>2 DEF ProcInit, IInv, Shape, TypeOK, NoProc
<1>3. OneRunning' /\ PidsDiffer'
  BY <1>1 DEF ProcInit, OneRunning, PidsDiffer, NoProc
<1>4. StacksAlive'
  BY <1>1 DEF IInv, ProcInit, StacksAlive, NoProc
<1>5. EveryPageOnce'
  BY <1>1, SameStacks, UnusedHasNoStack DEF IInv, ProcInit, NoProc
<1> QED  BY <1>2, <1>3, <1>4, <1>5 DEF IInv

LEMMA KprocCreateInv ==
  ASSUME IInv, KprocCreate
  PROVE  IInv'
<1> DEFINE k == Min(UnusedIdx)
<1>1. k \in Idx /\ procs[k].state = "UNUSED" /\ procs[k].kstack = 0
  <2>1. k \in UnusedIdx
    BY FirstUnused DEF KprocCreate
  <2> QED  BY <2>1, UnusedHasNoStack DEF UnusedIdx, IInv
<1> HIDE DEF k
<1>2. next_pid \in Nat /\ next_pid' = next_pid + 1 /\ next_pid' \in 1..MaxPid
  BY ConstantFacts DEF IInv, Shape, TypeOK, KprocCreate
<1>3. CASE freelist = <<>>
  <2>1. flow' = "panic" /\ UNCHANGED <<procs, freelist, held, current, stack, i, runnable>>
    BY <1>3 DEF KprocCreate
  <2>2. Shape'
    BY <1>2, <2>1 DEF IInv, Shape, TypeOK, Flow
  <2>3. OneRunning' /\ PidsDiffer' /\ StacksAlive'
    BY <2>1 DEF IInv, OneRunning, PidsDiffer, StacksAlive
  <2>4. EveryPageOnce'
    BY <2>1, SameStacks DEF IInv
  <2> QED  BY <2>2, <2>3, <2>4 DEF IInv
<1>4. CASE freelist # <<>>
  <2> DEFINE new == [pid |-> next_pid, state |-> "RUNNABLE", kstack |-> Head(freelist)]
  <2>1. /\ procs' = [procs EXCEPT ![k] = new] /\ freelist' = Tail(freelist)
        /\ UNCHANGED <<flow, held, current, stack, i, runnable>>
    BY <1>4 DEF KprocCreate, k
  <2>2. /\ Head(freelist) \in Page /\ freelist' \in Seq(Page) /\ NoDup(freelist')
        /\ Head(freelist) \in Elems(freelist)
        /\ Elems(freelist') = Elems(freelist) \ {Head(freelist)}
    BY <1>4, <2>1, PopFacts, PagesAsList DEF IInv, Shape, TypeOK
  <2>3. procs \in [Idx -> [pid : Nat, state : State, kstack : Page \cup {0}]]
    BY DEF IInv, Shape
  <2>4. procs'[k] = new /\ \A j \in Idx : j # k => procs'[j] = procs[j]
    BY <1>1, <2>1, <2>3
  <2>5. flow \in {"main", "thread"} /\ (flow = "thread" => current # k)
    BY <1>1 DEF KprocCreate, IInv, OneRunning
  <2>6. Shape'
    <3>1. new \in [pid : Nat, state : State, kstack : Page \cup {0}]
      BY <1>2, <2>2 DEF State
    <3>2. procs' \in [Idx -> [pid : Nat, state : State, kstack : Page \cup {0}]]
      BY <2>1, <2>3, <3>1
    <3>3. TypeOK'
      BY <1>2, <2>1, <2>2, <3>2 DEF IInv, Shape, TypeOK, State
    <3>4. \A j \in Idx : procs'[j].pid < next_pid'
      BY <1>2, <2>3, <2>4 DEF IInv, Shape
    <3> QED  BY <2>1, <2>5, <3>2, <3>3, <3>4 DEF IInv, Shape
  <2>7. OneRunning'
    BY <1>1, <2>1, <2>4, <2>5 DEF IInv, OneRunning
  <2>8. PidsDiffer'
    BY <1>2, <2>3, <2>4 DEF IInv, PidsDiffer, Shape
  <2>9. StacksAlive'
    BY <1>1, <2>1, <2>2, <2>4, <2>5, ConstantFacts DEF IInv, StacksAlive, Page
  <2>10. EveryPageOnce'
    <3>1. Head(freelist) # 0 /\ \A j \in Idx : procs[j].kstack # Head(freelist)
      BY <2>2, PagesAsList, ConstantFacts DEF IInv, Stacks, Page
    <3>2. Stacks' = Stacks \cup {Head(freelist)}
      BY <1>1, <2>4, <3>1 DEF Stacks
    <3>3. \A j, m \in Idx : procs'[j].kstack = procs'[m].kstack /\ procs'[j].kstack # 0 => j = m
      BY <2>4, <3>1 DEF IInv, EveryPageOnce
    <3> QED  BY <2>1, <2>2, <3>2, <3>3, PagesAsList, PagesAsListNext DEF IInv
  <2> QED  BY <2>6, <2>7, <2>8, <2>9, <2>10 DEF IInv
<1> QED  BY <1>3, <1>4

LEMMA AllocPageInv ==
  ASSUME IInv, AllocPage
  PROVE  IInv'
<1>1. /\ Head(freelist) \in Page /\ freelist' \in Seq(Page) /\ NoDup(freelist')
      /\ Head(freelist) \in Elems(freelist)
      /\ Elems(freelist') = Elems(freelist) \ {Head(freelist)}
  BY PopFacts, PagesAsList DEF IInv, Shape, TypeOK, AllocPage
<1>2. Shape'
  BY <1>1 DEF IInv, Shape, TypeOK, AllocPage
<1>3. OneRunning' /\ PidsDiffer'
  BY DEF IInv, OneRunning, PidsDiffer, AllocPage
<1>4. StacksAlive'
  BY DEF IInv, StacksAlive, AllocPage
<1>5. EveryPageOnce'
  <2>1. Stacks' = Stacks /\ held' = held \cup {Head(freelist)}
    BY DEF Stacks, AllocPage
  <2>2. \A j, k \in Idx : procs'[j].kstack = procs'[k].kstack /\ procs'[j].kstack # 0 => j = k
    BY DEF IInv, EveryPageOnce, AllocPage
  <2> QED  BY <1>1, <2>1, <2>2, PagesAsList, PagesAsListNext DEF IInv
<1> QED  BY <1>2, <1>3, <1>4, <1>5 DEF IInv

LEMMA FreePageInv ==
  ASSUME IInv, NEW p \in held, FreePage(p)
  PROVE  IInv'
<1>1. p \in Page /\ p \notin Elems(freelist) /\ p \notin Stacks
  BY PagesAsList DEF IInv, Shape, TypeOK
<1>2. /\ freelist' \in Seq(Page) /\ NoDup(freelist')
      /\ Elems(freelist') = Elems(freelist) \cup {p}
  BY <1>1, PushFacts, PagesAsList DEF IInv, Shape, TypeOK, FreePage
<1>3. Shape'
  BY <1>2 DEF IInv, Shape, TypeOK, FreePage
<1>4. OneRunning' /\ PidsDiffer'
  BY DEF IInv, OneRunning, PidsDiffer, FreePage
<1>5. StacksAlive'
  BY DEF IInv, StacksAlive, FreePage
<1>6. EveryPageOnce'
  <2>1. Stacks' = Stacks /\ held' = held \ {p}
    BY DEF Stacks, FreePage
  <2>2. \A j, k \in Idx : procs'[j].kstack = procs'[k].kstack /\ procs'[j].kstack # 0 => j = k
    BY DEF IInv, EveryPageOnce, FreePage
  <2> QED  BY <1>1, <1>2, <2>1, <2>2, PagesAsList, PagesAsListNext DEF IInv
<1> QED  BY <1>3, <1>4, <1>5, <1>6 DEF IInv

\* The scheduler's own steps; Back is the one of a thread that gives up.
LEMMA SchedulerInv ==
  ASSUME IInv, SchedulerRun \/ Skip \/ Round
  PROVE  IInv'
<1>1. UNCHANGED <<procs, next_pid, current, stack, freelist, held>>
  BY DEF SchedulerRun, Skip, Round
<1>2. Shape'
  <2>1. CASE SchedulerRun
    <3>1. i' = 1 /\ i' \in 1..(NPROC + 1) /\ flow' = "sched" /\ runnable' = FALSE
      BY <2>1, ConstantFacts DEF SchedulerRun
    <3>2. \A k \in Idx : ~ (k < i')
      BY <3>1, ConstantFacts DEF Idx
    <3> QED  BY <1>1, <3>1, <3>2 DEF IInv, Shape, TypeOK, Flow
  <2>2. CASE Skip
    BY <1>1, <2>2, ConstantFacts DEF IInv, Shape, TypeOK, Flow, Idx, Skip
  <2>3. CASE Round
    <3>1. CASE runnable
      <4>1. i' = 1 /\ i' \in 1..(NPROC + 1) /\ flow' = "sched" /\ runnable' = FALSE
        BY <2>3, <3>1, ConstantFacts DEF Round
      <4>2. \A k \in Idx : ~ (k < i')
        BY <4>1, ConstantFacts DEF Idx
      <4> QED  BY <1>1, <4>1, <4>2 DEF IInv, Shape, TypeOK, Flow
    <3>2. CASE ~runnable
      BY <1>1, <2>3, <3>2 DEF IInv, Shape, TypeOK, Flow, Round
    <3> QED  BY <3>1, <3>2
  <2> QED  BY <2>1, <2>2, <2>3
<1>3. flow \in {"main", "sched"} /\ flow' \in {"main", "sched"}
  BY DEF SchedulerRun, Skip, Round
<1>4. OneRunning' /\ PidsDiffer' /\ StacksAlive'
  BY <1>1, <1>3 DEF IInv, OneRunning, PidsDiffer, StacksAlive
<1>5. EveryPageOnce'
  BY <1>1, SameStacks DEF IInv
<1> QED  BY <1>2, <1>4, <1>5 DEF IInv

LEMMA SwitchInv ==
  ASSUME IInv, Switch
  PROVE  IInv'
<1>1. i \in Idx /\ procs[i].state = "RUNNABLE" /\ procs[i].kstack # 0 /\ flow = "sched"
  BY ConstantFacts DEF Switch, Idx, IInv, Shape, TypeOK, StacksAlive
<1>2. /\ procs'[i] = [procs[i] EXCEPT !.state = "RUNNING"]
      /\ \A k \in Idx : k # i => procs'[k] = procs[k]
      /\ procs' \in [Idx -> [pid : Nat, state : State, kstack : Page \cup {0}]]
  BY <1>1 DEF Switch, IInv, Shape, State
<1>3. \A k \in Idx : procs'[k].pid = procs[k].pid /\ procs'[k].kstack = procs[k].kstack
  BY <1>1, <1>2 DEF IInv, Shape
<1>4. procs'[i].state = "RUNNING"
  BY <1>1, <1>2 DEF IInv, Shape
<1>5. Shape'
  <2>1. TypeOK'
    BY <1>1, <1>2 DEF Switch, IInv, Shape, TypeOK, Flow, State
  <2> QED  BY <1>1, <1>2, <1>3, <2>1 DEF Switch, IInv, Shape
<1>6. OneRunning'
  <2>1. \A k \in Idx : procs[k].state # "RUNNING"
    BY <1>1 DEF IInv, OneRunning
  <2> QED  BY <1>1, <1>2, <1>4, <2>1 DEF Switch, OneRunning, Idx
<1>7. PidsDiffer'
  BY <1>3 DEF IInv, PidsDiffer
<1>8. StacksAlive'
  BY <1>1, <1>2, <1>3, <1>4 DEF Switch, IInv, StacksAlive
<1>9. EveryPageOnce'
  BY <1>3, SameStacks DEF Switch, IInv
<1> QED  BY <1>5, <1>6, <1>7, <1>8, <1>9 DEF IInv

LEMMA YieldInv ==
  ASSUME IInv, Yield
  PROVE  IInv'
<1>1. /\ current \in Idx /\ current = i /\ flow = "thread" /\ procs[current].state = "RUNNING"
      /\ procs[current].kstack # 0 /\ runnable
  BY DEF Yield, IInv, Shape, OneRunning, StacksAlive
<1>2. /\ procs'[current] = [procs[current] EXCEPT !.state = "RUNNABLE"]
      /\ \A k \in Idx : k # current => procs'[k] = procs[k]
      /\ procs' \in [Idx -> [pid : Nat, state : State, kstack : Page \cup {0}]]
  BY <1>1 DEF Yield, IInv, Shape, State
<1>3. \A k \in Idx : procs'[k].pid = procs[k].pid /\ procs'[k].kstack = procs[k].kstack
  BY <1>1, <1>2 DEF IInv, Shape
<1>4. procs'[current].state = "RUNNABLE"
  BY <1>1, <1>2 DEF IInv, Shape
<1>5. Shape'
  <2>1. i' \in 1..(NPROC + 1)
    BY <1>1, ConstantFacts DEF Yield, Back, Idx
  <2>2. TypeOK'
    BY <1>2, <2>1 DEF Yield, Back, IInv, Shape, TypeOK, Flow, State
  <2> QED  BY <1>1, <1>2, <1>3, <2>2 DEF Yield, Back, IInv, Shape
<1>6. OneRunning'
  BY <1>1, <1>2, <1>4 DEF Yield, Back, IInv, OneRunning
<1>7. PidsDiffer'
  BY <1>3 DEF IInv, PidsDiffer
<1>8. StacksAlive'
  BY <1>1, <1>2, <1>3, <1>4 DEF Yield, Back, IInv, StacksAlive
<1>9. EveryPageOnce'
  BY <1>3, SameStacks DEF Yield, IInv
<1> QED  BY <1>5, <1>6, <1>7, <1>8, <1>9 DEF IInv

LEMMA KprocExitInv ==
  ASSUME IInv, KprocExit
  PROVE  IInv'
<1> DEFINE p == procs[current].kstack
<1>1. /\ current \in Idx /\ current = i /\ flow = "thread" /\ procs[current].state = "RUNNING"
      /\ p # 0 /\ runnable /\ stack = p
  BY DEF KprocExit, IInv, Shape, OneRunning, StacksAlive
<1>2. /\ procs'[current] = [pid |-> procs[current].pid, state |-> "ZOMBIE", kstack |-> 0]
      /\ \A k \in Idx : k # current => procs'[k] = procs[k]
      /\ procs' \in [Idx -> [pid : Nat, state : State, kstack : Page \cup {0}]]
  BY <1>1 DEF KprocExit, IInv, Shape, State
<1>3. \A k \in Idx : procs'[k].pid = procs[k].pid
  BY <1>1, <1>2 DEF IInv, Shape
<1>4. procs'[current].state = "ZOMBIE" /\ procs'[current].kstack = 0
  BY <1>1, <1>2 DEF IInv, Shape
<1>5. p \in Page /\ p \in Stacks /\ p \notin Elems(freelist) /\ p \notin held
  BY <1>1, PagesAsList DEF IInv, Shape, Stacks
<1>6. freelist' = <<p>> \o freelist /\ UNCHANGED <<next_pid, current, stack, i, runnable, held>>
  BY <1>1 DEF KprocExit
<1> HIDE DEF p
<1>7. /\ freelist' \in Seq(Page) /\ freelist' # <<>> /\ Head(freelist') = p
      /\ NoDup(freelist') /\ Elems(freelist') = Elems(freelist) \cup {p}
  BY <1>5, <1>6, PushFacts, PagesAsList DEF IInv, Shape, TypeOK
<1>8. Shape'
  <2>1. TypeOK'
    BY <1>2, <1>6, <1>7 DEF KprocExit, IInv, Shape, TypeOK, Flow, State
  <2> QED  BY <1>1, <1>2, <1>3, <1>4, <1>6, <2>1 DEF KprocExit, IInv, Shape
<1>9. OneRunning'
  BY <1>1, <1>2, <1>4, <1>6 DEF KprocExit, IInv, OneRunning, Idx
<1>10. PidsDiffer'
  BY <1>3 DEF IInv, PidsDiffer
<1>11. StacksAlive'
  BY <1>1, <1>2, <1>4, <1>6, <1>7 DEF KprocExit, IInv, StacksAlive
<1>12. EveryPageOnce'
  <2>1. \A k \in Idx : k # current => procs[k].kstack # p
    BY <1>1 DEF IInv, EveryPageOnce, p
  <2>2. Stacks' = Stacks \ {p}
    <3>1. \A k \in Idx : procs'[k].kstack = IF k = current THEN 0 ELSE procs[k].kstack
      BY <1>2, <1>4
    <3>2. procs[current].kstack = p
      BY DEF p
    <3> QED  BY <1>1, <2>1, <3>1, <3>2 DEF Stacks
  <2>3. \A j, k \in Idx : procs'[j].kstack = procs'[k].kstack /\ procs'[j].kstack # 0 => j = k
    BY <1>2, <1>4 DEF IInv, EveryPageOnce
  <2> QED  BY <1>5, <1>6, <1>7, <2>2, <2>3, PagesAsList, PagesAsListNext DEF IInv
<1> QED  BY <1>8, <1>9, <1>10, <1>11, <1>12 DEF IInv

LEMMA ExitSwtchInv ==
  ASSUME IInv, ExitSwtch
  PROVE  IInv'
<1>1. current \in Idx /\ current = i /\ flow = "exit" /\ runnable
  BY DEF ExitSwtch, IInv, Shape
<1>2. Shape'
  <2>1. i' \in 1..(NPROC + 1)
    BY <1>1, ConstantFacts DEF ExitSwtch, Back, Idx
  <2> QED  BY <1>1, <2>1 DEF ExitSwtch, Back, IInv, Shape, TypeOK, Flow
<1>3. OneRunning' /\ PidsDiffer' /\ StacksAlive'
  BY <1>1 DEF ExitSwtch, Back, IInv, OneRunning, PidsDiffer, StacksAlive
<1>4. EveryPageOnce'
  BY SameStacks DEF ExitSwtch, IInv
<1> QED  BY <1>2, <1>3, <1>4 DEF IInv

LEMMA StepInv ==
  ASSUME IInv, [Next]_vars
  PROVE  IInv'
<1>1. CASE UNCHANGED vars
  <2>1. Shape'
    BY <1>1 DEF vars, IInv, Shape, TypeOK
  <2>2. OneRunning' /\ PidsDiffer' /\ StacksAlive'
    BY <1>1 DEF vars, IInv, OneRunning, PidsDiffer, StacksAlive
  <2>3. EveryPageOnce'
    BY <1>1, SameStacks DEF vars, IInv
  <2> QED  BY <2>1, <2>2, <2>3 DEF IInv
<1>2. CASE Panicked
  BY <1>1, <1>2 DEF Panicked
<1> QED
  BY <1>1, <1>2, ProcInitInv, KprocCreateInv, AllocPageInv, FreePageInv, SchedulerInv,
     SwitchInv, YieldInv, KprocExitInv, ExitSwtchInv DEF Next

\* The process table agrees with the processor at every switch.
THEOREM TableCorrect == Spec => []TableOK
<1>1. IInv => TableOK
  BY DEF IInv, Shape, TableOK
<1> QED  BY <1>1, InitInv, StepInv, PTL DEF Spec

\* No page is lost or has two users: pages of exited threads come back, once.
THEOREM PagesCorrect == Spec => []EveryPageOnce
<1>1. IInv => EveryPageOnce
  BY DEF IInv
<1> QED  BY <1>1, InitInv, StepInv, PTL DEF Spec

\* Threads run on their own stacks; kproc_exit leaves the freed one in time.
THEOREM StacksCorrect == Spec => []StacksAlive
<1>1. IInv => StacksAlive
  BY DEF IInv
<1> QED  BY <1>1, InitInv, StepInv, PTL DEF Spec

\* scheduler_run leaves its loop after a round in which nobody could run.
LEMMA OnlyRoundReturns ==
  ASSUME IInv, [Next]_vars, flow = "sched", flow' = "main"
  PROVE  Round /\ ~runnable /\ \A k \in Idx : procs[k].state \in {"UNUSED", "ZOMBIE"}
<1>1. Round /\ ~runnable
  BY DEF Next, vars, ProcInit, KprocCreate, AllocPage, FreePage, SchedulerRun, Switch, Skip,
         Round, Yield, KprocExit, ExitSwtch, Back, Panicked
<1>2. ASSUME NEW k \in Idx PROVE procs[k].state \notin {"RUNNABLE", "RUNNING"}
  <2>1. k < i
    BY <1>1, ConstantFacts DEF Round, Idx, IInv, Shape, TypeOK
  <2> QED  BY <1>1, <2>1 DEF IInv, Shape, OneRunning
<1> QED  BY <1>1, <1>2 DEF IInv, Shape, State, Round

\* The scheduler returns only when every thread has exited.
THEOREM SchedulerReturnsWhenDone == Spec => ReturnsWhenDone
<1>1. IInv /\ [Next]_vars =>
        [flow = "sched" /\ flow' = "main" =>
           \A k \in Idx : procs[k].state \in {"UNUSED", "ZOMBIE"}]_vars
  BY OnlyRoundReturns
<1> QED  BY <1>1, InitInv, StepInv, PTL DEF Spec, ReturnsWhenDone
-----------------------------------------------------------------------------
(* The synchronisation test.                                               *)

\* Between the producer's turn and the consumer's there may be an item.
ProducerWasLast ==
  \/ flow = "sched" /\ i = 2
  \/ flow \in {"thread", "exit"} /\ i = 1 /\ at[1] \in {"yield", "exit"}
  \/ flow = "thread" /\ i = 2 /\ at[2] \in {"lock", "locked"}

\* The producer has the first slot and the consumer the second, as proc_init has
\* cleared the table; nobody else runs.
InSlots ==
  /\ NPROC >= 2
  /\ task[1] = "producer" /\ task[2] = "consumer"
  /\ \A k \in Idx : k > 2 => procs[k].state = "UNUSED"

\* While the two tasks run: a thread that waits for its turn is before its lock,
\* one that has exited has seen the end.
Running ==
  /\ flow # "panic" /\ InSlots
  /\ \A k \in {1, 2} :
       /\ procs[k].state # "UNUSED"
       /\ procs[k].state = "RUNNABLE" => at[k] = "lock"
       /\ procs[k].state = "ZOMBIE" => at[k] = "exit"
       /\ flow = "main" => procs[k].state = "ZOMBIE"
  /\ at[1] = "exit" => sbuf.produced = Total
  /\ at[2] = "exit" => sbuf.consumed = Total
  /\ sbuf.count > 0 => ProducerWasLast
  /\ LockFreeAtSwitch

\* Before they run: nothing of the buffer is used.
Waiting ==
  /\ sbuf = Buffer /\ at = [k \in Idx |-> "lock"]
  /\ test = "producer" => flow = "main" /\ \A k \in Idx : procs[k] = NoProc
  /\ test = "consumer" /\ flow # "panic" =>
       /\ flow = "main" /\ 1 \in Idx /\ task[1] = "producer" /\ procs[1].state = "RUNNABLE"
       /\ \A k \in Idx : k > 1 => procs[k].state = "UNUSED"
  /\ test = "run" /\ flow # "panic" =>
       /\ flow = "main" /\ InSlots
       /\ procs[1].state = "RUNNABLE" /\ procs[2].state = "RUNNABLE"

\* The inductive invariant of Proc and the test together.
TestInv ==
  /\ IInv /\ SharedTypeOK /\ OneItemAhead
  /\ test \in {"other", "producer", "consumer", "run"} => Waiting
  /\ test = "check" => Running
  /\ test = "passed" => sbuf.lock = 0
  /\ test # "failed"

\* Whatever the test does, it does on the threads of Proc.
LEMMA PCStepIsStep == [PCNext]_pcVars => [Next]_vars
BY DEF PCNext, pcVars, vars, Next, Other, TestStart, TestCreate, TestRun, TestCheck, Task,
       SpinLock, Produce, Consume, LoopYield, TaskExit, Scheduler, Finished

LEMMA PCInitInv == PCInit => TestInv
<1> SUFFICES ASSUME PCInit PROVE TestInv
  OBVIOUS
<1>1. IInv
  BY InitInv DEF PCInit
<1>2. SharedTypeOK /\ OneItemAhead
  BY TotalAssumption DEF PCInit, SharedTypeOK, OneItemAhead, Buffer
<1>3. Waiting
  BY DEF PCInit, Waiting
<1> QED  BY <1>1, <1>2, <1>3 DEF PCInit, TestInv

\* The steps before the tasks run.
LEMMA OtherInv ==
  ASSUME TestInv, IInv', Other
  PROVE  TestInv'
<1>1. UNCHANGED <<sbuf, task, at, test>> /\ test = "other"
  BY DEF Other
<1> QED  BY <1>1 DEF TestInv, SharedTypeOK, OneItemAhead, Waiting

LEMMA TestStartInv ==
  ASSUME TestInv, IInv', TestStart
  PROVE  TestInv'
<1>1. SharedTypeOK' /\ OneItemAhead'
  BY TotalAssumption DEF TestInv, SharedTypeOK, OneItemAhead, Buffer, TestStart
<1>2. Waiting' /\ test' = "producer"
  BY DEF TestInv, Waiting, TestStart, ProcInit
<1> QED  BY <1>1, <1>2 DEF TestInv

LEMMA TestCreateInv ==
  ASSUME TestInv, IInv', NEW t \in {"producer", "consumer"}, TestCreate(t)
  PROVE  TestInv'
<1> DEFINE k == Min(UnusedIdx)
<1>1. /\ test = t /\ flow = "main" /\ Waiting /\ k \in Idx /\ procs[k].state = "UNUSED"
      /\ \A j \in Idx : procs[j].state = "UNUSED" => k <= j
  <2>1. test = t /\ Waiting /\ flow \in {"main", "thread"} /\ UnusedIdx # {}
    BY DEF TestInv, TestCreate, KprocCreate
  <2>2. flow = "main"
    BY <2>1 DEF Waiting
  <2> QED  BY <2>1, <2>2, FirstUnused DEF UnusedIdx
<1>2. /\ UNCHANGED sbuf /\ task' = [task EXCEPT ![k] = t] /\ at' = [at EXCEPT ![k] = "lock"]
      /\ test' = IF t = "producer" THEN "consumer" ELSE "run"
  BY DEF TestCreate
<1>3. \/ flow' = "panic"
      \/ /\ flow' = "main" /\ procs'[k].state = "RUNNABLE"
         /\ \A j \in Idx : j # k => procs'[j] = procs[j]
  BY <1>1 DEF TestCreate, KprocCreate, TestInv, IInv, Shape
<1>4. \A j \in Idx : j \in Nat /\ j >= 1
  BY ConstantFacts DEF Idx
<1> HIDE DEF k
<1>5. SharedTypeOK' /\ OneItemAhead' /\ at' = at
  BY <1>1, <1>2 DEF TestInv, SharedTypeOK, OneItemAhead, Waiting
<1>6. CASE t = "producer"
  <2>1. 1 \in Idx /\ k = 1
    <3>1. 1 \in Idx
      BY ConstantFacts DEF Idx
    <3> QED  BY <1>1, <1>4, <1>6, <3>1 DEF Waiting, NoProc
  <2>2. task'[1] = "producer"
    BY <1>2, <1>6, <2>1 DEF TestInv, SharedTypeOK
  <2>3. flow' # "panic" => \A j \in Idx : j > 1 => procs'[j].state = "UNUSED"
    BY <1>1, <1>3, <1>6, <2>1 DEF Waiting, NoProc
  <2>4. Waiting' /\ test' = "consumer"
    BY <1>1, <1>2, <1>3, <1>5, <1>6, <2>1, <2>2, <2>3 DEF Waiting
  <2> QED  BY <1>5, <2>4 DEF TestInv
<1>7. CASE t = "consumer"
  <2>1. 1 \in Idx /\ procs[1].state = "RUNNABLE" /\ task[1] = "producer"
        /\ \A j \in Idx : j > 1 => procs[j].state = "UNUSED"
    BY <1>1, <1>7 DEF Waiting
  <2>2. k = 2 /\ NPROC >= 2
    <3>1. k # 1 /\ k >= 2 /\ k <= NPROC
      BY <1>1, <1>4, <2>1, ConstantFacts DEF Idx
    <3>2. 2 \in Idx
      BY <3>1, <1>1, <1>4, ConstantFacts DEF Idx
    <3>3. k <= 2
      BY <1>1, <2>1, <3>2
    <3> QED  BY <3>1, <3>3, <1>1, <1>4, ConstantFacts
  <2>3. task'[1] = "producer" /\ task'[2] = "consumer"
    BY <1>1, <1>2, <1>7, <2>1, <2>2 DEF TestInv, SharedTypeOK
  <2>4. flow' # "panic" =>
          /\ InSlots' /\ flow' = "main"
          /\ procs'[1].state = "RUNNABLE" /\ procs'[2].state = "RUNNABLE"
    <3> SUFFICES ASSUME flow' # "panic" PROVE InSlots' /\ flow' = "main"
          /\ procs'[1].state = "RUNNABLE" /\ procs'[2].state = "RUNNABLE"
      OBVIOUS
    <3>1. \A j \in Idx : j > 2 => procs'[j].state = "UNUSED"
      BY <1>3, <1>4, <2>1, <2>2
    <3>2. procs'[1].state = "RUNNABLE" /\ procs'[2].state = "RUNNABLE" /\ flow' = "main"
      BY <1>3, <2>1, <2>2
    <3> QED  BY <2>2, <2>3, <3>1, <3>2 DEF InSlots
  <2>5. Waiting' /\ test' = "run"
    BY <1>1, <1>2, <1>5, <1>7, <2>4 DEF Waiting
  <2> QED  BY <1>5, <2>5 DEF TestInv
<1> QED  BY <1>6, <1>7

LEMMA TestRunInv ==
  ASSUME TestInv, IInv', TestRun
  PROVE  TestInv'
<1>1. /\ test = "run" /\ test' = "check" /\ flow = "main" /\ flow' = "sched" /\ i' = 1
      /\ UNCHANGED <<procs, sbuf, task, at>>
  BY DEF TestRun, SchedulerRun
<1>2. SharedTypeOK' /\ OneItemAhead'
  BY <1>1 DEF TestInv, SharedTypeOK, OneItemAhead
<1>3. Running'
  <2>1. Waiting /\ InSlots /\ procs[1].state = "RUNNABLE" /\ procs[2].state = "RUNNABLE"
    BY <1>1 DEF TestInv, Waiting
  <2>2. at[1] = "lock" /\ at[2] = "lock" /\ sbuf = Buffer
    BY <2>1, ConstantFacts DEF Waiting, InSlots, Idx
  <2>3. InSlots'
    BY <1>1, <2>1 DEF InSlots
  <2> QED  BY <1>1, <2>1, <2>2, <2>3 DEF Running, LockFreeAtSwitch, Buffer
<1> QED  BY <1>1, <1>2, <1>3 DEF TestInv

LEMMA TestCheckInv ==
  ASSUME TestInv, IInv', TestCheck
  PROVE  TestInv'
<1>1. test = "check" /\ flow = "main" /\ Running /\ UNCHANGED <<sbuf, task, at>>
  BY DEF TestCheck, TestInv
<1>2. sbuf.produced = Total /\ sbuf.consumed = Total /\ sbuf.lock = 0
  BY <1>1 DEF Running, LockFreeAtSwitch, IsAt, TestInv, SharedTypeOK
<1>3. sbuf.count = 0
  BY <1>1, <1>2 DEF TestInv, OneItemAhead, SharedTypeOK
<1>4. test' = "passed"
  BY <1>2, <1>3 DEF TestCheck
<1> QED  BY <1>1, <1>2, <1>4 DEF TestInv, SharedTypeOK, OneItemAhead

\* Who is on the processor while the tasks run.
LEMMA OnProcessor ==
  ASSUME TestInv, test = "check", flow \in {"thread", "exit"}
  PROVE  /\ current = i /\ i \in {1, 2} /\ i \in Idx /\ Running
         /\ flow = "thread" => procs[i].state = "RUNNING"
<1>1. current = i /\ i \in Idx /\ Running
  BY DEF TestInv, IInv, Shape
<1>2. procs[i].state # "UNUSED"
  <2>1. CASE flow = "thread"
    BY <1>1, <2>1 DEF TestInv, IInv, OneRunning, Running
  <2>2. CASE flow = "exit"
    BY <1>1, <2>2 DEF TestInv, IInv, Shape
  <2> QED  BY <2>1, <2>2
<1> QED  BY <1>1, <1>2, ConstantFacts DEF Running, InSlots, Idx, TestInv, IInv, OneRunning

LEMMA SpinLockInv ==
  ASSUME TestInv, IInv', SpinLock
  PROVE  TestInv'
<1>1. /\ test = "check" /\ flow = "thread" /\ at[current] = "lock" /\ test' = "check"
      /\ UNCHANGED task
  BY DEF SpinLock, IsAt
<1>2. current = i /\ i \in {1, 2} /\ i \in Idx /\ Running /\ procs[i].state = "RUNNING"
  BY <1>1, OnProcessor
\* nobody ever finds the lock taken
<1>3. sbuf.lock = 0
  BY <1>1, <1>2 DEF Running, LockFreeAtSwitch, IsAt, TestInv, SharedTypeOK
<1>4. /\ sbuf' = [sbuf EXCEPT !.lock = 1] /\ at' = [at EXCEPT ![i] = "locked"]
      /\ UNCHANGED vars
  BY <1>2, <1>3 DEF SpinLock, GoTo
<1>5. at'[i] = "locked" /\ \A k \in {1, 2} : k # i => at'[k] = at[k]
  BY <1>2, <1>4 DEF TestInv, SharedTypeOK, Running, InSlots, Idx
<1>6. SharedTypeOK' /\ OneItemAhead'
  BY <1>1, <1>2, <1>4 DEF TestInv, SharedTypeOK, OneItemAhead
<1>7. /\ sbuf'.produced = sbuf.produced /\ sbuf'.consumed = sbuf.consumed
      /\ sbuf'.count = sbuf.count
  BY <1>4 DEF TestInv, SharedTypeOK
<1>8. Running'
  <2>1. InSlots'
    BY <1>1, <1>2, <1>4 DEF Running, InSlots, vars
  <2>2. sbuf'.count > 0 => ProducerWasLast'
    BY <1>1, <1>2, <1>4, <1>5, <1>7 DEF Running, ProducerWasLast, vars
  <2> QED  BY <1>1, <1>2, <1>4, <1>5, <1>7, <2>1, <2>2 DEF Running, LockFreeAtSwitch, IsAt, vars
<1> QED  BY <1>1, <1>6, <1>8 DEF TestInv

\* What producer and consumer do under the lock changes nothing but the buffer and
\* where they are.
LEMMA ProduceInv ==
  ASSUME TestInv, IInv', Produce
  PROVE  TestInv'
<1>1. /\ test = "check" /\ flow = "thread" /\ at[current] = "locked" /\ test' = "check"
      /\ UNCHANGED <<vars, task>> /\ task[current] = "producer"
  BY DEF Produce, IsAt
<1>2. current = 1 /\ i = 1 /\ Running /\ procs[1].state = "RUNNING" /\ 1 \in Idx /\ 2 \in Idx
  BY <1>1, OnProcessor, ConstantFacts DEF Running, InSlots, Idx
<1>3. sbuf.count = 0 /\ sbuf.produced = sbuf.consumed
  BY <1>1, <1>2 DEF Running, ProducerWasLast, TestInv, SharedTypeOK, OneItemAhead
<1>4. InSlots'
  BY <1>1, <1>2 DEF Running, InSlots, vars
<1>5. CASE sbuf.produced >= Total
  <2>1. sbuf' = [sbuf EXCEPT !.lock = 0] /\ at' = [at EXCEPT ![1] = "exit"]
    BY <1>2, <1>5 DEF Produce, GoTo
  <2>2. at'[1] = "exit" /\ at'[2] = at[2]
    BY <1>2, <2>1 DEF TestInv, SharedTypeOK
  <2>3. sbuf'.produced = Total /\ sbuf'.consumed = sbuf.consumed /\ sbuf'.count = 0
        /\ sbuf'.lock = 0
    BY <1>3, <1>5, <2>1, TotalAssumption DEF TestInv, SharedTypeOK
  <2>4. SharedTypeOK' /\ OneItemAhead'
    BY <1>1, <1>2, <1>3, <2>1, <2>3 DEF TestInv, SharedTypeOK, OneItemAhead
  <2>5. Running'
    BY <1>1, <1>2, <1>4, <2>2, <2>3 DEF Running, LockFreeAtSwitch, vars
  <2> QED  BY <1>1, <2>4, <2>5 DEF TestInv
<1>6. CASE ~ (sbuf.produced >= Total)
  <2>1. sbuf' = [sbuf EXCEPT !.produced = @ + 1, !.count = @ + 1, !.lock = 0]
        /\ at' = [at EXCEPT ![1] = "yield"]
    BY <1>2, <1>6 DEF Produce, GoTo
  <2>2. at'[1] = "yield" /\ at'[2] = at[2]
    BY <1>2, <2>1 DEF TestInv, SharedTypeOK
  <2>3. sbuf'.produced = sbuf.produced + 1 /\ sbuf'.consumed = sbuf.consumed /\ sbuf'.count = 1
        /\ sbuf'.lock = 0
    BY <1>3, <2>1 DEF TestInv, SharedTypeOK
  <2>4. SharedTypeOK' /\ OneItemAhead'
    <3>1. sbuf.produced \in 0..Total /\ sbuf.consumed \in 0..Total
      BY DEF TestInv, SharedTypeOK
    <3>2. sbuf.produced + 1 \in 0..Total /\ 1 \in 0..Total
      BY <1>6, <3>1, TotalAssumption
    <3>3. sbuf' = [sbuf EXCEPT !.produced = sbuf.produced + 1, !.count = 1, !.lock = 0]
      BY <1>3, <2>1 DEF TestInv, SharedTypeOK
    <3>4. sbuf' \in [produced : 0..Total, consumed : 0..Total, count : 0..Total, lock : 0..1]
      <4> DEFINE T == 0..Total
                 B == 0..1
      <4>1. sbuf \in [produced : T, consumed : T, count : T, lock : B]
        BY DEF TestInv, SharedTypeOK
      <4>2. sbuf.produced + 1 \in T /\ 1 \in T /\ 0 \in B
        BY <3>2
      <4> HIDE DEF T, B
      <4>3. sbuf' \in [produced : T, consumed : T, count : T, lock : B]
        BY <3>3, <4>1, <4>2
      <4> QED  BY <4>3 DEF T, B
    <3>5. at' \in [Idx -> {"lock", "locked", "yield", "exit"}]
      BY <2>1 DEF TestInv, SharedTypeOK
    <3>6. SharedTypeOK'
      BY <1>1, <3>4, <3>5 DEF TestInv, SharedTypeOK
    <3> QED  BY <1>3, <2>3, <3>1, <3>6 DEF OneItemAhead
  <2>5. Running'
    BY <1>1, <1>2, <1>4, <2>2, <2>3 DEF Running, LockFreeAtSwitch, ProducerWasLast, vars
  <2> QED  BY <1>1, <2>4, <2>5 DEF TestInv
<1> QED  BY <1>5, <1>6

LEMMA ConsumeInv ==
  ASSUME TestInv, IInv', Consume
  PROVE  TestInv'
<1>1. /\ test = "check" /\ flow = "thread" /\ at[current] = "locked" /\ test' = "check"
      /\ UNCHANGED <<vars, task>> /\ task[current] = "consumer"
  BY DEF Consume, IsAt
<1>2. current = 2 /\ i = 2 /\ Running /\ procs[2].state = "RUNNING" /\ 1 \in Idx /\ 2 \in Idx
  BY <1>1, OnProcessor, ConstantFacts DEF Running, InSlots, Idx
<1>3. InSlots'
  BY <1>1, <1>2 DEF Running, InSlots, vars
<1> DEFINE new == [produced |-> sbuf.produced, consumed |-> sbuf.consumed + sbuf.count,
                  count |-> 0, lock |-> 0]
<1>4. /\ sbuf \in [produced : 0..Total, consumed : 0..Total, count : 0..Total, lock : 0..1]
       /\ sbuf.count \in {0, 1} /\ sbuf.produced = sbuf.consumed + sbuf.count
  BY TotalAssumption DEF TestInv, SharedTypeOK, OneItemAhead
<1>5. sbuf' = new
  <2>1. CASE sbuf.count = 0
    <3>1. sbuf' = [sbuf EXCEPT !.lock = 0]
      BY <2>1 DEF Consume
    <3>2. sbuf.consumed + sbuf.count = sbuf.consumed
      BY <1>4, <2>1, TotalAssumption
    <3> QED  BY <1>4, <2>1, <3>1, <3>2
  <2>2. CASE sbuf.count = 1
    <3>1. sbuf' = [sbuf EXCEPT !.consumed = sbuf.consumed + 1, !.count = 0, !.lock = 0]
      BY <1>4, <2>2 DEF Consume
    <3> QED  BY <1>4, <2>2, <3>1
  <2> QED  BY <1>4, <2>1, <2>2
<1>6. sbuf'.count = 0 /\ sbuf'.lock = 0 /\ sbuf'.produced = sbuf.produced
      /\ sbuf'.consumed = sbuf.consumed + sbuf.count
  BY <1>5
<1>7. sbuf' \in [produced : 0..Total, consumed : 0..Total, count : 0..Total, lock : 0..1]
  <2>1. sbuf.consumed + sbuf.count \in 0..Total /\ 0 \in 0..Total
    BY <1>4, TotalAssumption
  <2> QED  BY <1>4, <1>5, <2>1
<1>8. \/ at' = [at EXCEPT ![2] = "yield"]
      \/ at' = [at EXCEPT ![2] = "exit"] /\ sbuf'.consumed = Total
  BY <1>2, TotalAssumption DEF Consume, GoTo, TestInv, SharedTypeOK
<1>9. at'[1] = at[1] /\ at'[2] \in {"yield", "exit"} /\ (at'[2] = "exit" => sbuf'.consumed = Total)
      /\ at' \in [Idx -> {"lock", "locked", "yield", "exit"}]
  BY <1>2, <1>8 DEF TestInv, SharedTypeOK
<1>10. SharedTypeOK' /\ OneItemAhead'
  BY <1>1, <1>6, <1>7, <1>9 DEF TestInv, SharedTypeOK, OneItemAhead
<1>11. Running'
  BY <1>1, <1>2, <1>3, <1>6, <1>9 DEF Running, LockFreeAtSwitch, vars
<1> QED  BY <1>1, <1>10, <1>11 DEF TestInv

LEMMA LoopYieldInv ==
  ASSUME TestInv, IInv', LoopYield
  PROVE  TestInv'
<1>1. /\ test = "check" /\ flow = "thread" /\ at[current] = "yield" /\ test' = "check"
      /\ UNCHANGED <<task, sbuf>> /\ Yield
  BY DEF LoopYield, IsAt
<1>2. current = i /\ i \in {1, 2} /\ i \in Idx /\ Running
  BY <1>1, OnProcessor
<1>3. /\ flow' = "sched" /\ i' = i + 1 /\ procs' = [procs EXCEPT ![i].state = "RUNNABLE"]
      /\ at' = [at EXCEPT ![i] = "lock"]
  BY <1>1, <1>2 DEF LoopYield, Yield, Back, GoTo
<1>4. /\ procs'[i].state = "RUNNABLE" /\ \A k \in Idx : k # i => procs'[k] = procs[k]
      /\ at'[i] = "lock" /\ \A k \in Idx : k # i => at'[k] = at[k]
  BY <1>2, <1>3 DEF TestInv, SharedTypeOK, IInv, Shape
<1>5. SharedTypeOK' /\ OneItemAhead'
  BY <1>1, <1>2, <1>3 DEF TestInv, SharedTypeOK, OneItemAhead
<1>6. 1 \in Idx /\ 2 \in Idx /\ InSlots'
  BY <1>1, <1>2, <1>4, ConstantFacts DEF Running, InSlots, Idx
<1>7. sbuf.count > 0 => i = 1
  BY <1>1, <1>2 DEF Running, ProducerWasLast
<1>8. sbuf.lock # 1
  BY <1>1, <1>2 DEF Running, LockFreeAtSwitch, IsAt
<1>9. Running'
  BY <1>1, <1>2, <1>3, <1>4, <1>6, <1>7, <1>8 DEF Running, LockFreeAtSwitch, ProducerWasLast
<1> QED  BY <1>1, <1>5, <1>9 DEF TestInv

LEMMA TaskExitInv ==
  ASSUME TestInv, IInv', TaskExit
  PROVE  TestInv'
<1>1. /\ test = "check" /\ flow = "thread" /\ at[current] = "exit" /\ test' = "check"
      /\ UNCHANGED <<task, sbuf, at>> /\ KprocExit
  BY DEF TaskExit, IsAt
<1>2. current = i /\ i \in {1, 2} /\ i \in Idx /\ Running
  BY <1>1, OnProcessor
<1>3. /\ flow' = "exit" /\ i' = i /\ procs'[i].state = "ZOMBIE"
      /\ \A k \in Idx : k # i => procs'[k] = procs[k]
  BY <1>1, <1>2 DEF KprocExit, TestInv, IInv, Shape
<1>4. SharedTypeOK' /\ OneItemAhead'
  BY <1>1 DEF TestInv, SharedTypeOK, OneItemAhead
<1>5. 1 \in Idx /\ 2 \in Idx /\ InSlots'
  BY <1>1, <1>2, <1>3, ConstantFacts DEF Running, InSlots, Idx
<1>6. sbuf.lock # 1
  BY <1>1, <1>2 DEF Running, LockFreeAtSwitch, IsAt
<1>7. Running'
  BY <1>1, <1>2, <1>3, <1>5, <1>6 DEF Running, LockFreeAtSwitch, ProducerWasLast
<1> QED  BY <1>1, <1>4, <1>7 DEF TestInv

LEMMA SchedulerStepInv ==
  ASSUME TestInv, IInv', Scheduler
  PROVE  TestInv'
<1>1. /\ test = "check" /\ test' = "check" /\ UNCHANGED <<task, sbuf, at>> /\ Running
      /\ 1 \in Idx /\ 2 \in Idx
  BY ConstantFacts DEF Scheduler, TestInv, Running, InSlots, Idx
<1>2. SharedTypeOK' /\ OneItemAhead'
  BY <1>1 DEF TestInv, SharedTypeOK, OneItemAhead
<1>3. CASE Switch
  <2>1. /\ flow = "sched" /\ flow' = "thread" /\ current' = i /\ i' = i /\ i \in Idx
        /\ procs[i].state = "RUNNABLE"
        /\ procs'[i].state = "RUNNING" /\ \A k \in Idx : k # i => procs'[k] = procs[k]
    BY <1>3, ConstantFacts DEF Switch, TestInv, IInv, Shape, TypeOK, Idx
  <2>2. i \in {1, 2} /\ at[i] = "lock"
    BY <1>1, <2>1, ConstantFacts DEF Running, InSlots, Idx
  <2>3. InSlots'
    BY <1>1, <2>1, <2>2 DEF Running, InSlots
  <2>4. sbuf.lock # 1
    BY <1>1, <2>1 DEF Running, LockFreeAtSwitch, IsAt
  <2>5. Running'
    BY <1>1, <2>1, <2>2, <2>3, <2>4 DEF Running, LockFreeAtSwitch, ProducerWasLast
  <2> QED  BY <1>1, <1>2, <2>5 DEF TestInv
<1>4. CASE Skip
  <2>1. /\ flow = "sched" /\ flow' = "sched" /\ i \in Idx /\ i' = i + 1
        /\ procs[i].state # "RUNNABLE" /\ UNCHANGED procs
    BY <1>4, ConstantFacts DEF Skip, TestInv, IInv, Shape, TypeOK, Idx
\* the consumer is not passed over while there is an item
  <2>2. ~ (sbuf.count > 0)
    <3> SUFFICES ASSUME sbuf.count > 0 PROVE FALSE
      OBVIOUS
    <3>1. i = 2
      BY <1>1, <2>1 DEF Running, ProducerWasLast
    <3>2. procs[2].state = "ZOMBIE"
      BY <1>1, <2>1, <3>1 DEF Running, TestInv, IInv, OneRunning, Shape, State
    <3>3. sbuf.consumed = Total
      BY <1>1, <3>2 DEF Running
    <3> QED  BY <3>3, TotalAssumption DEF TestInv, SharedTypeOK, OneItemAhead
  <2>3. InSlots' /\ sbuf.lock # 1
    BY <1>1, <2>1 DEF Running, InSlots, LockFreeAtSwitch, IsAt
  <2>4. Running'
    BY <1>1, <2>1, <2>2, <2>3 DEF Running, LockFreeAtSwitch
  <2> QED  BY <1>1, <1>2, <2>4 DEF TestInv
<1>5. CASE Round
  <2>1. /\ flow = "sched" /\ i > NPROC /\ flow' \in {"sched", "main"} /\ UNCHANGED procs
    BY <1>5 DEF Round
  <2>2. ~ (sbuf.count > 0) /\ sbuf.lock # 1 /\ InSlots'
    BY <1>1, <2>1, ConstantFacts DEF Running, InSlots, ProducerWasLast, LockFreeAtSwitch, IsAt
  <2>3. flow' = "main" => procs[1].state = "ZOMBIE" /\ procs[2].state = "ZOMBIE"
    <3> SUFFICES ASSUME flow' = "main"
                 PROVE  \A k \in {1, 2} : procs[k].state = "ZOMBIE"
      OBVIOUS
    <3>1. \A k \in Idx : procs[k].state \in {"UNUSED", "ZOMBIE"}
      BY <1>5, <2>1, OnlyRoundReturns DEF TestInv, Next
    <3> QED  BY <1>1, <3>1 DEF Running
  <2>4. Running'
    BY <1>1, <2>1, <2>2, <2>3 DEF Running, LockFreeAtSwitch
  <2> QED  BY <1>1, <1>2, <2>4 DEF TestInv
<1>6. CASE ExitSwtch
  <2>1. /\ flow = "exit" /\ flow' = "sched" /\ i' = i + 1 /\ UNCHANGED procs
    BY <1>6 DEF ExitSwtch, Back
  <2>2. i \in {1, 2} /\ (sbuf.count > 0 => i = 1)
    BY <1>1, <2>1, OnProcessor DEF Running, ProducerWasLast
  <2>3. sbuf.lock # 1 /\ InSlots'
    BY <1>1, <2>1 DEF Running, InSlots, LockFreeAtSwitch, IsAt
  <2>4. Running'
    BY <1>1, <2>1, <2>2, <2>3 DEF Running, LockFreeAtSwitch, ProducerWasLast
  <2> QED  BY <1>1, <1>2, <2>4 DEF TestInv
<1> QED  BY <1>3, <1>4, <1>5, <1>6 DEF Scheduler

LEMMA TestStepInv ==
  ASSUME TestInv, [PCNext]_pcVars
  PROVE  TestInv'
<1>1. IInv'
  BY PCStepIsStep, StepInv DEF TestInv
<1>2. CASE UNCHANGED pcVars
  <2>1. /\ UNCHANGED <<procs, current, flow, i>> /\ UNCHANGED <<sbuf, task, at, test>>
    BY <1>2 DEF pcVars
  <2> QED  BY <1>1, <2>1 DEF TestInv, SharedTypeOK, OneItemAhead, Waiting, Running, InSlots,
                             LockFreeAtSwitch, IsAt, ProducerWasLast
<1>3. CASE Finished
  BY <1>2, <1>3 DEF Finished
<1> QED
  BY <1>1, <1>2, <1>3, OtherInv, TestStartInv, TestCreateInv, TestRunInv, TestCheckInv,
     SpinLockInv, ProduceInv, ConsumeInv, LoopYieldInv, TaskExitInv, SchedulerStepInv
  DEF PCNext, Task

\* The test runs on threads that behave as Proc says, so that its theorems are about
\* the test, too.
THEOREM TestRunsOnProc == PCSpec => Spec
<1>1. PCInit => Init
  BY DEF PCInit
<1> QED  BY <1>1, PCStepIsStep, PTL DEF PCSpec, Spec

\* The lock that no atomic instruction guards is free whenever threads change, no item
\* is lost or consumed twice, and the consumer is at most one item behind.
THEOREM BufferCorrect == PCSpec => []BufferSafe
<1>1. TestInv => BufferSafe
  BY ConstantFacts DEF TestInv, BufferSafe, Waiting, Running, Buffer, LockFreeAtSwitch,
                       SharedTypeOK
<1> QED  BY <1>1, PCInitInv, TestStepInv, PTL DEF PCSpec

\* Whenever the scheduler returns to the test, all has been produced and consumed.
THEOREM TestNeverFails == PCSpec => [](test # "failed")
<1>1. TestInv => test # "failed"
  BY DEF TestInv
<1> QED  BY <1>1, PCInitInv, TestStepInv, PTL DEF PCSpec
=============================================================================
