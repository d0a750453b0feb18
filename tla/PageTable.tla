----------------------------- MODULE PageTable ------------------------------
(***************************************************************************)
(* The kernel's page table (kernel/vm.c): a tree of three levels whose     *)
(* tables are pages of the page allocator (kernel/pmm.c).  kvminit builds  *)
(* the identity map of memory and UART, kvminithart turns paging on, and   *)
(* map_page adds single pages.  Nothing ever unmaps a page or frees a      *)
(* table.                                                                  *)
(*                                                                         *)
(* Addresses are numbers.  Page are the pages that the allocator manages.  *)
(* Other code allocates pages, writes anything into them and gives them    *)
(* back with what it has written.                                          *)
(***************************************************************************)
EXTENDS Naturals, Sequences, FiniteSets

CONSTANTS
  PGSIZE,                    \* PGSIZE
  FANOUT,                    \* entries of a table, 512 in the code
  KERNBASE, PHYSTOP, UART0,  \* include/memlayout.h
  kernel_end,                \* the end of the kernel, rounded up to a page
  Keep,                      \* bound: pages other code holds at once
  CallVA, CallPA             \* bound: addresses that callers give map_page

MAXVA == (FANOUT * FANOUT * FANOUT * PGSIZE) \div 2
Idx == 0..(FANOUT - 1)
Aligned(a) == a % PGSIZE = 0
PagesOf(from, to) == {a \in from..(to - 1) : Aligned(a)}

ASSUME PageTableAssumption ==
  /\ PGSIZE \in Nat \ {0} /\ FANOUT \in Nat \ {0} /\ Keep \in Nat
  /\ {KERNBASE, PHYSTOP, UART0} \subseteq {a \in 1..MAXVA : Aligned(a)}
  /\ kernel_end \in PagesOf(KERNBASE, PHYSTOP)
  /\ UART0 \notin KERNBASE..(PHYSTOP - 1) /\ UART0 < MAXVA
  /\ CallVA \subseteq Nat /\ CallPA \subseteq Nat

\* pmm_init frees the pages from kernel_end on, the last one last
Page == PagesOf(kernel_end, PHYSTOP)
NPage == (PHYSTOP - kernel_end) \div PGSIZE

VARIABLES
  mem,       \* contents of the pages, read as tables
  freelist,  \* kmem.freelist
  held,      \* pages other code has from alloc_page
  root,      \* kernel_pagetable
  satp,      \* the table the processor uses, 0 before paging is on
  pc,        \* start, kernel, uart (in kvmmap), ready, panic
  job        \* kvmmap's loop: next address, last address, target, permissions

vars == <<mem, freelist, held, root, satp, pc, job>>

\* a valid entry without permissions leads to the next level
Pte(pa, perm) == [valid |-> TRUE, pa |-> pa, perm |-> perm]
NoPte == [valid |-> FALSE, pa |-> 0, perm |-> {}]
ZeroTable == [i \in Idx |-> NoPte]

\* what other code leaves in a page; free_page stores an aligned address, whose
\* valid bit is 0, in the first word
Litter ==
  [i \in Idx |-> IF i = 0 THEN NoPte ELSE Pte(CHOOSE p \in Page : TRUE, {"R"})]

RW == {"R", "W"}
RWX == {"R", "W", "X"}

Job(from, size, perm) ==
  [a |-> from, last |-> from + size - PGSIZE, pa |-> from, perm |-> perm]
-----------------------------------------------------------------------------
Px(level, va) ==
  (va \div (PGSIZE * (CASE level = 0 -> 1 [] level = 1 -> FANOUT
                        [] level = 2 -> FANOUT * FANOUT))) % FANOUT

\* mutant of Descend: the new table is not cleared
DescendDirty(w, level, va) ==
  LET i == Px(level, va)
  IN  CASE w.pt = 0 -> w
        [] w.pt # 0 /\ w.mem[w.pt][i].valid -> [w EXCEPT !.pt = w.mem[w.pt][i].pa]
        [] OTHER ->
             IF w.free = <<>> THEN [w EXCEPT !.pt = 0]
             ELSE [mem |-> [w.mem EXCEPT ![w.pt][i] = Pte(Head(w.free), {})],
                   free |-> Tail(w.free), pt |-> Head(w.free)]

\* mutant of Descend: when there is no page for the second table, a first one that
\* is new is given back, but the entry that leads to it stays
DescendGivesBack(w, level, va) ==
  LET i == Px(level, va)
      new == level = 1 /\ w.mem[w.pt] = ZeroTable
  IN  CASE w.pt = 0 -> w
        [] w.pt # 0 /\ w.mem[w.pt][i].valid -> [w EXCEPT !.pt = w.mem[w.pt][i].pa]
        [] OTHER ->
             IF w.free = <<>> THEN [w EXCEPT !.pt = 0, !.free = IF new THEN <<w.pt>> ELSE @]
             ELSE [mem |-> [w.mem EXCEPT ![Head(w.free)] = ZeroTable,
                                         ![w.pt][i] = Pte(Head(w.free), {})],
                   free |-> Tail(w.free), pt |-> Head(w.free)]

\* one level of walk: to the next table, which is allocated when there is none.
\* pt = 0 stands for the return of 0
Descend(w, level, va) ==
  LET i == Px(level, va)
  IN  CASE w.pt = 0 -> w
        [] w.pt # 0 /\ w.mem[w.pt][i].valid -> [w EXCEPT !.pt = w.mem[w.pt][i].pa]
        [] OTHER ->
             IF w.free = <<>> THEN [w EXCEPT !.pt = 0]
             ELSE [mem |-> [w.mem EXCEPT ![Head(w.free)] = ZeroTable,
                                         ![w.pt][i] = Pte(Head(w.free), {})],
                   free |-> Tail(w.free), pt |-> Head(w.free)]

\* walk with alloc set, for an address below MAXVA
Walk(va) ==
  Descend(Descend([mem |-> mem, free |-> freelist, pt |-> root], 2, va), 1, va)

\* mutant of Mappage: an address that is mapped gets the new page
MappageAgain(va, pa, perm, ret) ==
  IF ~Aligned(va) \/ ~Aligned(pa) \/ va >= MAXVA
    THEN ret = "panic" /\ UNCHANGED <<mem, freelist>>
    ELSE LET w == Walk(va)
         IN  /\ freelist' = w.free
             /\ IF w.pt = 0 THEN ret = "fail" /\ mem' = w.mem
                ELSE ret = "ok" /\ mem' = [w.mem EXCEPT ![w.pt][Px(0, va)] = Pte(pa, perm)]

\* mappage, with what it returns; tables it has allocated stay when it fails
Mappage(va, pa, perm, ret) ==
  IF ~Aligned(va) \/ ~Aligned(pa) \/ va >= MAXVA
    THEN ret = "panic" /\ UNCHANGED <<mem, freelist>>
    ELSE LET w == Walk(va)
         IN  /\ freelist' = w.free
             /\ IF w.pt = 0 THEN ret = "fail" /\ mem' = w.mem
                ELSE IF w.mem[w.pt][Px(0, va)].valid THEN ret = "panic" /\ mem' = w.mem
                ELSE ret = "ok" /\ mem' = [w.mem EXCEPT ![w.pt][Px(0, va)] = Pte(pa, perm)]
-----------------------------------------------------------------------------
\* after pmm_init
Init ==
  /\ mem = [p \in Page |-> ZeroTable]
  /\ freelist = [n \in 1..NPage |-> PHYSTOP - n * PGSIZE]
  /\ held = {}
  /\ root = 0
  /\ satp = 0
  /\ pc = "start"
  /\ job = Job(KERNBASE, PGSIZE, {})

\* alloc_page and free_page of other code, when no call of vm.c is under way
AllocPage ==
  /\ pc \in {"start", "ready"}
  /\ freelist # <<>>
  /\ Cardinality(held) < Keep
  /\ held' = held \cup {Head(freelist)}
  /\ freelist' = Tail(freelist)
  /\ UNCHANGED <<mem, root, satp, pc, job>>

FreePage(p) ==
  /\ pc \in {"start", "ready"}
  /\ p \in held
  /\ held' = held \ {p}
  /\ mem' = [mem EXCEPT ![p] = Litter]
  /\ freelist' = <<p>> \o freelist
  /\ UNCHANGED <<root, satp, pc, job>>

\* kvminit up to its first kvmmap, with create_pagetable
Kvminit ==
  /\ pc = "start"
  /\ IF freelist = <<>>
       THEN /\ pc' = "panic"
            /\ UNCHANGED <<mem, freelist, root, job>>
       ELSE /\ root' = Head(freelist)
            /\ freelist' = Tail(freelist)
            /\ mem' = [mem EXCEPT ![Head(freelist)] = ZeroTable]
            /\ job' = Job(KERNBASE, PHYSTOP - KERNBASE, RWX)
            /\ pc' = "kernel"
  /\ UNCHANGED <<held, satp>>

\* mutant of Kvmmap: the loop ends when it comes to the last page
KvmmapShort ==
  /\ pc \in {"kernel", "uart"}
  /\ IF job.a = job.last
       THEN /\ IF pc = "kernel" THEN pc' = "uart" /\ job' = Job(UART0, PGSIZE, RW)
               ELSE pc' = "ready" /\ UNCHANGED job
            /\ UNCHANGED <<mem, freelist>>
       ELSE /\ Mappage(job.a, job.pa, job.perm, "ok")
            /\ job' = [job EXCEPT !.a = @ + PGSIZE, !.pa = @ + PGSIZE]
            /\ UNCHANGED pc
  /\ UNCHANGED <<held, root, satp>>

\* mutant of Kvmmap: the loop looks for the end behind the last page
KvmmapPast ==
  /\ pc \in {"kernel", "uart"}
  /\ \/ /\ Mappage(job.a, job.pa, job.perm, "ok")
        /\ job' = [job EXCEPT !.a = @ + PGSIZE, !.pa = @ + PGSIZE]
        /\ UNCHANGED pc
     \/ /\ Mappage(job.a, job.pa, job.perm, "panic")
        /\ pc' = "panic"
        /\ UNCHANGED job
  /\ UNCHANGED <<held, root, satp>>

\* one round of kvmmap; kvminit maps memory and then the UART
Kvmmap ==
  /\ pc \in {"kernel", "uart"}
  /\ \/ /\ Mappage(job.a, job.pa, job.perm, "ok")
        /\ IF job.a # job.last
             THEN job' = [job EXCEPT !.a = @ + PGSIZE, !.pa = @ + PGSIZE] /\ UNCHANGED pc
             ELSE IF pc = "kernel" THEN pc' = "uart" /\ job' = Job(UART0, PGSIZE, RW)
             ELSE pc' = "ready" /\ UNCHANGED job
     \/ /\ \E ret \in {"fail", "panic"} : Mappage(job.a, job.pa, job.perm, ret)
        /\ pc' = "panic"
        /\ UNCHANGED job
  /\ UNCHANGED <<held, root, satp>>

Kvminithart ==
  /\ pc = "ready"
  /\ satp' = root
  /\ UNCHANGED <<mem, freelist, held, root, pc, job>>

\* map_page of the kernel's table
MapPage(va, pa, perm) ==
  /\ pc = "ready"
  /\ \/ /\ \E ret \in {"ok", "fail"} : Mappage(va, pa, perm, ret)
        /\ UNCHANGED pc
     \/ /\ Mappage(va, pa, perm, "panic")
        /\ pc' = "panic"
  /\ UNCHANGED <<held, root, satp, job>>

\* panic() loops
Panicked ==
  /\ pc = "panic"
  /\ UNCHANGED vars

Next ==
  \/ AllocPage \/ \E p \in held : FreePage(p)
  \/ Kvminit \/ Kvmmap \/ Kvminithart
  \/ \E va \in CallVA, pa \in CallPA : MapPage(va, pa, RW)
  \/ Panicked

Spec == Init /\ [][Next]_vars
-----------------------------------------------------------------------------
\* the tables of a level, and what the processor finds for a page
Entries(tables) == {e \in tables \X Idx : mem[e[1]][e[2]].valid}
Below(tables) == {mem[e[1]][e[2]].pa : e \in Entries(tables)}
Level2 == IF root = 0 THEN {} ELSE {root}
Level1 == Below(Level2)
Level0 == Below(Level1)
Tables == Level2 \cup Level1 \cup Level0

Translate(va) ==
  IF root = 0 THEN NoPte
  ELSE LET two == mem[root][Px(2, va)]
       IN  IF ~two.valid THEN NoPte
           ELSE LET one == mem[two.pa][Px(1, va)]
                IN  IF ~one.valid THEN NoPte ELSE mem[one.pa][Px(0, va)]

VPage == PagesOf(0, MAXVA)
Space ==
  [va \in {v \in VPage : Translate(v).valid} |->
     [pa |-> Translate(va).pa, perm |-> Translate(va).perm]]

KernelMap ==
  [va \in PagesOf(KERNBASE, PHYSTOP) \cup {UART0} |->
     [pa |-> va, perm |-> IF va = UART0 THEN RW ELSE RWX]]

FreePages == {freelist[n] : n \in 1..Len(freelist)}

TypeOK ==
  /\ \A p \in Page, i \in Idx :
       /\ mem[p][i].valid \in BOOLEAN
       /\ Aligned(mem[p][i].pa)
       /\ mem[p][i].perm \subseteq RWX
  /\ freelist \in Seq(Page)
  /\ held \subseteq Page
  /\ root \in Page \cup {0}
  /\ satp \in {0, root}
  /\ pc \in {"start", "kernel", "uart", "ready", "panic"}
  /\ Aligned(job.a) /\ Aligned(job.pa)

\* Every page is free, in other use or a table, and a table is in the tree at one
\* place only: walk loses no page when memory runs out half way down, and never
\* follows an entry that is left over from the page's last use.
PagesAccounted ==
  /\ \A m, n \in 1..Len(freelist) : freelist[m] = freelist[n] => m = n
  /\ FreePages \cap held = {} /\ FreePages \cap Tables = {} /\ held \cap Tables = {}
  /\ FreePages \cup held \cup Tables = Page
  /\ \A m, n \in Entries(Level2 \cup Level1) : mem[m[1]][m[2]].pa = mem[n[1]][n[2]].pa => m = n

\* The processor does not take an inner entry for the map of a large page, and
\* the entries of the last level are no pointers.
LevelsDiffer ==
  /\ \A t \in Level2 \cup Level1, i \in Idx : mem[t][i].perm = {}
  /\ \A t \in Level0, i \in Idx : mem[t][i].valid <=> mem[t][i].perm # {}

\* The tables in memory are a tree with all pages accounted for at every moment.
TreeSound == TypeOK /\ PagesAccounted /\ LevelsDiffer

\* From the end of kvminit on all memory, the page tables included, and the UART
\* are mapped to themselves: paging can be turned on, and tables be walked and
\* printed with paging on, whatever map_page has added, also in a panic.
KernelMapped ==
  pc = "ready" \/ satp # 0 => \A va \in DOMAIN KernelMap :
    va \in DOMAIN Space /\ Space[va] = KernelMap[va]

\* kvminit maps nothing else; kvmmap, which compares for equality, ends with its
\* last page; and kvminit panics only when there is no page left.
KvminitExact ==
  [][/\ pc = "uart" /\ pc' = "ready" => Space' = KernelMap
     /\ pc # "ready" /\ pc' = "panic" => freelist' = <<>>]_vars

\* Walking and allocating tables is invisible: each call of mappage adds one page
\* to the address space or nothing.
AS == INSTANCE AddressSpace WITH
        space <- Space, PPage <- VPage \cup CallPA, Permission <- {RW, RWX}

ImplementsAddressSpace == AS!ASSpec
=============================================================================
