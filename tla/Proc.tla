-------------------------------- MODULE Proc --------------------------------
(***************************************************************************)
(* Kernel threads (kernel/proc.c) on stacks from the page allocator        *)
(* (kernel/pmm.c): a process table, a scheduler that goes round it, and    *)
(* threads that give up the processor themselves, by yield or kproc_exit.  *)
(*                                                                         *)
(* One flow of control moves between main's stack, where the test code and *)
(* scheduler_run run, and the stacks of the threads: swtch saves where one *)
(* is and resumes another.  Timer interrupts come back to where they came  *)
(* from and touch none of this.                                            *)
(***************************************************************************)
EXTENDS Naturals, Sequences, FiniteSetsExt

CONSTANTS
  NPROC,       \* NPROC
  NPAGE,       \* the pages between kernel_end and PHYSTOP
  Keep,        \* bound: pages that are allocated for something else
  MaxPid       \* bound: next_pid

ASSUME ProcAssumption ==
  /\ {NPROC, MaxPid} \subseteq Nat \ {0}
  /\ {NPAGE, Keep} \subseteq Nat

\* pages in the order of their addresses
Page == 1..NPAGE

VARIABLES
  procs,     \* procs[i]: pid, state, kstack
  next_pid,
  current,   \* current_proc, an index or 0
  stack,     \* the page of the stack the processor runs on, 0 for main's
  flow,      \* where the processor is, see Flow
  i,         \* scheduler_run's loop variable
  runnable,  \* and its flag
  freelist,  \* kmem.freelist, first page first
  held       \* pages from alloc_page that are no kernel stack

vars == <<procs, next_pid, current, stack, flow, i, runnable, freelist, held>>

\* main: outside of scheduler_run; sched: in its loop; thread: in a thread;
\* exit: in kproc_exit, the stack freed; panic
Flow == {"main", "sched", "thread", "exit", "panic"}
Idx == 1..NPROC
NoProc == [pid |-> 0, state |-> "UNUSED", kstack |-> 0]

\* pmm_init frees every page, the last one last
Init ==
  /\ procs = [k \in Idx |-> NoProc]
  /\ next_pid = 1
  /\ current = 0
  /\ stack = 0
  /\ flow = "main"
  /\ i = 1
  /\ runnable = FALSE
  /\ freelist = [n \in Page |-> NPAGE + 1 - n]
  /\ held = {}

UnusedIdx == {k \in Idx : procs[k].state = "UNUSED"}

\* proc_init; the callers do it when no thread is left
ProcInit ==
  /\ flow = "main"
  /\ \A k \in Idx : procs[k].state \in {"UNUSED", "ZOMBIE"}
  /\ procs' = [k \in Idx |-> NoProc]
  /\ next_pid' = 1
  /\ current' = 0
  /\ UNCHANGED <<stack, flow, i, runnable, freelist, held>>

\* kproc_create, by main before scheduler_run or by a thread
KprocCreate ==
  /\ flow \in {"main", "thread"}
  /\ UnusedIdx # {}                       \* otherwise it returns 0
  /\ next_pid < MaxPid
  /\ LET k == Min(UnusedIdx)
     IN  IF freelist = <<>>
           THEN /\ flow' = "panic"
                /\ UNCHANGED <<procs, freelist>>
           ELSE /\ procs' = [procs EXCEPT ![k] =
                     [pid |-> next_pid, state |-> "RUNNABLE", kstack |-> Head(freelist)]]
                /\ freelist' = Tail(freelist)
                /\ UNCHANGED flow
  /\ next_pid' = next_pid + 1
  /\ UNCHANGED <<current, stack, i, runnable, held>>

\* alloc_page and free_page of other code
AllocPage ==
  /\ flow \in {"main", "thread"}
  /\ freelist # <<>>                      \* otherwise it returns 0
  /\ Cardinality(held) < Keep
  /\ held' = held \cup {Head(freelist)}
  /\ freelist' = Tail(freelist)
  /\ UNCHANGED <<procs, next_pid, current, stack, flow, i, runnable>>

FreePage(p) ==
  /\ flow \in {"main", "thread"}
  /\ p \in held
  /\ held' = held \ {p}
  /\ freelist' = <<p>> \o freelist
  /\ UNCHANGED <<procs, next_pid, current, stack, flow, i, runnable>>

\* scheduler_run is called
SchedulerRun ==
  /\ flow = "main"
  /\ flow' = "sched"
  /\ i' = 1
  /\ runnable' = FALSE
  /\ UNCHANGED <<procs, next_pid, current, stack, freelist, held>>

\* mutant of Switch: the round is not marked as busy
SwitchUnmarked ==
  /\ flow = "sched"
  /\ i <= NPROC
  /\ procs[i].state = "RUNNABLE"
  /\ current' = i
  /\ stack' = procs[i].kstack
  /\ procs' = [procs EXCEPT ![i].state = "RUNNING"]
  /\ flow' = "thread"
  /\ UNCHANGED <<next_pid, i, runnable, freelist, held>>

\* the loop over the table: switch to a runnable thread, or go on
Switch ==
  /\ flow = "sched"
  /\ i <= NPROC
  /\ procs[i].state = "RUNNABLE"
  /\ runnable' = TRUE
  /\ current' = i
  /\ stack' = procs[i].kstack             \* sp of the thread's context
  /\ procs' = [procs EXCEPT ![i].state = "RUNNING"]
  /\ flow' = "thread"
  /\ UNCHANGED <<next_pid, i, freelist, held>>

Skip ==
  /\ flow = "sched"
  /\ i <= NPROC
  /\ procs[i].state # "RUNNABLE"
  /\ i' = i + 1
  /\ UNCHANGED <<procs, next_pid, current, stack, flow, runnable, freelist, held>>

\* the end of a round: another one, or return
Round ==
  /\ flow = "sched"
  /\ i > NPROC
  /\ IF runnable THEN i' = 1 /\ runnable' = FALSE /\ UNCHANGED flow
     ELSE flow' = "main" /\ UNCHANGED <<i, runnable>>
  /\ UNCHANGED <<procs, next_pid, current, stack, freelist, held>>

\* mutant of Back: current_proc stays
BackKeepsCurrent ==
  /\ flow' = "sched"
  /\ stack' = 0
  /\ i' = i + 1
  /\ UNCHANGED current

\* mutant of Back: the search starts again at the first thread
BackToFirst ==
  /\ flow' = "sched"
  /\ current' = 0
  /\ stack' = 0
  /\ i' = 1

\* back in scheduler_run after swtch
Back ==
  /\ flow' = "sched"
  /\ current' = 0
  /\ stack' = 0
  /\ i' = i + 1

Yield ==
  /\ flow = "thread"
  /\ procs' = [procs EXCEPT ![current].state = "RUNNABLE"]
  /\ Back
  /\ UNCHANGED <<next_pid, runnable, freelist, held>>

\* mutant of KprocExit: kstack keeps the address of the freed page
KprocExitKeeps ==
  /\ flow = "thread"
  /\ procs' = [procs EXCEPT ![current].state = "ZOMBIE"]
  /\ freelist' = <<procs[current].kstack>> \o freelist
  /\ flow' = "exit"
  /\ UNCHANGED <<next_pid, current, stack, i, runnable, held>>

\* mutant of KprocExit: the thread stays runnable
KprocExitRunnable ==
  /\ flow = "thread"
  /\ procs' = [procs EXCEPT ![current].state = "RUNNABLE", ![current].kstack = 0]
  /\ freelist' = <<procs[current].kstack>> \o freelist
  /\ flow' = "exit"
  /\ UNCHANGED <<next_pid, current, stack, i, runnable, held>>

\* kproc_exit frees the stack it runs on
KprocExit ==
  /\ flow = "thread"
  /\ procs' = [procs EXCEPT ![current].state = "ZOMBIE", ![current].kstack = 0]
  /\ freelist' = IF procs[current].kstack # 0
                   THEN <<procs[current].kstack>> \o freelist ELSE freelist
  /\ flow' = "exit"
  /\ UNCHANGED <<next_pid, current, stack, i, runnable, held>>

\* and then leaves it
ExitSwtch ==
  /\ flow = "exit"
  /\ Back
  /\ UNCHANGED <<procs, next_pid, runnable, freelist, held>>

\* panic() loops
Panicked ==
  /\ flow = "panic"
  /\ UNCHANGED vars

Next ==
  \/ ProcInit \/ KprocCreate
  \/ AllocPage \/ \E p \in held : FreePage(p)
  \/ SchedulerRun \/ Switch \/ Skip \/ Round
  \/ Yield \/ KprocExit \/ ExitSwtch
  \/ Panicked

Spec == Init /\ [][Next]_vars

\* The processor does not stop: the scheduler and kproc_exit go on, and every
\* thread comes to its next yield or to its exit, as cooperative threads must.
Fairness ==
  /\ WF_vars(Switch \/ Skip \/ Round \/ ExitSwtch)
  /\ WF_vars(Yield \/ KprocExit)

FairSpec == Spec /\ Fairness
-----------------------------------------------------------------------------
Stacks == {procs[k].kstack : k \in Idx} \ {0}
FreePages == {freelist[n] : n \in 1..Len(freelist)}

TypeOK ==
  /\ \A k \in Idx :
       /\ procs[k].pid \in Nat
       /\ procs[k].state \in {"UNUSED", "RUNNABLE", "RUNNING", "ZOMBIE"}
       /\ procs[k].kstack \in Page \cup {0}
  /\ next_pid \in 1..MaxPid
  /\ current \in Idx \cup {0}
  /\ stack \in Page \cup {0}
  /\ flow \in Flow
  /\ i \in 1..(NPROC + 1)
  /\ runnable \in BOOLEAN
  /\ freelist \in Seq(Page)
  /\ held \subseteq Page

\* A page is free, a kernel stack or in other use, and never two of these or two
\* stacks at once: threads that exit give back theirs, once.
EveryPageOnce ==
  /\ \A m, n \in 1..Len(freelist) : freelist[m] = freelist[n] => m = n
  /\ \A j, k \in Idx : procs[j].kstack = procs[k].kstack /\ procs[j].kstack # 0 => j = k
  /\ FreePages \cap Stacks = {} /\ FreePages \cap held = {} /\ Stacks \cap held = {}
  /\ FreePages \cup Stacks \cup held = Page

\* A thread that can run again has a stack, a thread runs on its own, and the
\* only code that ever runs on a freed stack is the rest of kproc_exit, which
\* leaves it as the first free page: nobody gets it before the thread is off it.
StacksAlive ==
  /\ \A k \in Idx : procs[k].state \in {"RUNNABLE", "RUNNING"} <=> procs[k].kstack # 0
  /\ flow = "thread" => stack = procs[current].kstack
  /\ flow = "exit" => freelist # <<>> /\ stack = Head(freelist)
  /\ flow \in {"main", "sched"} => stack = 0

\* The process table agrees with the processor.
OneRunning ==
  flow # "panic" =>
    /\ \A k \in Idx : procs[k].state = "RUNNING" <=> flow = "thread" /\ current = k
    /\ flow \in {"thread", "exit"} <=> current # 0

\* Pids of the threads in the table differ.
PidsDiffer ==
  \A j, k \in Idx : procs[j].pid = procs[k].pid /\ procs[j].pid # 0 => j = k

\* The process table: its fields have their types, no two threads have one pid, and
\* it agrees with current_proc and the processor at every switch.
TableOK == TypeOK /\ OneRunning /\ PidsDiffer

\* scheduler_run returns only when every thread has exited, those included that
\* a thread created behind the scheduler's back.
ReturnsWhenDone ==
  [][flow = "sched" /\ flow' = "main" =>
       \A k \in Idx : procs[k].state \in {"UNUSED", "ZOMBIE"}]_vars

\* Round robin: a runnable thread gets the processor however the others behave.
NoStarvation ==
  \A k \in Idx :
    flow \in {"sched", "thread", "exit"} /\ procs[k].state = "RUNNABLE"
      ~> procs[k].state = "RUNNING" \/ flow = "panic"
=============================================================================
