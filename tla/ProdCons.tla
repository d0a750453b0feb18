------------------------------ MODULE ProdCons ------------------------------
(***************************************************************************)
(* test_synchronization (kernel/test.c) on the scheduler of Proc, after    *)
(* other tests have created any threads and taken any pages.  A producer   *)
(* and a consumer share a buffer under a lock that no atomic instruction   *)
(* guards, because a thread loses the processor only where it yields or    *)
(* exits.                                                                  *)
(***************************************************************************)
EXTENDS Proc

CONSTANTS
  Total        \* sbuf.total_items

ASSUME TotalAssumption == Total \in Nat

VARIABLES
  sbuf,        \* the shared buffer and its lock
  task,        \* task[k]: the function the thread in slot k runs
  at,          \* at[k]: where in its loop that thread is
  test         \* where test_synchronization is; other: in an earlier test

pcVars == <<procs, next_pid, current, stack, flow, i, runnable, freelist, held,
            sbuf, task, at, test>>

Buffer == [produced |-> 0, consumed |-> 0, count |-> 0, lock |-> 0]

PCInit ==
  /\ Init
  /\ sbuf = Buffer
  /\ task = [k \in Idx |-> "none"]
  /\ at = [k \in Idx |-> "lock"]
  /\ test = "other"

\* the earlier tests
Other ==
  /\ test = "other"
  /\ Next
  /\ UNCHANGED <<sbuf, task, at, test>>

\* proc_init and shared_buffer_init
TestStart ==
  /\ test = "other"
  /\ ProcInit
  /\ sbuf' = Buffer
  /\ test' = "producer"
  /\ UNCHANGED <<task, at>>

\* the two calls of kproc_create; a thread starts at the top of its function
TestCreate(t) ==
  /\ test = t
  /\ KprocCreate
  /\ task' = [task EXCEPT ![Min(UnusedIdx)] = t]
  /\ at' = [at EXCEPT ![Min(UnusedIdx)] = "lock"]
  /\ test' = IF t = "producer" THEN "consumer" ELSE "run"
  /\ UNCHANGED sbuf

TestRun ==
  /\ test = "run"
  /\ SchedulerRun
  /\ test' = "check"
  /\ UNCHANGED <<sbuf, task, at>>

\* scheduler_run has returned
TestCheck ==
  /\ test = "check" /\ flow = "main"
  /\ test' = IF sbuf.produced = Total /\ sbuf.consumed = Total /\ sbuf.count = 0
               THEN "passed" ELSE "failed"
  /\ UNCHANGED <<vars, sbuf, task, at>>

\* the processor is at a place in the loop of one of the two threads
IsAt(place) == test = "check" /\ flow = "thread" /\ at[current] = place

GoTo(place) == at' = [at EXCEPT ![current] = place]

\* spin_lock: yields for as long as the lock is taken
SpinLock ==
  /\ IsAt("lock")
  /\ IF sbuf.lock # 0
       THEN Yield /\ UNCHANGED <<sbuf, at>>
       ELSE /\ sbuf' = [sbuf EXCEPT !.lock = 1]
            /\ GoTo("locked")
            /\ UNCHANGED vars
  /\ UNCHANGED <<task, test>>

\* mutant of Produce: the break leaves the lock taken
ProduceBreakLocked ==
  /\ IsAt("locked") /\ task[current] = "producer"
  /\ IF sbuf.produced >= Total
       THEN UNCHANGED sbuf /\ GoTo("exit")
       ELSE /\ sbuf' = [sbuf EXCEPT !.produced = @ + 1, !.count = @ + 1, !.lock = 0]
            /\ GoTo("yield")
  /\ UNCHANGED <<vars, task, test>>

\* producer_task between spin_lock and spin_unlock
Produce ==
  /\ IsAt("locked") /\ task[current] = "producer"
  /\ IF sbuf.produced >= Total
       THEN sbuf' = [sbuf EXCEPT !.lock = 0] /\ GoTo("exit")
       ELSE /\ sbuf' = [sbuf EXCEPT !.produced = @ + 1, !.count = @ + 1, !.lock = 0]
            /\ GoTo("yield")
  /\ UNCHANGED <<vars, task, test>>

\* mutant of Consume: no yield behind the unlock
ConsumeNoYield ==
  /\ IsAt("locked") /\ task[current] = "consumer"
  /\ IF sbuf.consumed >= Total /\ sbuf.count = 0
       THEN sbuf' = [sbuf EXCEPT !.lock = 0] /\ GoTo("exit")
       ELSE /\ sbuf' = IF sbuf.count > 0
                         THEN [sbuf EXCEPT !.consumed = @ + 1, !.count = @ - 1, !.lock = 0]
                         ELSE [sbuf EXCEPT !.lock = 0]
            /\ GoTo("lock")
  /\ UNCHANGED <<vars, task, test>>

\* consumer_task between spin_lock and spin_unlock
Consume ==
  /\ IsAt("locked") /\ task[current] = "consumer"
  /\ IF sbuf.consumed >= Total /\ sbuf.count = 0
       THEN sbuf' = [sbuf EXCEPT !.lock = 0] /\ GoTo("exit")
       ELSE /\ sbuf' = IF sbuf.count > 0
                         THEN [sbuf EXCEPT !.consumed = @ + 1, !.count = @ - 1, !.lock = 0]
                         ELSE [sbuf EXCEPT !.lock = 0]
            /\ GoTo("yield")
  /\ UNCHANGED <<vars, task, test>>

\* the yield at the end of either loop
LoopYield ==
  /\ IsAt("yield")
  /\ Yield
  /\ GoTo("lock")
  /\ UNCHANGED <<sbuf, task, test>>

\* behind the break
TaskExit ==
  /\ IsAt("exit")
  /\ KprocExit
  /\ UNCHANGED <<sbuf, task, at, test>>

\* the steps of scheduler_run and of kproc_exit's end
Scheduler ==
  /\ test = "check"
  /\ Switch \/ Skip \/ Round \/ ExitSwtch
  /\ UNCHANGED <<sbuf, task, at, test>>

Finished ==
  /\ test \in {"passed", "failed"}
  /\ UNCHANGED pcVars

Task == SpinLock \/ Produce \/ Consume \/ LoopYield \/ TaskExit

PCNext ==
  \/ Other
  \/ TestStart \/ (\E t \in {"producer", "consumer"} : TestCreate(t))
  \/ TestRun \/ TestCheck
  \/ Task \/ Scheduler \/ Finished

\* What Proc assumes, of the threads of the earlier tests; and the processor does
\* not stop, so that of these two threads nothing need be assumed.
PCSpec ==
  /\ PCInit /\ [][PCNext]_pcVars
  /\ WF_pcVars(test = "other" /\ (Switch \/ Skip \/ Round \/ ExitSwtch)
                 /\ UNCHANGED <<sbuf, task, at, test>>)
  /\ WF_pcVars(test = "other" /\ (Yield \/ KprocExit) /\ UNCHANGED <<sbuf, task, at, test>>)
  /\ WF_pcVars(test # "other" /\ PCNext)
-----------------------------------------------------------------------------
SharedTypeOK ==
  /\ sbuf \in [produced : 0..Total, consumed : 0..Total, count : 0..Total, lock : 0..1]
  /\ task \in [Idx -> {"none", "producer", "consumer"}]
  /\ at \in [Idx -> {"lock", "locked", "yield", "exit"}]
  /\ test \in {"other", "producer", "consumer", "run", "check", "passed", "failed"}

\* The comment above spin_lock: it is safe without atomic instructions because
\* threads change only in yield and kproc_exit.  The lock is taken only while its
\* taker is on the processor, so no thread ever has to wait for it.
LockFreeAtSwitch == sbuf.lock = 1 => IsAt("locked")

\* No item is lost or consumed twice, and the round robin keeps the consumer at
\* most one item behind.
OneItemAhead ==
  /\ sbuf.produced = sbuf.consumed + sbuf.count
  /\ sbuf.count <= 1

\* The buffer and its lock, of test.c's comment above spin_lock, in every state.
BufferSafe == SharedTypeOK /\ LockFreeAtSwitch /\ OneItemAhead

\* Once the test has begun it ends, and prints PASSED: neither thread goes round
\* for ever, whatever the earlier tests have left behind.
TestPasses == test = "producer" ~> test = "passed"
=============================================================================
