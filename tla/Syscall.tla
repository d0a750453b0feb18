------------------------------ MODULE Syscall -------------------------------
(***************************************************************************)
(* System calls (kernel/syscall.c, sysproc.c): a frame of registers, the   *)
(* table of handlers, the conversions of arguments and results, and the    *)
(* handlers of processes.  Of the file handlers there is read, for what it *)
(* makes of its count; the others are in FileSys.  Timer interrupts come   *)
(* during a call.                                                          *)
(*                                                                         *)
(* An int has UInt values, a register or ticks ULong.                      *)
(***************************************************************************)
EXTENDS Integers, Sequences

CONSTANTS
  UInt, ULong,        \* 2^32 and 2^64 in the code
  Num,                \* bound: what callers put into a7
  Word,               \* bound: what callers put into a0 to a2
  Pid,                \* bound: pids of current_proc
  Max,                \* sizeof(buf) of sys_test_str, 64 in the code
  StrLen(_),          \* length of the string at an address
  Size                \* size of the file that is read, at most MAXFILE * BSIZE

INT_MAX == UInt \div 2 - 1

ASSUME SyscallAssumption ==
  /\ UInt \in Nat /\ UInt > 2 /\ UInt % 2 = 0
  /\ ULong \in Nat /\ ULong > UInt /\ ULong % UInt = 0
  /\ Num \subseteq 0..(ULong - 1) /\ Word \subseteq 0..(ULong - 1)
  /\ Pid \subseteq 1..INT_MAX /\ Max \in 1..INT_MAX
  /\ Size \in 0..INT_MAX
  /\ \A w \in 0..(ULong - 1) : StrLen(w) \in Nat

VARIABLES
  cur,    \* cur_frame is set
  frame,  \* the frame
  pc,     \* idle, a handler, waiting (in sys_pause), return
  ret,    \* ret
  pid,    \* current_proc->pid, 0 for no process
  ticks,  \* ticks
  start,  \* start of sys_pause
  off,    \* f->off of the file
  call,   \* history: frame, ticks and offset when the call began
  waited  \* history: ticks since sys_pause has read start

vars == <<cur, frame, pc, ret, pid, ticks, start, off, call, waited>>

\* (int) of a register, and (uint64) of an int
AsInt(w) == LET low == w % UInt IN IF low > INT_MAX THEN low - UInt ELSE low
Extend(i) == i % ULong

\* syscalls[], as far as it is modelled
Table == <<"getpid", "uptime", "pause", "test_add", "test_str", "read">>

Handler(w) == IF AsInt(w) \in DOMAIN Table THEN Table[AsInt(w)] ELSE "unknown"

NoFrame == [a0 |-> 0, a1 |-> 0, a2 |-> 0, a7 |-> 0]
NoCall == [frame |-> NoFrame, ticks |-> 0, off |-> 0]

Init ==
  /\ cur = FALSE /\ pc = "idle" /\ ret = 0 /\ ticks = 0 /\ start = 0 /\ off = 0
  /\ pid \in {0} \cup Pid
  /\ frame = NoFrame /\ call = NoCall
  /\ waited = 0

\* do_syscall of test.c and syscall up to the handler
Call(a7, a0, a1, a2) ==
  /\ pc = "idle"
  /\ frame' = [a0 |-> a0, a1 |-> a1, a2 |-> a2, a7 |-> a7]
  /\ cur' = TRUE
  /\ pc' = Handler(a7)
  /\ call' = [frame |-> frame', ticks |-> ticks, off |-> off]
  /\ UNCHANGED <<ret, pid, ticks, start, off, waited>>

\* mutant of Argint: the number is not taken for a signed one
ArgintRaw(a) == frame[a] % UInt

Argint(a) == AsInt(frame[a])

\* a handler comes to its end with result r
Ends(name, r) ==
  /\ pc = name
  /\ ret' = r
  /\ pc' = "return"
  /\ UNCHANGED <<cur, frame, pid, ticks, call>>

SysGetpid == Ends("getpid", Extend(pid)) /\ UNCHANGED <<start, off, waited>>

SysUptime == Ends("uptime", ticks) /\ UNCHANGED <<start, off, waited>>

SysPause ==
  /\ pc = "pause"
  /\ pc' = "waiting"
  /\ start' = ticks
  /\ waited' = 0
  /\ UNCHANGED <<cur, frame, ret, pid, ticks, off, call>>

\* mutant of PauseOver: a negative count is not set to 0
PauseOverNegative == (ticks + ULong - start) % ULong >= Extend(Argint("a0"))

\* the condition that ends the loop of sys_pause
PauseOver ==
  (ticks + ULong - start) % ULong >= IF Argint("a0") < 0 THEN 0 ELSE Argint("a0")

SysPauseEnds == PauseOver /\ Ends("waiting", 0) /\ UNCHANGED <<start, off, waited>>

\* x + y of two int; a sum that is too large is undefined
SysTestAdd ==
  /\ LET sum == Argint("a0") + Argint("a1")
     IN  IF sum \in (-INT_MAX - 1)..INT_MAX
           THEN Ends("test_add", Extend(sum))
           ELSE \E any \in 0..(UInt - 1) : Ends("test_add", Extend(AsInt(any)))
  /\ UNCHANGED <<start, off, waited>>

\* the length of what argstr stores; a longer string is cut
Argstr(addr, max) ==
  IF addr = 0 \/ max <= 0 THEN -1
  ELSE IF StrLen(addr) < max - 1 THEN StrLen(addr) ELSE max - 1

SysTestStr == Ends("test_str", Extend(Argstr(frame.a0, Max))) /\ UNCHANGED <<start, off, waited>>

\* what readi returns for an unsigned count n
Readi(o, n) ==
  IF o > Size \/ (o + n) % UInt < o THEN 0
  ELSE IF (o + n) % UInt > Size THEN Size - o ELSE n

\* sys_read and fileread of an open file
SysRead ==
  LET r == AsInt(Readi(off, Argint("a2") % UInt))
  IN  /\ Ends("read", Extend(r))
      /\ off' = IF r > 0 THEN off + r ELSE off
      /\ UNCHANGED <<start, waited>>

Unknown == Ends("unknown", Extend(-1)) /\ UNCHANGED <<start, off, waited>>

\* the end of syscall puts ret into a0, where the caller reads it; do_syscall writes
\* all registers of the frame anew, and what is local to the call is gone
Return ==
  /\ pc = "return"
  /\ frame' = NoFrame
  /\ cur' = FALSE
  /\ pc' = "idle"
  /\ ret' = 0 /\ start' = 0 /\ waited' = 0 /\ call' = NoCall
  /\ UNCHANGED <<pid, ticks, off>>

\* clockintr, where it can make a difference.  sys_pause looks at ticks more often
\* than they come, and sys_uptime ends before the counter has gone around
Tick ==
  /\ pc \in {"idle", "uptime", "waiting"}
  /\ pc = "waiting" => ~PauseOver
  /\ pc = "uptime" => (ticks + 1) % ULong # call.ticks
  /\ ticks' = (ticks + 1) % ULong
  /\ waited' = IF pc = "waiting" THEN waited + 1 ELSE waited
  /\ UNCHANGED <<cur, frame, pc, ret, pid, start, off, call>>

\* the tests open the file anew, and set current_proc
Reopen ==
  /\ pc = "idle"
  /\ off' = 0
  /\ pid' \in {0} \cup Pid
  /\ UNCHANGED <<cur, frame, pc, ret, ticks, start, call, waited>>

Next ==
  \/ \E a7 \in Num, a0, a1 \in Word : Call(a7, a0, a1, a1)
  \/ SysGetpid \/ SysUptime \/ SysPause \/ SysPauseEnds \/ SysTestAdd \/ SysTestStr
  \/ SysRead \/ Unknown \/ Return \/ Tick \/ Reopen

Spec == Init /\ [][Next]_vars
-----------------------------------------------------------------------------
Registers == [a0 : 0..(ULong - 1), a1 : 0..(ULong - 1), a2 : 0..(ULong - 1), a7 : 0..(ULong - 1)]

\* cur_frame is set during a call and only then: a handler always finds its
\* arguments, and none is left over for the next call.
TypeOK ==
  /\ cur = (pc # "idle")
  /\ frame \in Registers /\ call.frame \in Registers
  /\ pc \in {"idle", "waiting", "return", "unknown"} \cup {Table[n] : n \in DOMAIN Table}
  /\ ret \in 0..(ULong - 1)
  /\ pid \in {0} \cup Pid
  /\ ticks \in 0..(ULong - 1) /\ start \in 0..(ULong - 1)
  /\ off \in 0..INT_MAX
  /\ waited \in Nat

\* The number that the caller gets: for every number of a7 and all arguments, of
\* which only the low half counts, it is what the call promises.
Results ==
  pc = "return" =>
    LET x == AsInt(call.frame.a0)
        y == AsInt(call.frame.a1)
        num == AsInt(call.frame.a7)
    IN  /\ num = 1 => ret = pid
        /\ num = 2 => (ret + ULong - call.ticks) % ULong <= (ticks + ULong - call.ticks) % ULong
        /\ num = 3 => ret = 0
        /\ num = 4 /\ x + y \in (-INT_MAX - 1)..INT_MAX => ret = (x + y) % ULong
        /\ num = 5 /\ call.frame.a0 # 0 => ret <= Max - 1 /\ ret <= StrLen(call.frame.a0)
        /\ num \notin 1..Len(Table) \/ (num = 5 /\ call.frame.a0 = 0) => ret = ULong - 1

\* pause waits for exactly as many ticks as it is told, for none if that is
\* negative, also when the counter goes around meanwhile.
PauseExact ==
  pc = "return" /\ AsInt(call.frame.a7) = 3 =>
    waited = IF AsInt(call.frame.a0) < 0 THEN 0 ELSE AsInt(call.frame.a0)

\* read gives min(n, what is left of the file), moves the offset by as much and
\* never behind the end.  A negative count, which nobody looks at, becomes a large
\* unsigned one: it reads nothing or all that is left.
ReadClips ==
  pc = "return" /\ AsInt(call.frame.a7) = 6 =>
    LET n == AsInt(call.frame.a2)
        r == AsInt(ret)
        left == Size - call.off
    IN  /\ off = call.off + r
        /\ n >= 0 => r = IF n < left THEN n ELSE left
        /\ n < 0 => r \in {0, left}
\* Every call gives its caller what it promises, and leaves no frame behind.
CallsRight == TypeOK /\ Results /\ ReadClips
=============================================================================
