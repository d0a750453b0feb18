-------------------------------- MODULE Trap --------------------------------
(***************************************************************************)
(* Interrupts (kernel/trap.c, kernelvec.S, start.c, include/riscv.h) and   *)
(* the code they interrupt: main, with its spin locks and its waits for    *)
(* ticks.  The processor is modelled as far as the kernel uses it: the     *)
(* interrupt bits of sstatus, sepc, stvec and the timer's compare          *)
(* register.  A timer interrupt may come between any two instructions.     *)
(*                                                                         *)
(* An instruction reads or writes one control register, the lock, the tick *)
(* counter or the UART.  The rest of main does not touch what is modelled  *)
(* here.  The handler prints too, into the middle of what main prints.     *)
(***************************************************************************)
EXTENDS Console

CONSTANTS
  Word,       \* the counter wraps at Word, 2^64 in the code
  TestTicks,  \* ticks that test_timer_interrupt waits for, 20 in the code
  PauseTicks, \* ticks of the pause of test_basic_syscalls, 5 in the code
  Every,      \* clockintr prints when ticks is a multiple of Every, 10 in the code
  Text,       \* what main prints, a sequence of characters
  TickLine,   \* what clockintr prints
  EarlyTimer  \* the first 0.1 s may be over before trapinithart has run

ASSUME TrapAssumption ==
  /\ Word \in Nat /\ TestTicks \in 0..(Word - 1) /\ PauseTicks \in 0..(Word - 1)
  /\ EarlyTimer \in BOOLEAN /\ Every \in Nat \ {0}
  /\ Text \in Seq(STRING) /\ TickLine \in Seq(STRING)

Sstatus == [SIE : BOOLEAN, SPIE : BOOLEAN, SPP : BOOLEAN]
Register == [sst : Sstatus, start : 0..(Word - 1)]
-----------------------------------------------------------------------------
(* The program: one instruction of main after the other.                   *)

Ins(op) == <<[op |-> op, n |-> 0]>>
IntrOff == Ins("rd") \o Ins("off")
IntrOn == Ins("rd") \o Ins("on")
Acquire == IntrOff \o Ins("xchg")
Release == Ins("clear") \o IntrOn

\* ticks - start < n is looked at until it is false
WaitTicks(n) == Ins("start") \o <<[op |-> "wait", n |-> n]>>

\* uart_putc for each byte: its loop ends, it writes
Puts(text) ==
  [n \in 1..(2 * Bytes(text)) |->
     [op |-> IF n % 2 = 1 THEN "poll" ELSE "put", n |-> 0]]

\* mutant of Critical: a second lock is taken and released while the first is held
CriticalNested == Acquire \o IntrOff \o IntrOn \o Release

\* a critical section of the block cache, inodes or files; they do not nest
Critical == Acquire \o Release

\* mutant of Main: the system call tests do not turn interrupts on again
MainIntrLeftOff ==
  Critical \o Ins("stvec") \o IntrOn \o WaitTicks(TestTicks) \o Puts(Text)
    \o IntrOn \o IntrOff \o WaitTicks(PauseTicks) \o WaitTicks(0) \o Critical \o IntrOff

\* fs_init; experiment 4 and what it prints with interrupts on; its loop that measures intr_on and intr_off; the system
\* call tests; the file system tests; the end
Main ==
  Critical \o Ins("stvec") \o IntrOn \o WaitTicks(TestTicks) \o Puts(Text)
    \o IntrOn \o IntrOff
    \o IntrOn \o WaitTicks(PauseTicks) \o WaitTicks(0)
    \o Critical \o IntrOff
-----------------------------------------------------------------------------
VARIABLES
  mode,      \* code, or how far the trap has come: vec, clockintr, poll and put
             \* (in its uart_putc), leave, sret;
             \* lost (stvec not set), panic
  pc,        \* next instruction of Main
  reg,       \* registers: a copy of sstatus, and the tick at which a wait began
  locked,    \* the lock of the critical sections
  sst,       \* sstatus
  sepc,      \* where the trap came from
  stvec,     \* kernelvec is entered in stvec
  due,       \* stimecmp is in the past: an interrupt is pending
  ticks,     \* ticks
  line,      \* bytes that clockintr has still to print
  frames,    \* what traps have saved on the stack, the newest first
  expiries   \* history: how often stimecmp has passed

code == <<pc, locked, stvec>>
trap == <<mode, sepc, frames, line>>
vars == <<mode, pc, reg, locked, sst, sepc, stvec, due, ticks, line, frames, expiries, queue>>

\* start() has written stimecmp and returned to main in supervisor mode
Init ==
  /\ mode = "code" /\ pc = 1 /\ locked = FALSE /\ stvec = FALSE
  /\ sst = [SIE |-> FALSE, SPIE |-> FALSE, SPP |-> FALSE]
  /\ reg = [sst |-> sst, start |-> 0]
  /\ sepc = [mode |-> "code", pc |-> 1]
  /\ due = FALSE /\ ticks = 0 /\ frames = <<>> /\ expiries = 0
  /\ line = 0 /\ UartInit

\* the processor takes a pending interrupt before the next instruction
Run(op) ==
  /\ mode = "code" /\ ~(due /\ sst.SIE)
  /\ pc <= Len(Main) /\ Main[pc].op = op
  /\ pc' = pc + 1
  /\ UNCHANGED <<trap, due, ticks, expiries>>

ReadSstatus ==
  /\ Run("rd") /\ reg' = [reg EXCEPT !.sst = sst]
  /\ UNCHANGED <<locked, stvec, sst, queue>>

WriteSstatus ==
  /\ \/ Run("off") /\ sst' = [reg.sst EXCEPT !.SIE = FALSE]
     \/ Run("on") /\ sst' = [reg.sst EXCEPT !.SIE = TRUE]
  /\ UNCHANGED <<locked, stvec, reg, queue>>

AtomicXchg ==
  Run("xchg") /\ ~locked /\ locked' = TRUE /\ UNCHANGED <<reg, stvec, sst, queue>>

Unlock == Run("clear") /\ locked' = FALSE /\ UNCHANGED <<reg, stvec, sst, queue>>

Trapinithart == Run("stvec") /\ stvec' = TRUE /\ UNCHANGED <<reg, locked, sst, queue>>

\* main's uart_putc: the loop sees LSR_TX_IDLE; the write
Poll == Run("poll") /\ TxIdle /\ UNCHANGED <<reg, locked, stvec, sst, queue>>
Put == Run("put") /\ WriteThr /\ UNCHANGED <<reg, locked, stvec, sst>>

StartWait ==
  /\ Run("start") /\ reg' = [reg EXCEPT !.start = ticks]
  /\ UNCHANGED <<locked, stvec, sst, queue>>

\* mutant of Waited: the tick at which the wait ends is computed beforehand
WaitedUntil(start, n) == ticks >= (start + n) % Word

\* ticks and start are unsigned: the difference is right when ticks wraps
Waited(start, n) == (ticks + Word - start) % Word >= n

EndWait ==
  /\ Run("wait") /\ Waited(reg.start, Main[pc].n)
  /\ UNCHANGED <<reg, locked, stvec, sst, queue>>

\* what the code that a trap has interrupted has in its registers
Interrupted == IF Len(frames) = 0 THEN reg ELSE Head(frames).reg
Waiting == pc <= Len(Main) /\ Main[pc].op = "wait"
WaitOver == Waiting /\ Waited(Interrupted.start, Main[pc].n)

\* clockintr asks for an interrupt a whole period after it has run, which is time
\* enough to leave the handler and for a waiting loop to look at the counter once
TimerExpires ==
  /\ ~due /\ mode = "code" /\ ~WaitOver
  /\ EarlyTimer \/ stvec
  /\ due' = TRUE
  /\ expiries' = (expiries + 1) % Word
  /\ UNCHANGED <<code, trap, reg, sst, ticks, queue>>

Interrupt ==
  /\ due /\ sst.SIE /\ mode \notin {"lost", "panic"}
  /\ sepc' = [mode |-> mode, pc |-> pc]
  /\ sst' = [SIE |-> FALSE, SPIE |-> TRUE, SPP |-> TRUE]
  /\ mode' = IF stvec THEN "vec" ELSE "lost"
  /\ UNCHANGED <<code, reg, due, ticks, line, frames, expiries, queue>>

\* kernelvec saves the registers, kerneltrap reads sepc and sstatus.  The cause is
\* the timer's: what kerneltrap does for any other is not modelled
Kernelvec ==
  /\ mode = "vec"
  /\ frames' = <<[reg |-> reg, sepc |-> sepc, sst |-> sst]>> \o frames
  /\ mode' = IF sst.SPP /\ ~sst.SIE THEN "clockintr" ELSE "panic"
  /\ UNCHANGED <<code, reg, sst, sepc, due, ticks, line, expiries, queue>>

\* what clockintr prints
Line(t) == IF t % Every = 0 THEN Bytes(TickLine) ELSE 0

\* mutant of Clockintr: stimecmp is left as it is
ClockintrNotRearmed ==
  /\ mode = "clockintr"
  /\ ticks' = (ticks + 1) % Word
  /\ reg' = [sst |-> sst, start |-> ticks']
  /\ line' = Line(ticks')
  /\ mode' = IF line' = 0 THEN "leave" ELSE "poll"
  /\ UNCHANGED <<code, due, sst, sepc, frames, expiries, queue>>

\* clockintr up to its printf; it uses the registers for its own values
Clockintr ==
  /\ mode = "clockintr"
  /\ ticks' = (ticks + 1) % Word
  /\ due' = FALSE
  /\ reg' = [sst |-> sst, start |-> ticks']
  /\ line' = Line(ticks')
  /\ mode' = IF line' = 0 THEN "leave" ELSE "poll"
  /\ UNCHANGED <<code, sst, sepc, frames, expiries, queue>>

\* its uart_putc
ClockintrPoll ==
  /\ mode = "poll" /\ TxIdle
  /\ mode' = "put"
  /\ UNCHANGED <<code, reg, sst, sepc, due, ticks, line, frames, expiries, queue>>

ClockintrPut ==
  /\ mode = "put" /\ WriteThr
  /\ line' = line - 1
  /\ mode' = IF line' = 0 THEN "leave" ELSE "poll"
  /\ UNCHANGED <<code, reg, sst, sepc, due, ticks, frames, expiries>>

\* the end of kerneltrap
KerneltrapReturn ==
  /\ mode = "leave"
  /\ sepc' = Head(frames).sepc
  /\ sst' = Head(frames).sst
  /\ mode' = "sret"
  /\ UNCHANGED <<code, reg, due, ticks, line, frames, expiries, queue>>

\* the end of kernelvec, and the processor's sret
Sret ==
  /\ mode = "sret"
  /\ reg' = Head(frames).reg
  /\ frames' = Tail(frames)
  /\ sst' = [SIE |-> sst.SPIE, SPIE |-> TRUE, SPP |-> FALSE]
  /\ mode' = sepc.mode /\ pc' = sepc.pc
  /\ UNCHANGED <<locked, stvec, sepc, due, ticks, line, expiries, queue>>

\* the UART
Transmit ==
  /\ Transmits
  /\ UNCHANGED <<code, trap, reg, sst, due, ticks, expiries>>

\* main's last loop, a round of a loop that waits for ticks, panic(), or what the
\* processor does at address 0
Idle ==
  /\ mode \in {"code", "lost", "panic"}
  /\ mode = "code" => pc = Len(Main) + 1 \/ (Waiting /\ ~WaitOver)
  /\ UNCHANGED vars

Code ==
  \/ ReadSstatus \/ WriteSstatus \/ AtomicXchg \/ Unlock
  \/ Trapinithart \/ StartWait \/ EndWait \/ Poll \/ Put

Handler ==
  \/ Interrupt \/ Kernelvec \/ Clockintr \/ ClockintrPoll \/ ClockintrPut
  \/ KerneltrapReturn \/ Sret

Next == Code \/ Handler \/ TimerExpires \/ Transmit \/ Idle

Spec == Init /\ [][Next]_vars

\* Between two interrupts Code and the UART get on again and again (SF): a period
\* is 0.1 s, a byte takes 0.26 ms at the 38400 baud of uart_init.  Time goes on, and
\* processor, handler and UART wait for nothing else.
FairSpec ==
  /\ Spec
  /\ SF_vars(Code) /\ SF_vars(Transmit /\ mode = "code" /\ ~due)
  /\ WF_vars(Handler) /\ WF_vars(TimerExpires) /\ WF_vars(Transmit)
-----------------------------------------------------------------------------
TypeOK ==
  /\ mode \in {"code", "vec", "clockintr", "poll", "put", "leave", "sret", "lost", "panic"}
  /\ pc \in 1..(Len(Main) + 1)
  /\ reg \in Register
  /\ locked \in BOOLEAN /\ stvec \in BOOLEAN /\ due \in BOOLEAN
  /\ sst \in Sstatus /\ (mode # "code" => ~sst.SIE)
  /\ sepc.pc \in 1..(Len(Main) + 1)
  /\ ticks \in 0..(Word - 1) /\ expiries \in 0..(Word - 1)
  /\ queue \in 0..Fifo /\ line \in 0..Bytes(TickLine)
  /\ mode \in {"poll", "put"} <=> line > 0
  /\ \A n \in DOMAIN frames : frames[n].reg \in Register /\ frames[n].sst \in Sstatus

\* The spin locks do what they are for: no handler runs while one is held, though
\* release turns interrupts on whatever they were before, and intr_off can be
\* interrupted between its two instructions.
LockShutsOutInterrupts == locked => mode = "code"

\* The stack holds one trap frame while the handler runs and none while code runs:
\* the handler is not interrupted itself, and gives back what it takes.
HandlerAlone == Len(frames) =
  IF mode \in {"clockintr", "poll", "put", "leave", "sret"} THEN 1 ELSE 0

\* Interrupts keep to their discipline in all of these respects.
TrapsSound == TypeOK /\ LockShutsOutInterrupts /\ HandlerAlone

\* Every period that has passed is counted once, or its interrupt is pending;
\* none is counted twice.
TicksExact == (ticks + (IF due THEN 1 ELSE 0)) % Word = expiries

\* Every trap finds kernelvec in stvec.
TrapsReachKernelvec == mode # "lost"

\* No byte is lost, though main may write on the strength of a poll that is out of
\* date since the handler has printed: of its line the handler leaves at most one
\* byte behind, and the queue has room for two.
NothingLost ==
  mode = "put" \/ (mode = "code" /\ pc <= Len(Main) /\ Main[pc].op = "put")
    => queue < TxQueue

\* main comes to its end: every wait for ticks, and every byte it prints.
MainEnds == <>(mode = "code" /\ pc = Len(Main) + 1)

\* An interrupt changes nothing of what the interrupted code sees but the ticks:
\* main behaves as a program with indivisible intr_on, intr_off and uart_putc.
Shown == {p \in 1..Len(Main) : Main[p].op \notin {"rd", "poll"}}
Before(p) == Cardinality({q \in Shown : q < p})
ShownProgram ==
  [k \in 1..Cardinality(Shown) |-> Main[CHOOSE p \in Shown : Before(p) + 1 = k]]

T == INSTANCE Ticking WITH
       Program <- ShownProgram,
       at <- Before(pc) + 1,
       intr <- IF mode = "code" THEN sst.SIE ELSE TRUE,
       left <- IF Waiting /\ ~WaitOver
                 THEN Main[pc].n - ((ticks + Word - Interrupted.start) % Word)
                 ELSE 0

ImplementsTicking == T!TSpec
=============================================================================
