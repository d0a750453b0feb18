------------------------------ MODULE Ticking -------------------------------
(***************************************************************************)
(* What the rest of the kernel may assume of the timer: a program whose    *)
(* instructions are never cut in two and that sees of an interrupt only    *)
(* that time has passed.  Ticks come only while interrupts are on, and a   *)
(* wait for n ticks ends after n of them.                                  *)
(***************************************************************************)
EXTENDS Naturals, Sequences

CONSTANT Program   \* instructions, as records of op and n

VARIABLES
  at,      \* next instruction
  intr,    \* interrupts are on
  locked,  \* the lock is held
  left     \* ticks that the current wait still needs

Op(op) == at <= Len(Program) /\ Program[at].op = op /\ at' = at + 1

TInit == at = 1 /\ intr = FALSE /\ locked = FALSE /\ left = 0

TNext ==
  \/ \E on \in BOOLEAN :
       Op(IF on THEN "on" ELSE "off") /\ intr' = on /\ UNCHANGED <<locked, left>>
  \/ Op("xchg") /\ ~locked /\ locked' = TRUE /\ UNCHANGED <<intr, left>>
  \/ Op("clear") /\ locked' = FALSE /\ UNCHANGED <<intr, left>>
  \/ (Op("stvec") \/ Op("put")) /\ UNCHANGED <<intr, locked, left>>
  \/ Op("start") /\ left' = Program[at + 1].n /\ UNCHANGED <<intr, locked>>
  \/ Op("wait") /\ left = 0 /\ UNCHANGED <<intr, locked, left>>
  \/ /\ intr /\ ~locked
     /\ left' = IF left = 0 THEN 0 ELSE left - 1
     /\ UNCHANGED <<at, intr, locked>>

TSpec == TInit /\ [][TNext]_<<at, intr, locked, left>>
=============================================================================
