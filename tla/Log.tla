-------------------------------- MODULE Log --------------------------------
(***************************************************************************)
(* The write-ahead log of kernel/log.c over the block cache of             *)
(* kernel/bio.c and the disk of kernel/virtio_disk.c.                      *)
(*                                                                         *)
(* The kernel runs file system code on one hart and its only interrupt     *)
(* handler does not touch these structures, so one flow of control calls   *)
(* the operations.  A step contains at most one disk write: between two    *)
(* steps the machine may stop (power, a panic anywhere in the kernel) and  *)
(* lose everything but the disk.                                           *)
(*                                                                         *)
(* The flow is any file system code: it may hold several buffers at once,  *)
(* read and write blocks in every order, inside and outside an operation.  *)
(* MaxTxn bounds the file system blocks it uses in one transaction.        *)
(***************************************************************************)
EXTENDS BufferCache, Sequences, FiniteSets

CONSTANTS
  LogStart,        \* sb.logstart, the block of the log header
  NLog,            \* sb.nlog, the blocks of the log area, header included
  Home,            \* the blocks behind the log area
  MaxTxn,          \* bound: home blocks used between begin_op and commit
  MaxHold,         \* bound: buffers the flow holds at once
  MaxOutstanding,  \* bound: operations in progress at once
  KeepDisk         \* FALSE: starting the disk driver clears the disk, as the
                   \* RAM disk of virtio_disk.c does; TRUE: it does not

InstallSlot(i) == LogStart + i     \* log block of the i-th entry, from 1

ASSUME LogAssumption ==
  /\ LogStart \in Nat
  /\ NLog \in Nat \ {0}
  /\ Home \subseteq Nat
  /\ \A b \in Home : b >= LogStart + NLog
  /\ Block = (LogStart .. (LogStart + NLog - 1)) \cup Home
  /\ MaxTxn \in Nat
  /\ MaxTxn < NLog            \* see LogStaysInItsArea
  /\ 2 * MaxTxn < NBuf        \* see ReadsLatest
  /\ MaxHold \in Nat \ {0}
  /\ MaxHold < NBuf
  /\ MaxOutstanding \in Nat
  /\ KeepDisk \in BOOLEAN

VARIABLES
  disk,         \* contents of every block but the log header's
  diskHead,     \* the log header on disk: block[0 .. n-1]
  bcache,       \* the block cache
  lh,           \* log.lh, the header in memory
  outstanding,  \* log.outstanding
  pc,           \* where the flow is, see Phase
  next,         \* the entry install_trans_from_log copies next
  used,         \* history: home blocks the transaction has used
  latest        \* history: what was last stored in each home block

vars == <<disk, diskHead, bcache, lh, outstanding, pc, next, used, latest>>

\* run: between calls of the log; write_head, install, clear: in commit();
\* boot: before initlog; panic: panic() was called
Phase == {"run", "write_head", "install", "clear", "boot", "panic"}

TypeOK ==
  /\ disk \in [Block -> Data]
  /\ diskHead \in Seq(Home)
  /\ bcache \in Cache
  /\ lh \in Seq(Home)
  /\ outstanding \in Nat
  /\ pc \in Phase
  /\ next \in Nat
  /\ used \subseteq Home
  /\ latest \in [Home -> Data]
-----------------------------------------------------------------------------
\* the block the disk is left with after an i-th entry is recovered
Index(s, b) == CHOOSE i \in 1..Len(s) : s[i] = b
IsIn(s, b)  == \E i \in 1..Len(s) : s[i] = b

\* what a restart would find in a home block
Stable ==
  [b \in Home |-> IF IsIn(diskHead, b)
                    THEN disk[InstallSlot(Index(diskHead, b))]
                    ELSE disk[b]]

\* the cache after one more block has been read, written and released
LogCached(c, i, v) == Overwrite(c, InstallSlot(i), v)

NothingHeld == HeldPlaces(bcache) = {}

\* the flow keeps within the bound of a transaction when it uses block b
MayUse(b) == outstanding = 0 \/ b \in used \/ Cardinality(used) < MaxTxn
Use(b)    == used' = IF outstanding = 0 THEN used ELSE used \cup {b}
-----------------------------------------------------------------------------
Init ==
  /\ disk = [b \in Block |-> Zero]
  /\ diskHead = <<>>
  /\ bcache = EmptyCache
  /\ lh = <<>>
  /\ outstanding = 0
  /\ pc = "boot"
  /\ next = 1
  /\ used = {}
  /\ latest = [b \in Home |-> Zero]

\* bread of a file system block; no call path reads a block it holds
Bread(b) ==
  /\ pc = "run"
  /\ ~IsHeld(bcache, b)
  /\ Cardinality(HeldPlaces(bcache)) < MaxHold
  /\ MayUse(b)
  /\ IF CanGet(bcache, b)
       THEN /\ bcache' = Get(bcache, b, disk[b])
            /\ Use(b)
            /\ UNCHANGED pc
       ELSE /\ pc' = "panic"
            /\ UNCHANGED <<bcache, used>>
  /\ UNCHANGED <<disk, diskHead, lh, outstanding, next, latest>>

\* bwrite outside an operation: log_write passes the block to the disk
BwriteRaw(b, v) ==
  /\ pc = "run"
  /\ outstanding = 0
  /\ IsHeld(bcache, b)
  /\ bcache' = Fill(bcache, b, v)
  /\ disk' = [disk EXCEPT ![b] = v]
  /\ latest' = [latest EXCEPT ![b] = v]
  /\ UNCHANGED <<diskHead, lh, outstanding, pc, next, used>>

\* bwrite of a block the transaction has logged before: same log block
BwriteAbsorb(b, v) ==
  /\ pc = "run"
  /\ outstanding > 0
  /\ IsHeld(bcache, b)
  /\ IsIn(lh, b)
  /\ LET i == Index(lh, b)
     IN  /\ bcache' = LogCached(Fill(bcache, b, v), i, v)
         /\ disk' = [disk EXCEPT ![InstallSlot(i)] = v]
  /\ latest' = [latest EXCEPT ![b] = v]
  /\ UNCHANGED <<diskHead, lh, outstanding, pc, next, used>>

\* mutant of BwriteNew: the search for the block in the log is left out
BwriteNewAlways(b, v) ==
  /\ pc = "run"
  /\ outstanding > 0
  /\ IsHeld(bcache, b)
  /\ IF Len(lh) < NLog
       THEN LET i == Len(lh) + 1
            IN  /\ lh' = Append(lh, b)
                /\ bcache' = LogCached(Fill(bcache, b, v), i, v)
                /\ disk' = [disk EXCEPT ![InstallSlot(i)] = v]
                /\ latest' = [latest EXCEPT ![b] = v]
                /\ UNCHANGED pc
       ELSE /\ pc' = "panic"
            /\ UNCHANGED <<lh, bcache, disk, latest>>
  /\ UNCHANGED <<diskHead, outstanding, next, used>>

\* bwrite of a block new to the transaction: the next log block
BwriteNew(b, v) ==
  /\ pc = "run"
  /\ outstanding > 0
  /\ IsHeld(bcache, b)
  /\ ~IsIn(lh, b)
  /\ IF Len(lh) < NLog
       THEN LET i == Len(lh) + 1
            IN  /\ lh' = Append(lh, b)
                /\ bcache' = LogCached(Fill(bcache, b, v), i, v)
                /\ disk' = [disk EXCEPT ![InstallSlot(i)] = v]
                /\ latest' = [latest EXCEPT ![b] = v]
                /\ UNCHANGED pc
       ELSE /\ pc' = "panic"
            /\ UNCHANGED <<lh, bcache, disk, latest>>
  /\ UNCHANGED <<diskHead, outstanding, next, used>>

Brelse(b) ==
  /\ pc = "run"
  /\ IsHeld(bcache, b)
  /\ bcache' = Release(bcache, b)
  /\ UNCHANGED <<disk, diskHead, lh, outstanding, pc, next, used, latest>>

\* begin_op; its callers hold no buffer.  Its panic needs log.committing,
\* which is set in the phases of commit() only
BeginOp ==
  /\ pc = "run"
  /\ NothingHeld
  /\ outstanding < MaxOutstanding
  /\ outstanding' = outstanding + 1
  /\ UNCHANGED <<disk, diskHead, bcache, lh, pc, next, used, latest>>

\* mutant of EndOp: a transaction of one block is not committed
EndOpLazy ==
  /\ pc = "run"
  /\ NothingHeld
  /\ outstanding > 0
  /\ outstanding' = outstanding - 1
  /\ pc' = IF outstanding' = 0 /\ Len(lh) > 1 THEN "write_head" ELSE "run"
  /\ UNCHANGED <<disk, diskHead, bcache, lh, next, used, latest>>

\* end_op; its callers hold no buffer and have an operation open
EndOp ==
  /\ pc = "run"
  /\ NothingHeld
  /\ outstanding > 0
  /\ outstanding' = outstanding - 1
  /\ pc' = IF outstanding' = 0 /\ Len(lh) > 0 THEN "write_head" ELSE "run"
  /\ used' = IF outstanding' = 0 /\ Len(lh) = 0 THEN {} ELSE used
  /\ UNCHANGED <<disk, diskHead, bcache, lh, next, latest>>

\* mutant of WriteHead: the blocks are installed without the header on disk
WriteHeadLost ==
  /\ pc = "write_head"
  /\ pc' = "install"
  /\ next' = 1
  /\ UNCHANGED <<disk, diskHead, bcache, lh, outstanding, used, latest>>

\* write_head() in commit(): from here on the transaction survives a crash
WriteHead ==
  /\ pc = "write_head"
  /\ diskHead' = lh
  /\ bcache' = Overwrite(bcache, LogStart, Zero)
  /\ pc' = "install"
  /\ next' = 1
  /\ UNCHANGED <<disk, lh, outstanding, used, latest>>

\* mutant of Install: the loop variable is not advanced
InstallFirst ==
  /\ pc = "install"
  /\ pc' = IF Len(lh) = 1 THEN "clear" ELSE "install"
  /\ UNCHANGED <<disk, diskHead, bcache, lh, outstanding, next, used, latest>>

\* one round of install_trans_from_log: log block `next' to its home
Install ==
  /\ pc = "install"
  /\ next <= Len(lh)
  /\ LET b  == lh[next]
         s  == InstallSlot(next)
         c1 == Get(bcache, s, disk[s])
         v  == c1[PlaceOf(c1, s)].data
         c2 == Fill(Get(c1, b, disk[b]), b, v)
     IN  /\ disk' = [disk EXCEPT ![b] = v]
         /\ bcache' = Release(Release(c2, s), b)
  /\ next' = next + 1
  /\ pc' = IF next = Len(lh) THEN "clear" ELSE "install"
  /\ UNCHANGED <<diskHead, lh, outstanding, used, latest>>

\* log.lh.n = 0; write_head(): the transaction is finished
ClearHead ==
  /\ pc = "clear"
  /\ lh' = <<>>
  /\ diskHead' = <<>>
  /\ bcache' = Overwrite(bcache, LogStart, Zero)
  /\ pc' = "run"
  /\ used' = {}
  /\ UNCHANGED <<disk, outstanding, next, latest>>

\* the machine stops and the kernel starts again: binit() with an empty
\* cache, and with a cleared disk when the driver is the RAM disk
Restart ==
  /\ pc' = "boot"
  /\ bcache' = EmptyCache
  /\ lh' = <<>>
  /\ outstanding' = 0
  /\ next' = 1
  /\ used' = {}
  /\ IF KeepDisk
       THEN UNCHANGED <<disk, diskHead>>
       ELSE /\ disk' = [b \in Block |-> Zero]
            /\ diskHead' = <<>>
  /\ latest' = Stable'

\* initlog: recover_from_log() reads the header and, when a transaction was
\* committed, installs it and clears the header like commit() does
InitLog ==
  /\ pc = "boot"
  /\ lh' = diskHead
  /\ bcache' = Overwrite(bcache, LogStart, Zero)
  /\ pc' = IF Len(diskHead) > 0 THEN "install" ELSE "run"
  /\ next' = 1
  /\ UNCHANGED <<disk, diskHead, outstanding, used, latest>>

Next ==
  \/ \E b \in Home : Bread(b) \/ Brelse(b)
  \/ \E b \in Home, v \in Data :
       BwriteRaw(b, v) \/ BwriteAbsorb(b, v) \/ BwriteNew(b, v)
  \/ BeginOp \/ EndOp
  \/ WriteHead \/ Install \/ ClearHead
  \/ Restart \/ InitLog

Spec == Init /\ [][Next]_vars

\* commit() and initlog() run to their end: nothing in them waits
Fairness == WF_vars(WriteHead \/ Install \/ ClearHead \/ InitLog)

FairSpec == Spec /\ Fairness
-----------------------------------------------------------------------------
\* what bread(b) returns
View(b) == IF IsCached(bcache, b) THEN bcache[PlaceOf(bcache, b)].data ELSE disk[b]

\* Every bread returns what was last written to the block, inside and after an
\* operation, before and after recovery.  A logged block is in the log and in
\* its buffer only, and log.c does not pin the buffer: were it recycled before
\* the commit, bread would return the old contents from the disk.
ReadsLatest == pc = "run" => \A b \in Home : View(b) = latest[b]

\* Whenever no operation is open, everything written so far survives a crash:
\* end_op returns to its caller only after the transaction is permanent.
QuiescentDurable == pc = "run" /\ outstanding = 0 => Stable = latest

\* The data blocks of the log end before logstart + nlog.  The check in log_write
\* compares lh.n with nlog although the header takes one block of the area, so it
\* is the size of the transactions that keeps the log off the inode blocks.
LogStaysInItsArea == Len(lh) < NLog

\* No block is in the log twice, so recovery has one copy of each to install.
NoBlockLoggedTwice == \A i, j \in 1..Len(lh) : lh[i] = lh[j] => i = j

\* bget always finds a buffer and log_write room in the log.
NeverPanics == pc # "panic"

\* log_write is safe: it stays in the log area, logs a block once, and neither it
\* nor bget runs out of room.
LogSafe == LogStaysInItsArea /\ NoBlockLoggedTwice /\ NeverPanics

\* The reason why the properties above hold, as an inductive invariant.
\* One buffer for a block; one user of a buffer, who is in an operation of the
\* transaction or outside of all.
CacheWellFormed ==
  /\ OneBufferPerBlock(bcache)
  /\ \A k \in Place : bcache[k].ref <= 1
  /\ \A k \in Place : bcache[k].ref > 0 =>
       pc = "run" /\ bcache[k].blk \in IF outstanding = 0 THEN Home ELSE used
  /\ pc = "boot" => bcache = EmptyCache

\* A buffer holds what was last written to its block.
CacheCurrent ==
  \A k \in Place :
    LET b == bcache[k].blk
    IN  /\ b \in Home => bcache[k].data = latest[b]
        /\ b \in Block \ (Home \cup {LogStart}) => bcache[k].data = disk[b]

\* The blocks of the transaction that the disk may still have old contents of.
Pending ==
  CASE pc \in {"run", "write_head"} -> {lh[i] : i \in 1..Len(lh)}
    [] pc = "install"               -> {lh[i] : i \in next..Len(lh)}
    [] pc = "boot"                  -> {diskHead[i] : i \in 1..Len(diskHead)}
    [] OTHER                        -> {}

\* The disk is current but for pending blocks, and the log blocks are current.
DiskCurrent ==
  /\ \A b \in Home \ Pending : disk[b] = latest[b]
  /\ \A i \in 1..Len(lh) : disk[InstallSlot(i)] = latest[lh[i]]
  /\ \A i \in 1..Len(diskHead) : disk[InstallSlot(i)] = latest[diskHead[i]]

\* The two log headers agree as far as commit() has come.
HeadersAgree ==
  /\ NoBlockLoggedTwice
  /\ \A i, j \in 1..Len(diskHead) : diskHead[i] = diskHead[j] => i = j
  /\ Len(lh) <= MaxTxn /\ Len(diskHead) <= MaxTxn
  /\ pc \in {"run", "write_head"} => diskHead = <<>>
  /\ pc \in {"install", "clear"} => diskHead = lh
  /\ pc = "boot" => lh = <<>> /\ used = {}
  /\ pc = "write_head" => Len(lh) > 0
  /\ pc = "install" => next \in 1..Len(lh)
  /\ pc # "run" => outstanding = 0

\* What the open transaction has used.
TxnUse ==
  pc = "run" =>
    /\ outstanding = 0 => lh = <<>> /\ used = {}
    /\ \A i \in 1..Len(lh) : lh[i] \in used
    /\ IsFiniteSet(used) /\ Cardinality(used) <= MaxTxn

Touched == used \cup {InstallSlot(i) : i \in 1..Len(lh)}

\* The buffers of the transaction, held ones aside, are before all others: bget
\* recycles one of the others, as long as there are more buffers than blocks.
LoggedStayCached ==
  pc = "run" =>
    /\ \A i \in 1..Len(lh) : IsCached(bcache, lh[i])
    /\ \A k \in Place : bcache[k].ref = 0 /\ bcache[k].blk \in Touched =>
         \A j \in 1..(k - 1) : bcache[j].blk \in Touched

IInv ==
  /\ TypeOK /\ NeverPanics
  /\ CacheWellFormed /\ CacheCurrent /\ DiskCurrent
  /\ HeadersAgree /\ TxnUse /\ LoggedStayCached

\* log.c implements blocks whose changes become permanent together: a crash at
\* any point, one in the middle of commit() or of recovery included, leaves the
\* disk as it was before the transaction or as it is after it.
AD == INSTANCE AtomicDisk WITH stable <- Stable, current <- latest, nops <- outstanding

ImplementsAtomicDisk == AD!ADSpec

\* The machine stops when a transaction is committed, its header on disk and not
\* yet cleared: the start of the kernel finds all of it, for initlog to install.
CommittedSurvives == [][pc' = "boot" /\ diskHead # <<>> => Stable' = Stable]_vars

\* A commit that has started ends, and so does a recovery, unless the machine
\* is restarted forever.
CommitFinishes == (pc # "run" ~> pc = "run") \/ []<><<Restart>>_vars
=============================================================================
