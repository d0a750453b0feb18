# A TLA+ model of the OS3.0 teaching kernel

The kernel under `riscv-os/` is a small RISC-V kernel in the style of xv6: a
file system with a write-ahead log on a RAM disk, kernel threads that give up
the processor themselves, a page allocator, a kernel log, and the drivers and
traps to run them on one hart.  This directory models its core in TLA+, checks
the models with TLC on small instances, and proves the main results for every
value of the constants with TLAPS.

## 1. The system

| part | source | state | operations |
|---|---|---|---|
| disk | `virtio_disk.c` | `ramdisk` | read or write a block, clear and format at start |
| block cache | `bio.c` | `bcache`: NBUF buffers on a circular LRU list | `bread`, `bwrite`, `brelse` |
| log | `log.c` | `log.lh`, `outstanding`, `committing`; the header on disk | `begin_op`, `end_op`, `log_write`, `commit`, `initlog` |
| inodes | `fs.c` | dinodes, bitmap, data blocks on disk; `icache` | `balloc`..`itrunc`, `readi`, `writei`, `dirlookup`, `dirlink`, `namex` |
| open files | `file.c`, `sysfile.c` | `ftable`, `g_ofile` | `open`, `read`, `write`, `close`, `dup`, `fstat` |
| diagnostics | `fs_debug.c` | none | `fsck_lite`, dumps |
| threads | `proc.c`, `swtch.S` | `procs`, `current_proc`, `next_pid` | `kproc_create`, `scheduler_run`, `yield`, `kproc_exit` |
| pages | `pmm.c` | `kmem.freelist` | `alloc_page`, `free_page` |
| kernel log | `klog.c` | `ks`: a ring of records and counters | `klogf`, `klog_dump`, `klog_clear`, level and console switch |
| page tables | `vm.c` | `kernel_pagetable`, the table pages, `satp` | `walk`, `mappage`, `map_page`, `kvminit`, `kvminithart` |
| traps, boot | `trap.c`, `start.c`, `kernelvec.S`, `main.c`, `riscv.h`, `spinlock.h` | `ticks`, `sstatus`, `sepc`, `stvec`, `stimecmp`, locks | timer interrupt, `intr_on`, `intr_off`, `acquire`, `release` |
| calls | `syscall.c`, `sysproc.c` | `cur_frame` | dispatch, arguments, `getpid`, `pause`, `uptime` |
| output | `printf.c`, `console.c`, `uart.c` | device registers | formatting, polling the UART |
| experiments | `test.c` | test data | drive all of the above |

How they interact.  A file system call opens an operation with `begin_op`, uses
inodes, which use buffers, and ends it with `end_op`.  `bwrite` calls
`log_write`: inside an operation the block is copied to the log area, outside of
one it goes to its place at once.  The last `end_op` writes the log header,
copies the logged blocks home and clears the header; `initlog` does the same for
a header it finds at start.  Threads take their stacks from the page allocator.
The kernel log is called from everywhere and calls only `printf`.

The page tables take theirs from there too.  The timer interrupt may come
between any two instructions while interrupts are on; its handler counts `ticks`
and prints every tenth of them.

What is hard.  There is one hart; the timer interrupt is the only asynchronous
event.  The difficulties are

* crashes: the machine may stop between any two disk writes, also in a commit
  and in a recovery;
* cache and log together: a logged block exists in its buffer and in the log
  only, and the buffer is not pinned;
* reference counts and locks that are handed along many exits, where one flow of
  control makes every wait for a lock a deadlock;
* limits: log area, buffers, inode cache, disk, file table, thread slots, pages;
* the switch between stacks, one of which has just been freed;
* interrupts: what the handler must leave as it was, the locks that keep it out,
  the waits that it must end, and the line it prints into the middle of another;
* memory that runs out half way down a page table, and pages that are not clean;
* arithmetic at the wrap of the ring and at the boundaries of blocks.

`PROJECT.json` lists the hazards at their lines.

What makes each part correct: the log and the cache must look like blocks whose
changes become permanent together (`AtomicDisk`); the file calls must look like
numbered byte sequences and descriptors that share an offset (`FileSpec`), with
no block, inode or reference lost; the threads must never share a page and must
all run to their end; the kernel log must print the last records and count all;
an address space must be a function that only grows (`AddressSpace`); interrupted
code must see nothing of an interrupt but the ticks (`Ticking`); a caller must get
what the call promises for all arguments; no printed character may get lost; and
the file system check must tell the truth and return.

## 2. The modules

```
AtomicDisk   <-- implements --  Log  -- extends -->  BufferCache
FileSpec     <-- implements --  FileSys -- extends --> FsOps
AddressSpace <-- implements --  PageTable
Ticking      <-- implements --  Trap
Trap         --- extends ---->  Console
ProdCons     --- extends ---->  Proc (with the page allocator)
WriteTxn     (justifies the bounds that Log assumes)
Klog         Format          Syscall         Fsck
```

* `BufferCache`: `bio.c` as operators on a value.  A cache is the list of
  buffers from `head.next` to `head.prev`, so the LRU order is the order of
  places.  `Get`, `Fill`, `Release` are `bread`, the caller's stores, `brelse`.
* `Log`: the state machine of `log.c` over the cache and the disk.  Actions
  `Bread`, `Brelse`, `BwriteRaw`, `BwriteAbsorb`, `BwriteNew`, `BeginOp`,
  `EndOp`, `WriteHead`, `Install`, `ClearHead`, `InitLog` and `Restart`.  The
  three `Bwrite` actions are the three paths of `log_write`.  `commit()` is cut
  at its disk writes, the only places where a stop makes a difference.  The
  flow of control may hold several buffers and call everything in any order.
  The superblock, which only `readsb` reads before `initlog`, is not modelled.
* `FsOps`: every function of `fs.c`, and `create` of `sysfile.c`, as an operator
  on a file system value; `panic` is a field of the value after which nothing
  changes.  The data are cells: a block has `BSize` of them, and a cell is a
  byte, a block number or a directory entry.  `itrunc` frees all its blocks in one
  operator: its loops reach `bfree`'s panic if and only if one of them is not
  allocated or named twice, and a panic leaves the disk as it was.  The cache has a
  slot for each inode of which at most `NInode` are in use; a slot in no use is empty,
  as `iget` would make it, but keeps its lock.
* `FileSys`: `file.c` and `sysfile.c` over `FsOps`.  Every system call is one
  action, a write is one action for each transaction of `filewrite`.
* `WriteTxn`: the blocks one transaction of `filewrite` reads and writes, with
  the real constants of `fs.h`.
* `Klog`: the ring and counters of `klog.c`; a record is a level and a message.
* `Proc`: `proc.c` and `pmm.c`; `flow` and `stack` say where the processor is.
* `ProdCons`: the synchronisation test of `test.c`, behind any behaviour of `Proc`
  that earlier tests may leave (`Other`).  Its two threads do what they do with the
  actions of `Proc`; `at` says where in its loop each is.  One action for a critical
  section, because threads change only in `yield`.
* `PageTable`: `vm.c`.  `Descend` is one round of `walk`, `Walk` both; `Kvminit`
  and `Kvmmap` are `kvminit` cut at the rounds of `kvmmap`.  Other code takes
  pages and gives them back dirty (`Litter`).  `AddressSpace` is a partial
  function from pages to pages that a call extends by one page or leaves alone.
* `Trap`: the processor as far as the kernel uses it, and `Main`, what the boot
  and the experiments do with interrupts, locks and ticks, as a list of
  instructions.  Each reads or writes one register, so `intr_on` is two.  The
  handler has one action for its way in, its body, each step of its printing and
  each half of its way out.  `Ticking` is the same program with indivisible
  `intr_on`, `intr_off` and `uart_putc` and without a handler.
* `Console`: the bytes of a text and the UART's queue, of which only the length
  matters.  The UART is external.  `Trap` cuts `uart_putc` between its poll and its
  write, in main (`Poll`, `Put`) and in the handler (`ClockintrPoll`,
  `ClockintrPut`), which prints when `ticks` is a multiple of `Every`.
* `Format`: `printf` and `kvsnprintf_local` as recursive functions of a format
  and its arguments.  It has no state: its properties are operators, which `MCKlog`
  evaluates as assumptions.
* `Syscall`: `syscall` and `sysproc.c` with the widths of `int` and of registers;
  `read` for its count.  Other file calls are in `FileSys`.
* `Fsck`: `fsck_lite` on a disk image chosen at the start, with the buffers it
  holds while it reads others.
* `Calls` puts `Syscall`, `WriteTxn` and `Fsck` side by side: they share nothing, and
  one of them runs.
* `MC...` give constants to TLC.
* The theorems are in `LogProofs` (with `BufferCache`), `FileSysProofs` (with
  `FsOps`), `FileSpecProofs` (the refinement of `FileSpec`), `KlogProofs`,
  `ProcProofs` (with `ProdCons`), `PageTableProofs`, `TrapProofs` (with `Console`)
  and `CallsProofs` (`WriteTxn`, `Syscall`, `Fsck`).

Operators commented as mutants are small changes of the definition that follows
them, such as a guard left out.  Each property is violated when one of them takes
the place of the definition; nothing else uses them.

### What justifies the grain of atomicity

One flow of control runs file system code, so steps of two calls do not
interleave: threads switch only in `yield` and `kproc_exit`, and no file system
code calls these.  A stop in the middle of a transaction leaves the disk as
before or after the transaction, which is `Log!ImplementsAtomicDisk`; hence
`FileSys` makes one step of it, and a `panic` in it leaves the disk unchanged.
`fs_init` writes outside of a transaction; it is one step because the RAM disk
is cleared when the machine starts again.

The timer interrupt is left out of every module but `Trap` and `Syscall`.  `Trap!ImplementsTicking` says that the code it interrupts cannot tell,
and no other module reads `ticks`.

### Crashes

`Restart` is enabled in every state.  The code's disk is RAM that every start
clears, so `KeepDisk` is a constant: TRUE is the disk the log is written for,
FALSE is the disk of `virtio_disk.c`.

## 3. The runs

| run | instance | shows |
|---|---|---|
| `MCLog` | log area of 3 blocks, 3 home blocks, 5 buffers, 2 contents, 2 buffers held, 2 operations | reads return the last write; finished operations are permanent; the log stays in its area, has no block twice, nothing panics (`LogSafe`); `IInv`; implements `AtomicDisk` |
| `MCLogLive` | the same with one content | commits and recoveries end |
| `MCLogRamDisk` | `KeepDisk` FALSE | violated: a transaction whose header is on the disk is gone after a restart |
| `MCFileSys` | 1 name, 4 paths, 2 files, 3 descriptors, blocks of 2 cells | blocks, directory, references and cached inodes agree; only a full disk panics; implements `FileSpec` |
| `MCFileSysFull` | 3 names, 2 bytes, 7 blocks, a cache of 3 inodes, 1 descriptor, RAM disk | the same (`AllAccounted` is the conjunction) with blocks that change hands, and with everything full: the disk, a file of the largest size, the inode cache and the file table; a write that fails after its first transaction leaves offset and contents as `FileSpec` says |
| `MCEmptyPath` | `open("")` | violated: a reference to the root inode is left |
| `MCKlog` | 3 slots, 7 records; formats of up to 3 characters and some of 4 | the dump is the last records; the counters add up; `IInv`; and as assumptions: the two formatters agree, klog's stays in its buffer, numbers read back |
| `MCProc` | 3 slots, 4 pages, then a test of 3 items | one owner for each page; nobody runs on a stack of another; one thread runs and pids differ (`TableOK`); the scheduler returns when all have exited; no runnable thread starves; the test's lock is free whenever threads change and at most one item waits (`BufferSafe`); the test passes |
| `MCPageTable` | tables of 5 entries, 8 pages, 63 virtual pages | no page lost or twice a table when memory runs out (`TreeSound`); memory and UART are mapped to themselves and nothing else; `map_page` implements `AddressSpace` |
| `MCTrap` | ticks modulo 8, waits of 3 and 5 ticks, a queue of 2, a line every 2 ticks | no handler under a lock and no nested handler (`TrapsSound`); ticks exact; no byte lost; every wait ends; implements `Ticking` |
| `MCTrapEarly` | the first period is shorter than the boot | violated: an interrupt before `stvec` is set |
| `MCCalls` | write: real constants, offsets and sizes at all boundaries; calls: `int` of 4 bits, registers of 5; fsck: 2 inodes, 7 blocks, addresses good and bad | a transaction has at most 14 blocks, log and cache have room; results for all kinds of numbers and arguments (`CallsRight`), `pause` exact; an error is reported exactly if there is one, and the check returns unless an indirect block is outside the data region (`CheckSound`) |

Why the bounds are enough.

* `Log`: two blocks in a transaction give an absorbed write, a second log block,
  a stop between two installations and a transaction after a transaction.  Five
  buffers are the smallest cache with `2 * MaxTxn < NBuf`: one buffer less and a
  logged block is recycled.  `MaxTxn`, `MaxHold` and `MaxOutstanding` bound the
  flow.  In the code they are 14 (see `MCCalls`), the few buffers a call holds
  at once (`bmap` holds the indirect block while `balloc` holds the bitmap), and
  1; `LogAssumption` holds for 14 blocks, a log of 30 and a cache of 30.
* `FileSys`: one direct block of two cells makes the third cell of a file, and
  the first entry of the directory behind `.` and `..`, use the indirect block;
  a write of three cells takes two transactions.  The values of `ret` are left
  out of the fingerprint of a state (`VIEW`): no step depends on them, and the
  refinement looks at them in every step.  `MaxSize` bounds the files.  In
  `MCFileSys` a descriptor truncates the file behind another one, whose next write
  `writei` then refuses (off > size).  `MCFileSysFull` has the smallest inode cache
  that `FileSysAssumption` admits, `NOFile + 2` slots, and one inode more than
  slots: root, the open file and the file that a second `open` looks at fill the
  cache, and one reference too many would end in `iget`'s panic.  Its writes go
  past the largest file (`MaxSize` is one cell more), so `writei` also refuses
  the second transaction of a write.  The names are a symmetry set: no definition
  tells them apart, and the properties of the run are safety properties.
* `Klog`: seven records go round a ring of three twice; `MaxWritten` bounds
  records and filtered records.
* `Proc`: with four pages, of which other code keeps two (`Keep`), stacks run out
  (`alloc_proc` panics) and freed stacks are used again.  `MaxPid` bounds the
  threads between two calls of `proc_init`.
* `ProdCons`: three items instead of ten; the test itself is one behaviour, since
  threads change only where they say so, but it starts from every state that
  earlier threads can leave.  Of the four pages other code keeps at most two, so
  that the test finds its two stacks.
* `PageTable`: the allocator has the pages from `kernel_end` on, eight of them;
  `kvminit` takes 6, other code up to 3 (`Keep`).  So memory runs out in `kvminit`,
  when the UART's page has its first table and gets no second one (`vm.c:75`), and
  after `kvminit` in `map_page`: as in the code, the entry of the root between those
  of the UART and of the memory is empty, and pages 50 and 60 of `CallVA` need both
  tables there.  A walk that fails half way down leaves the first table, and a later
  call, after other code has freed a page, finds it (the mutant `DescendGivesBack`
  breaks in this case only).  `CallVA` also has a mapped page, an unaligned one and one
  that is too large; pages that share all their tables are those of `kvmmap`.
* `Trap`: waits are shorter than `Word`, as in the code; with 8 the counter goes
  around in the last wait, and more periods pass than the counter holds.  A queue
  of two is the smallest that is not only a holding register; the 16 of the device
  leave more room.
* `Syscall`: `UInt` and `ULong`, the numbers of values of an `int` and of a register,
  are 16 and 32; words at the ends of `int` and with a high half; strings that are
  empty, shorter than, as long as and longer than the buffer.
* `Format`: `LongBits` is not twice `IntBits`, so that a mistaken width shows;
  buffers of no, one and two bytes.  Four characters are needed for `%lld` and for
  two conversions.
* `Fsck`: one direct and one indirect block with two entries for each of two
  inodes give every kind of duplicate: within an inode, between two, between a
  data and an indirect block.

Fairness.  `Log` asks that a commit or a recovery that can go on does: nothing in
them waits for anything.  `Proc` asks the same of the scheduler loop and that
every thread comes to its next `yield` or `kproc_exit`, as the code expects of
cooperative threads.  The machine may still restart forever, which
`CommitFinishes` names as the alternative.

`ProdCons` asks this of the threads of earlier tests; of its own two it asks only
that the processor does not stop.  `Trap` asks that the handler, the UART and time
go on (WF) and that the interrupted code and the UART get on again and again
between two interrupts (SF): a period is 0.1 s, the handler takes a small part of
it, and a byte takes 0.26 ms at the 38400 baud of `uart_init`.  For the same reason a
timer interrupt does not come due inside the handler, and a waiting loop looks at the
counter at least once in a tick.

`EarlyTimer` FALSE, in `MCTrap`, says that `trapinithart` is reached within the first
0.1 s.  Nothing in the code sees to that: it holds where the UART takes every byte at
once, as QEMU's does.  On a line of 38400 baud it does not, for 0.1 s are 380 bytes and
the boot prints some 800 before `trapinithart`; what then happens is `MCTrapEarly`.
`MainEnds` needs it, the safety properties are proved without it.

## 4. The findings

* `virtio_disk_init` clears the disk on every start, so the recovery that
  `log.c:91` describes, and the branch `fs.c:751`, never find anything.
* `open("")` takes a reference to the root inode and does not drop it
  (`fs.c:592-600`).  The other runs of `FileSys` leave the empty path out.
* `release` turns interrupts on even if they were off before.  In `fs_init` this
  is long before `trapinithart` sets `stvec`, while `start.c` has already asked for
  an interrupt 0.1 s after reset: a boot that takes longer takes it at whatever
  address `stvec` holds.  What is printed before `trapinithart` takes 0.2 s on a line
  of 38400 baud.  `AstrayOnlyInBoot` proves that there is no other place.

Two more that passing runs show:

* A transaction of `filewrite` modifies 14 blocks, `fs.h:124` says 10.  With
  these constants it does no harm (`LogHasRoom`, `CacheHasRoom`): the log has 29
  data blocks and `2 * 14 < 30`.  One more block would break the second bound, and
  an unpinned buffer could be recycled before the commit.
* `fsck_lite` reads an indirect block whose number `check_addr` has rejected
  (`fs_debug.c:214`); on such an image it may panic or spin for ever instead of
  returning -1.  `ReturnsUnlessBadIndirect` says that this is the only way.

## 5. The proofs

`LogProofs` proves `Spec => []IInv` for all constants that `CacheAssumption` and
`LogAssumption` admit, and from it `TypeOK`, `ReadsLatest`, `QuiescentDurable` and
`LogSafe`; with `KeepDisk` it proves `Spec => ImplementsAtomicDisk`.

None of these properties is inductive.  That a read returns the last write needs
that the buffer of a logged block is still in the cache, and this depends on the
LRU order: `LoggedStayCached` says that the unused buffers of the transaction's
blocks, home and log blocks alike, come before all other unused buffers.  The
transaction touches at most `2 * MaxTxn` blocks, which is less than `NBuf`; so
the last unused buffer, which `bget` recycles, is never one of them
(the lemmas about the cache have the counting argument and how each operation moves
the places).  `CacheCurrent` and `DiskCurrent` tie buffers, disk and log blocks to
the last stored contents, apart from the `Pending` blocks of a commit under way;
`HeadersAgree` and `TxnUse` tie the two log headers to the phase of the commit.
There is one lemma for each action.

The refinement maps `stable` to what a restart would find: the log block where
the header on disk names the block, the disk otherwise.  Then `WriteHead` is the
one step in which a transaction becomes permanent; `Install`, `ClearHead` and
`InitLog` are stuttering steps because the home blocks they change are covered
by the log until they are equal.

`FileSysProofs` proves `InodesOK`, `BlocksAccounted`, `DirectoryAccounted`,
`RefsMatchHolders`, `PanicsOnlyWhenFull` and their conjunction `AllAccounted` for
every geometry, with any number of inodes, files and descriptors and any set of
paths, modes and counts.  None of them is inductive: that `bfree` never meets a free
block needs that no two places of any two inodes name one block, that `iget` finds a
slot needs the counts of all open files, and that `dirlink` extends the directory
only behind its last entry needs that it has no holes.  `IInv` has three parts.

* `Rest`, about one file system value.  `Exact`: the blocks marked used are those
  that inodes refer to, each at one place (a direct address, an entry of an indirect
  block, or the address of one).  `Sized`: an inode has a block at a place if and only
  if its size calls for one.  `Kind`: types and link counts.  `Dir`: the root has
  all names different and one entry for each inode in use, but for one inode `x` that
  `ialloc` has taken and `dirlink` not yet entered.  `Slots`: the reference count of
  an inode is the number of open files on it and of the pointers `p` and `q` that the
  code holds at this point, the locked inodes are `a` and `b`, and a valid one is the
  one on disk.
* `Tables`: a file has as many references as descriptors point to it, and none that
  can be written is the root.
* `Calling`: the `write` under way has an open, writable file.

Between two steps `x`, `p`, `q`, `a` and `b` are 0.  Inside a call they say where the
code is: every operator of `FsOps` has a lemma from its precondition in these terms
to its postcondition, `Kept` where it may only touch the cache, `Full` or
`NoneFree` where it ended in one of the two panics of a full disk, and these lemmas
are put together as the code puts the functions together, to one lemma for each
action.  A `panic` keeps the disk and is followed by a restart only, so of the cache
nothing is said after it.  `writei` and `namex` are loops; that every round keeps the
invariant is proved without induction over data, by looking at the first round that
would not (`MinIs`, from the well-foundedness of the numbers).

`FileSpecProofs` proves `Spec => ImplementsFiles`: `open`, `read`, `write`, `close`,
`dup`, `fstat` and a restart do what `FileSpec` says, for the same constants, with and
without `KeepDisk`.  The mapping shows the cells of every inode in use
(`FileData`), the file table without its reference counts (`Descriptions`) and the
rest of a `write` (`Unwritten`).  The argument has three layers.  The lemmas of
`FileSysProofs` say of each operator not only that it keeps the invariant but what it
does to the cells: nothing (`Alike`), the cells of one inode from an offset on
(`Written`), an inode emptied (`Emptied`), or an inode made with its entry in the root
(`Made`).  `Data(s)`, the files of a file system value, turns these into `Overlay`, the
empty sequence and `Created` (`DataWritten`, `DataEmptied`, `DataMade`).  Then there is
one lemma for each action: it is a step of `FileSpec`, or one that is not seen because it
ended in a panic.  That the cells of one file do not change with those of another is
`Exact`: they are in different blocks.  `Unopened`, the second invariant, says that a
struct file in no use is cleared, so that a new one starts `Closed`.

The theorems of both modules have one hypothesis, that no path is empty: `namex`
leaks the root's reference for it, and `MCEmptyPath` shows that `RefsMatchHolders` is
then false.  Of the constants they need that the inode cache has `NOFile + 2` slots
(the open files, and the directory and the entry of a path; 50 and 16 in the code),
which is why `iget` never panics, and that a directory can hold a name for each inode
(200 inodes and 265216 entries in the code), which is why `dirlink` in `create` fails
after `ialloc` only on a full disk.

`KlogProofs` proves `IInv` of `Klog` for every ring size, with `RingHolds` (the
k-th last record is k slots behind `head`) as its core, and from it
`CountersAddUp` and `DumpIsRecent`.

`ProcProofs` proves `TableOK`, `EveryPageOnce` and `StacksAlive` of `Proc` for every
number of slots, pages and pids.  `IInv` is their conjunction with `Shape`, the
types and what holds at each place of the flow of control: who is marked running,
and which stack the processor is on.  What `alloc_page` and `free_page` do to the
free list, a sequence without duplicates, is stated in lemmas about sequences.
`ReturnsWhenDone` rests on the last conjunct of `Shape`: as long as `runnable` is 0
in a round, the slots that the round has passed are not runnable, since nothing has
run that could make one so.  The test of `ProdCons` is a behaviour of
`Proc` (`TestRunsOnProc`), so these theorems hold during the test too; `TestInv`
adds where its two threads stand, that the lock is free unless the running thread
is in its critical section, and that at most one item waits, which together give
`BufferSafe`.

`TrapProofs` is about any two texts, any tick period, any width of the counter and
any queue of two places or more.  `IInv` says at each instruction of main which of
the interrupt enable, the lock and `stvec` are set (`Place`: the program is known,
up to the lengths of its texts), what the trap frame holds while the handler runs
(`Trapped`), and how full the queue may be at each poll and write (`Queue`): the
handler's last byte is the only one that a poll of main can miss, and that is why
two places are enough.  `AstrayOnlyInBoot` limits what `MCTrapEarly` finds: however
long the boot takes, an interrupt misses kernelvec only between the release in
`fs_init` and `trapinithart`.  The refinement `TrapImplementsTicking` maps the
program to `ShownProgram`, without the first halves of `intr_on`, `intr_off` and
`uart_putc`, and the counter to the number of periods, by a lemma for each action.

`PageTableProofs` is about any fan-out, page size, memory and end of the kernel.
`IInv` is `JobOK` (the page that `kvmmap` has come to), `Trees` (there are sets A
and B of pages, the tables of the second and of the third level; each is pointed to
by one entry of the level above, and by nothing else), `Progress` (what is mapped is
what the loops of `kvminit` have been over) and `Paging`.  `GrowTop`, `GrowMiddle` and `SetLeaf` say what one store
does to such a tree and to the address space that it stands for; a failed walk has
grown the tree, and has not changed the address space.

`CallsProofs` has three parts, and its theorems are about `CallsSpec`.  For `WriteTxn` the invariant is that offset and
rest of the chunk stay within `MAXOPBLOCKS + 1` data blocks, and that all blocks
used are these, a bitmap block, the indirect block and the inode block: at most
`MAXOPBLOCKS + 4`.  `WriteFitsLog` assumes `MAXOPBLOCKS + 4 < LOGSIZE` and
`WriteFitsCache` assumes `2 * (MAXOPBLOCKS + 4) < NBUF`; with 10, 30 and 30 in
`fs.h` both hold, and with `MAXOPBLOCKS` 11 the second would not.  For `Syscall`
it rests on what `AsInt` and `Extend` do for any widths of which one divides the
other, and on the distance of two counter values (`UnderWay` says that it is the
number of ticks counted).  For `Fsck` the invariant compares what the loops have
been over (`Seen`) with `used[]` and `errors`: `used[]` has the data blocks that
these places refer to, and `errors` is 0 if and only if they break no rule.

Only model-checked:

* Liveness under fairness (`CommitFinishes`, `NoStarvation`, `TestPasses`,
  `MainEnds`), which is out of the prover's reach.
* The properties of `Format`, which need induction over the format and the digits.

## 6. What is not modelled, and the plan

Not modelled: exceptions and interrupts other than the timer's, which end in a panic
of `kerneltrap` (`trap.c:58-64`; the `ecall` of `test_exception_handling`, which
nothing calls, would be one); the setting up of machine mode in
`start.c` and `entry.S`; the TLB, since no entry is ever changed; the tests of
`test.c` that only call what is modelled; device inodes and `create` of
directories, which no call reaches; negative counts of `write`, which returns at
once for them.  `skipelem` writes a zero byte behind a name of 14 characters; names
are model values here.  `test_fs_large_file` has two local buffers of 4096 bytes on
a boot stack of 4096 bytes; the modules have no sizes of stack frames, and what is
overwritten is decided by the linker.

The plan, in its order:

1. done: `BufferCache`, `AtomicDisk`, `Log` with its proofs; `FsOps`, `FileSpec`,
   `FileSys`; `WriteTxn`; `Klog` with its proofs; `Proc`; `ProdCons`;
   `PageTable` with `AddressSpace`; `Trap` with `Ticking`; `Console`; `Format`;
   `Syscall`; `Fsck`.
2. done: the proofs of section 5.
3. `FileSpec` with a tighter `Fail`: which calls may fail in which states, and a
   `WriteBegin` that names the data.
