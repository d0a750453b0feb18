-------------------------------- MODULE Calls -------------------------------
(***************************************************************************)
(* Three parts of the kernel that run from beginning to end on the one     *)
(* flow of control and share nothing: the system calls, the write          *)
(* transactions of filewrite, and fsck_lite.  One of them is chosen at the *)
(* start; the state of the others stays as it is.                          *)
(***************************************************************************)
EXTENDS Syscall

CONSTANTS
  BSIZE, NDIRECT, NINDIRECT, MAXOPBLOCKS, LOGSIZE, NBUF, Offsets, Sizes, Slack,   \* WriteTxn
  FSSIZE, INODESTART, BMAPSTART, NINODES, IPB, BPB, Direct, Indirect, Entry,      \* Fsck
  NDirect, NIndirect            \* NDIRECT and NINDIRECT on the disks that Fsck checks

VARIABLES
  part,                                                        \* syscall, write or fsck
  wpc, woff, left, have, wused, logged,                        \* WriteTxn
  inodes, entries, bitmap, fpc, inum, i, fused, errors, held   \* Fsck

syscall == vars
write == <<wpc, woff, left, have, wused, logged>>
fsck == <<inodes, entries, bitmap, fpc, inum, i, fused, errors, held>>

W == INSTANCE WriteTxn WITH pc <- wpc, off <- woff, used <- wused
F == INSTANCE Fsck WITH pc <- fpc, used <- fused, NDIRECT <- NDirect, NINDIRECT <- NIndirect

ASSUME CallsAssumption == W!WriteTxnAssumption /\ F!FsckAssumption

\* what stands in the variables of a part that does not run: a check of a disk
\* without inodes that has ended
FsckAtRest ==
  /\ inodes = <<>> /\ entries = <<>> /\ bitmap = {}
  /\ fpc = "done" /\ inum = NINODES /\ i = 1 /\ fused = {} /\ errors = 0 /\ held = {}

CallsInit ==
  /\ part \in {"syscall", "write", "fsck"}
  /\ W!Init
  /\ IF part = "fsck" THEN F!Init ELSE FsckAtRest
  /\ Init /\ (part # "syscall" => pid = 0)

CallsNext ==
  \/ part = "syscall" /\ Next /\ UNCHANGED <<part, write, fsck>>
  \/ part = "write" /\ W!Next /\ UNCHANGED <<part, syscall, fsck>>
  \/ part = "fsck" /\ F!Next /\ UNCHANGED <<part, syscall, write>>

CallsSpec == CallsInit /\ [][CallsNext]_<<part, syscall, write, fsck>>
-----------------------------------------------------------------------------
\* see WriteTxn: the log area has room for the longest transaction
LogHasRoom == W!LogHasRoom

\* see WriteTxn: the buffers of a transaction and of its log fit into the cache
CacheHasRoom == W!CacheHasRoom

\* see Fsck: errors are reported if there are some, and only then
Verdict == F!Verdict

\* see Fsck: the check returns unless an indirect block lies outside the data region
CheckSound == F!CheckSound
=============================================================================
